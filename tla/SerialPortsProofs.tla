-------------------------- MODULE SerialPortsProofs --------------------------
(***************************************************************************)
(* No device is opened twice and every removed reader is released, for     *)
(* every set of ports and readers, whichever threads stop a reader.        *)
(***************************************************************************)
EXTENDS SerialPorts, TLAPS

(* The reader that the sweep is about to connect is known to nobody else. *)
ConnectInv ==
    /\ sweep = "isOpen" => cur \in listed
    /\ sweep \in {"connect", "add"} =>
          cur \notin listed /\ \A q \in listed : port[q] # port[cur]
    /\ sweep = "connect" =>
          /\ run[cur] /\ handle[cur] = "null" /\ ~reading[cur]
          /\ cur \notin toStop /\ ~Stopping(cur)
    /\ sweep # "check" => at[Scheduler] = "idle"

(* Only listed readers are open, and the one about to be listed; the list has one
   reader for a port; what is to be removed is closed, or just being so. *)
OpenInv ==
    /\ \A r, q \in listed : port[r] = port[q] => r = q
    /\ \A r \in Readers : Open(r) => r \in listed \/ (r = cur /\ sweep = "add")
    /\ \A r \in gone : Open(r) => on[Scheduler] = r /\ at[Scheduler] \in {"test", "close"}
    /\ \A t \in Threads : at[t] = "null" => ~Open(on[t])

(* Nobody stops a reader that is not in the list but those stopped before; the
   scheduler's thread itself releases what it removes. *)
ReleaseInv ==
    /\ \A r \in gone : ~run[r] /\ ((~consumer[r] /\ ~session[r]) \/ on[Scheduler] = r)
    /\ \A r \in toStop : r \in listed \/ ~run[r]
    /\ \A r \in Readers : reading[r] => r \in listed \/ r = cur \/ ~run[r]
    /\ RemovedIsReleased

Inv == SerialTypeOK /\ ConnectInv /\ OpenInv /\ ReleaseInv
-----------------------------------------------------------------------------
(* There are no readers at the start. *)
LEMMA InvInit == Init => Inv
BY SerialAssumption
   DEF Init, Inv, SerialTypeOK, ConnectInv, OpenInv, ReleaseInv, RemovedIsReleased, Threads,
       Open, Stopping

(* Calling stopReader keeps the types of what it touches. *)
LEMMA CallTypes ==
  ASSUME SerialTypeOK, NEW t \in Threads, NEW r \in Readers, CallStopReader(t, r)
  PROVE  /\ run' \in [Readers -> BOOLEAN]
         /\ at' \in [Threads -> {"idle", "test", "close", "null", "session"}]
         /\ on' \in [Threads -> Readers \cup {None}]
         /\ \A u \in Threads : at'[u] = "idle" <=> on'[u] = None
<1>1. r # None
  BY SerialAssumption
<1>2. run' \in [Readers -> BOOLEAN]
  BY DEF CallStopReader, SerialTypeOK
<1>3. at' = [at EXCEPT ![t] = "test"] /\ on' = [on EXCEPT ![t] = r]
  BY DEF CallStopReader
<1>4. /\ at \in [Threads -> {"idle", "test", "close", "null", "session"}]
      /\ on \in [Threads -> Readers \cup {None}]
      /\ \A u \in Threads : at[u] = "idle" <=> on[u] = None
  BY DEF SerialTypeOK
<1>5. /\ at' \in [Threads -> {"idle", "test", "close", "null", "session"}]
      /\ on' \in [Threads -> Readers \cup {None}]
  BY <1>3, <1>4
<1>6. ASSUME NEW u \in Threads PROVE at'[u] = "idle" <=> on'[u] = None
  BY <1>1, <1>3, <1>4
<1> QED
  BY <1>2, <1>5, <1>6

(* Every step keeps the types. *)
LEMMA TypeNext == Inv /\ [Next]_vars => SerialTypeOK'
<1> SUFFICES ASSUME Inv, [Next]_vars PROVE SerialTypeOK'
  OBVIOUS
<1> USE SerialAssumption
    DEF Inv, SerialTypeOK, Threads, vars, readerVars, sweepVars, downVars, stopVars
<1>1. ASSUME SweepStart PROVE SerialTypeOK'
  BY <1>1 DEF SweepStart
<1>2. ASSUME NEW r \in Readers, Check(r) PROVE SerialTypeOK'
  <2>1. CASE device[port[r]] /\ handle[r] # "null"
    BY <1>2, <2>1 DEF Check
  <2>2. CASE ~(device[port[r]] /\ handle[r] # "null") /\ ~(device[port[r]] /\ run[r])
    <3>1. CallStopReader(Scheduler, r) /\ gone' = gone \cup {r}
      BY <1>2, <2>2 DEF Check, Remove
    <3> QED
      BY <1>2, <2>2, <3>1, CallTypes DEF Check
  <2>3. CASE ~(device[port[r]] /\ handle[r] # "null") /\ device[port[r]] /\ run[r]
    BY <1>2, <2>3 DEF Check
  <2> QED
    BY <2>1, <2>2, <2>3
<1>3. ASSUME IsOpen PROVE SerialTypeOK'
  <2>1. CASE handle[cur] = "null"
    BY <1>3, <2>1 DEF IsOpen, EndSweep
  <2>2. CASE handle[cur] # "null" /\ Open(cur)
    BY <1>3, <2>2 DEF IsOpen
  <2>3. CASE handle[cur] # "null" /\ ~Open(cur)
    <3>1. cur \in listed /\ CallStopReader(Scheduler, cur) /\ gone' = gone \cup {cur}
      BY <1>3, <2>3 DEF IsOpen, Remove, ConnectInv
    <3> QED
      BY <1>3, <2>3, <3>1, CallTypes DEF IsOpen
  <2> QED
    BY <2>1, <2>2, <2>3
<1>4. ASSUME RemoveAll PROVE SerialTypeOK'
  BY <1>4 DEF RemoveAll
<1>5. ASSUME NEW p \in Ports, Skip(p) PROVE SerialTypeOK'
  BY <1>5 DEF Skip
<1>6. ASSUME NEW p \in Ports, NEW r \in Readers, Construct(p, r) PROVE SerialTypeOK'
  BY <1>6 DEF Construct
<1>7. ASSUME Connect PROVE SerialTypeOK'
  BY <1>7 DEF Connect
<1>8. ASSUME ConnectFails PROVE SerialTypeOK'
  BY <1>8 DEF ConnectFails
<1>9. ASSUME Add PROVE SerialTypeOK'
  BY <1>9 DEF Add
<1>10. ASSUME SweepEnds PROVE SerialTypeOK'
  BY <1>10 DEF SweepEnds, EndSweep
<1>11. ASSUME NEW t \in Threads, StopReader(t) PROVE SerialTypeOK'
  <2>1. CASE TestPort(t)
    BY <1>11, <2>1 DEF TestPort
  <2>2. CASE ClosePort(t)
    BY <1>11, <2>2 DEF ClosePort
  <2>3. CASE ForgetPort(t)
    BY <1>11, <2>3 DEF ForgetPort
  <2>4. CASE StopSession(t)
    BY <1>11, <2>4 DEF StopSession
  <2> QED
    BY <1>11, <2>1, <2>2, <2>3, <2>4 DEF StopReader
<1>12. ASSUME NEW r \in Readers, Event(r) \/ EventReturns(r) \/ Notice(r)
       PROVE  SerialTypeOK'
  BY <1>12 DEF Event, EventReturns, Notice
<1>13. ASSUME NEW r \in Readers, EventFails(r) PROVE SerialTypeOK'
  <2>1. CallStopReader(r, r)
    BY <1>13 DEF EventFails
  <2>2. failed' \in [Ports -> BOOLEAN] /\ reading' \in [Readers -> BOOLEAN]
    BY <1>13 DEF EventFails
  <2> QED
    BY <1>13, <2>1, <2>2, CallTypes DEF EventFails
<1>14. ASSUME StopSerial \/ StopReturns PROVE SerialTypeOK'
  BY <1>14 DEF StopSerial, StopReturns
<1>15. ASSUME NEW r \in Readers, StopNext(r) PROVE SerialTypeOK'
  BY <1>15, CallTypes DEF StopNext
<1>16. ASSUME NEW p \in Ports, Plug(p) PROVE SerialTypeOK'
  BY <1>16 DEF Plug
<1>17. ASSUME NEW p \in Ports, Unplug(p) PROVE SerialTypeOK'
  BY <1>17 DEF Unplug
<1>18. CASE UNCHANGED vars
  BY <1>18
<1> QED
  BY <1>1, <1>2, <1>3, <1>4, <1>5, <1>6, <1>7, <1>8, <1>9, <1>10, <1>11, <1>12, <1>13, <1>14,
     <1>15, <1>16, <1>17, <1>18 DEF Next, SweepStep, ShutdownStep

(* No step lets anybody know of the reader that connect has in hand. *)
LEMMA ConnectNext == Inv /\ [Next]_vars => ConnectInv'
<1> SUFFICES ASSUME Inv, [Next]_vars PROVE ConnectInv'
  OBVIOUS
<1> USE SerialAssumption
    DEF Inv, SerialTypeOK, ConnectInv, Stopping, vars, readerVars, sweepVars, downVars,
        stopVars
<1>0. Scheduler \in Threads /\ Shutdown \in Threads /\ Readers \subseteq Threads
  BY DEF Threads
<1>1. ASSUME SweepStart PROVE ConnectInv'
  BY <1>1 DEF SweepStart
<1>2. ASSUME NEW r \in Readers, Check(r) PROVE ConnectInv'
  BY <1>2 DEF Check, Remove
<1>3. ASSUME IsOpen PROVE ConnectInv'
  <2>1. CASE handle[cur] = "null"
    BY <1>3, <2>1 DEF IsOpen, EndSweep
  <2>2. CASE handle[cur] # "null"
    BY <1>3, <2>2 DEF IsOpen
  <2> QED
    BY <2>1, <2>2
<1>4. ASSUME RemoveAll PROVE ConnectInv'
  BY <1>4 DEF RemoveAll
<1>5. ASSUME NEW p \in Ports, Skip(p) PROVE ConnectInv'
  BY <1>5 DEF Skip
<1>6. ASSUME NEW p \in Ports, NEW r \in Readers, Construct(p, r) PROVE ConnectInv'
  <2>1. /\ port'[r] = p /\ run'[r] /\ handle'[r] = "null"
        /\ \A q \in listed : port'[q] = port[q] /\ port[q] # p
    BY <1>6 DEF Construct, Garbage, Connected
  <2> QED
    BY <1>6, <2>1 DEF Construct, Garbage
<1>7. ASSUME Connect PROVE ConnectInv'
  BY <1>7 DEF Connect
<1>8. ASSUME ConnectFails PROVE ConnectInv'
  BY <1>8 DEF ConnectFails
<1>9. ASSUME Add PROVE ConnectInv'
  BY <1>9 DEF Add
<1>10. ASSUME SweepEnds PROVE ConnectInv'
  BY <1>10 DEF SweepEnds, EndSweep
<1>11. ASSUME NEW t \in Threads, StopReader(t) PROVE ConnectInv'
  <2>1. on[t] \in Readers /\ at[t] # "idle"
    BY <1>11 DEF StopReader, TestPort, ClosePort, ForgetPort, StopSession
  <2>2. sweep = "connect" => on[t] # cur
    BY <2>1
  <2>3. CASE TestPort(t)
    BY <1>0, <2>1, <2>2, <2>3 DEF TestPort
  <2>4. CASE ClosePort(t)
    BY <1>0, <2>1, <2>2, <2>4 DEF ClosePort
  <2>5. CASE ForgetPort(t)
    BY <1>0, <2>1, <2>2, <2>5 DEF ForgetPort
  <2>6. CASE StopSession(t)
    BY <1>0, <2>1, <2>2, <2>6 DEF StopSession
  <2> QED
    BY <1>11, <2>3, <2>4, <2>5, <2>6 DEF StopReader
<1>12. ASSUME NEW r \in Readers, Event(r) \/ EventReturns(r) \/ Notice(r)
       PROVE  ConnectInv'
  BY <1>12 DEF Event, EventReturns, Notice
<1>13. ASSUME NEW r \in Readers, EventFails(r) PROVE ConnectInv'
  <2>1. sweep = "connect" => r # cur
    BY <1>13 DEF EventFails
  <2> QED
    BY <1>0, <1>13, <2>1 DEF EventFails, CallStopReader
<1>14. ASSUME StopSerial \/ StopReturns PROVE ConnectInv'
  BY <1>14 DEF StopSerial, StopReturns
<1>15. ASSUME NEW r \in Readers, StopNext(r) PROVE ConnectInv'
  <2>1. sweep = "connect" => r # cur
    BY <1>15 DEF StopNext
  <2> QED
    BY <1>0, <1>15, <2>1 DEF StopNext, CallStopReader
<1>16. ASSUME NEW p \in Ports, Plug(p) PROVE ConnectInv'
  BY <1>16 DEF Plug
<1>17. ASSUME NEW p \in Ports, Unplug(p) PROVE ConnectInv'
  BY <1>17 DEF Unplug
<1>18. CASE UNCHANGED vars
  BY <1>18
<1> QED
  BY <1>1, <1>2, <1>3, <1>4, <1>5, <1>6, <1>7, <1>8, <1>9, <1>10, <1>11, <1>12, <1>13, <1>14,
     <1>15, <1>16, <1>17, <1>18 DEF Next, SweepStep, ShutdownStep

(* No step leaves an unlisted reader open, or lists a port twice. *)
LEMMA OpenNext == Inv /\ [Next]_vars => OpenInv'
<1> SUFFICES ASSUME Inv, [Next]_vars PROVE OpenInv'
  OBVIOUS
<1> USE SerialAssumption
    DEF Inv, SerialTypeOK, ConnectInv, OpenInv, Open, vars, readerVars, sweepVars, downVars,
        stopVars
<1>0. Scheduler \in Threads /\ Shutdown \in Threads /\ Readers \subseteq Threads
  BY DEF Threads
<1>1. ASSUME SweepStart PROVE OpenInv'
  BY <1>1 DEF SweepStart
<1>2. ASSUME NEW r \in Readers, Check(r) PROVE OpenInv'
  BY <1>0, <1>2 DEF Check, Remove, CallStopReader
<1>3. ASSUME IsOpen PROVE OpenInv'
  <2>1. CASE handle[cur] = "null"
    BY <1>3, <2>1 DEF IsOpen, EndSweep
  <2>2. CASE handle[cur] # "null"
    BY <1>0, <1>3, <2>2 DEF IsOpen, Remove, CallStopReader
  <2> QED
    BY <2>1, <2>2
<1>4. ASSUME RemoveAll PROVE OpenInv'
  BY <1>4 DEF RemoveAll
<1>5. ASSUME NEW p \in Ports, Skip(p) PROVE OpenInv'
  BY <1>5 DEF Skip
<1>6. ASSUME NEW p \in Ports, NEW r \in Readers, Construct(p, r) PROVE OpenInv'
  BY <1>6 DEF Construct, Garbage, Stopping
<1>7. ASSUME Connect PROVE OpenInv'
  BY <1>0, <1>7 DEF Connect, Stopping
<1>8. ASSUME ConnectFails PROVE OpenInv'
  BY <1>8 DEF ConnectFails
<1>9. ASSUME Add PROVE OpenInv'
  BY <1>9 DEF Add
<1>10. ASSUME SweepEnds PROVE OpenInv'
  BY <1>10 DEF SweepEnds, EndSweep
<1>11. ASSUME NEW t \in Threads, StopReader(t) PROVE OpenInv'
  <2>1. on[t] \in Readers
    BY <1>11 DEF StopReader, TestPort, ClosePort, ForgetPort, StopSession
  <2>2. CASE TestPort(t)
    BY <1>0, <2>1, <2>2 DEF TestPort
  <2>3. CASE ClosePort(t)
    BY <1>0, <2>1, <2>3 DEF ClosePort
  <2>4. CASE ForgetPort(t)
    BY <1>0, <2>1, <2>4 DEF ForgetPort
  <2>5. CASE StopSession(t)
    BY <1>0, <2>1, <2>5 DEF StopSession
  <2> QED
    BY <1>11, <2>2, <2>3, <2>4, <2>5 DEF StopReader
<1>12. ASSUME NEW r \in Readers, Event(r) \/ EventReturns(r) \/ Notice(r)
       PROVE  OpenInv'
  BY <1>12 DEF Event, EventReturns, Notice
<1>13. ASSUME NEW r \in Readers, EventFails(r) PROVE OpenInv'
  BY <1>0, <1>13 DEF EventFails, CallStopReader
<1>14. ASSUME StopSerial \/ StopReturns PROVE OpenInv'
  BY <1>14 DEF StopSerial, StopReturns
<1>15. ASSUME NEW r \in Readers, StopNext(r) PROVE OpenInv'
  BY <1>0, <1>15 DEF StopNext, CallStopReader
<1>16. ASSUME NEW p \in Ports, Plug(p) PROVE OpenInv'
  BY <1>16 DEF Plug
<1>17. ASSUME NEW p \in Ports, Unplug(p) PROVE OpenInv'
  BY <1>17 DEF Unplug
<1>18. CASE UNCHANGED vars
  BY <1>18
<1> QED
  BY <1>1, <1>2, <1>3, <1>4, <1>5, <1>6, <1>7, <1>8, <1>9, <1>10, <1>11, <1>12, <1>13, <1>14,
     <1>15, <1>16, <1>17, <1>18 DEF Next, SweepStep, ShutdownStep

(* No step takes a reader out of the list before it is released. *)
LEMMA ReleaseNext == Inv /\ [Next]_vars => ReleaseInv'
<1> SUFFICES ASSUME Inv, [Next]_vars PROVE ReleaseInv'
  OBVIOUS
<1> USE SerialAssumption
    DEF Inv, SerialTypeOK, ConnectInv, OpenInv, ReleaseInv, RemovedIsReleased, Open, vars,
        readerVars, sweepVars, downVars, stopVars
<1>0. Scheduler \in Threads /\ Shutdown \in Threads /\ Readers \subseteq Threads
  BY DEF Threads
<1>1. ASSUME SweepStart PROVE ReleaseInv'
  BY <1>1 DEF SweepStart
<1>2. ASSUME NEW r \in Readers, Check(r) PROVE ReleaseInv'
  BY <1>0, <1>2 DEF Check, Remove, CallStopReader
<1>3. ASSUME IsOpen PROVE ReleaseInv'
  <2>1. CASE handle[cur] = "null"
    BY <1>3, <2>1 DEF IsOpen, EndSweep
  <2>2. CASE handle[cur] # "null"
    BY <1>0, <1>3, <2>2 DEF IsOpen, Remove, CallStopReader
  <2> QED
    BY <2>1, <2>2
<1>4. ASSUME RemoveAll PROVE ReleaseInv'
  BY <1>0, <1>4 DEF RemoveAll
<1>5. ASSUME NEW p \in Ports, Skip(p) PROVE ReleaseInv'
  BY <1>5 DEF Skip
<1>6. ASSUME NEW p \in Ports, NEW r \in Readers, Construct(p, r) PROVE ReleaseInv'
  BY <1>6 DEF Construct, Garbage
<1>7. ASSUME Connect PROVE ReleaseInv'
  BY <1>7 DEF Connect
<1>8. ASSUME ConnectFails PROVE ReleaseInv'
  BY <1>8 DEF ConnectFails
<1>9. ASSUME Add PROVE ReleaseInv'
  BY <1>9 DEF Add
<1>10. ASSUME SweepEnds PROVE ReleaseInv'
  BY <1>10 DEF SweepEnds, EndSweep
<1>11. ASSUME NEW t \in Threads, StopReader(t) PROVE ReleaseInv'
  <2>1. on[t] \in Readers
    BY <1>11 DEF StopReader, TestPort, ClosePort, ForgetPort, StopSession
  <2>2. CASE TestPort(t)
    BY <1>0, <2>1, <2>2 DEF TestPort
  <2>3. CASE ClosePort(t)
    BY <1>0, <2>1, <2>3 DEF ClosePort
  <2>4. CASE ForgetPort(t)
    BY <1>0, <2>1, <2>4 DEF ForgetPort
  <2>5. CASE StopSession(t)
    BY <1>0, <2>1, <2>5 DEF StopSession
  <2> QED
    BY <1>11, <2>2, <2>3, <2>4, <2>5 DEF StopReader
<1>12. ASSUME NEW r \in Readers, Event(r) \/ EventReturns(r) \/ Notice(r)
       PROVE  ReleaseInv'
  BY <1>12 DEF Event, EventReturns, Notice
<1>13. ASSUME NEW r \in Readers, EventFails(r) PROVE ReleaseInv'
  BY <1>0, <1>13 DEF EventFails, CallStopReader
<1>14. ASSUME StopSerial \/ StopReturns PROVE ReleaseInv'
  BY <1>14 DEF StopSerial, StopReturns
<1>15. ASSUME NEW r \in Readers, StopNext(r) PROVE ReleaseInv'
  BY <1>0, <1>15 DEF StopNext, CallStopReader
<1>16. ASSUME NEW p \in Ports, Plug(p) PROVE ReleaseInv'
  BY <1>16 DEF Plug
<1>17. ASSUME NEW p \in Ports, Unplug(p) PROVE ReleaseInv'
  BY <1>17 DEF Unplug
<1>18. CASE UNCHANGED vars
  BY <1>18
<1> QED
  BY <1>1, <1>2, <1>3, <1>4, <1>5, <1>6, <1>7, <1>8, <1>9, <1>10, <1>11, <1>12, <1>13, <1>14,
     <1>15, <1>16, <1>17, <1>18 DEF Next, SweepStep, ShutdownStep

(* The invariant rules out a second reader of an open port, listed or being listed. *)
LEMMA InvImpliesOneOpen == Inv => OneOpenPerPort
<1> SUFFICES ASSUME Inv, NEW r \in Readers, NEW q \in Readers, Open(r), Open(q),
                    port[r] = port[q]
             PROVE  r = q
  BY DEF OneOpenPerPort
<1>1. /\ r \in listed \/ (r = cur /\ sweep = "add")
      /\ q \in listed \/ (q = cur /\ sweep = "add")
  BY DEF Inv, OpenInv
<1> QED
  BY <1>1 DEF Inv, OpenInv, ConnectInv

-----------------------------------------------------------------------------
(* SerialPortManager and its readers: what the code's list, fields and locals of the
   threads say of each other (Inv) holds in every state that can be reached. *)
THEOREM InvCorrect == Spec => []Inv
<1>1. Inv /\ [Next]_vars => Inv'
  BY TypeNext, ConnectNext, OpenNext, ReleaseNext DEF Inv
<1> QED
  BY InvInit, <1>1, PTL DEF Spec

(* Whatever the threads interleave, the model's variables, locals and references to
   readers have their types. *)
THEOREM SerialTypeCorrect == Spec => []SerialTypeOK
<1>1. Inv => SerialTypeOK
  BY DEF Inv
<1> QED
  BY <1>1, InvCorrect, PTL

(* SerialPortManager and its readers never have a device open twice. *)
THEOREM OneOpenPerPortCorrect == Spec => []OneOpenPerPort
BY InvImpliesOneOpen, InvCorrect, PTL

(* A reader that SerialPortManager.run takes out of its list holds no port, no
   consumer and no session of the scheduler's thread. *)
THEOREM RemovedIsReleasedCorrect == Spec => []RemovedIsReleased
<1>1. Inv => RemovedIsReleased
  BY DEF Inv, ReleaseInv
<1> QED
  BY <1>1, InvCorrect, PTL
=============================================================================
