------------------------------ MODULE SerialPorts ------------------------------
(***************************************************************************)
(* SerialPortManager and its SerialPortReaders. The scheduler's thread     *)
(* sweeps every 30 seconds: it removes the readers that do not run and     *)
(* connects the configured ports that have none. Each open port has an     *)
(* event thread, which stops its reader when a message cannot be sent. The *)
(* thread of the shutdown hook stops them all. They share the fields of    *)
(* the readers, none of which is volatile or locked.                       *)
(***************************************************************************)
EXTENDS FiniteSets

CONSTANTS
    Ports,       \* config.server.serial.ports
    Readers,     \* SerialPortReader objects; one that is garbage is used again (bound)
    Scheduler,   \* the thread of the sweep
    Shutdown,    \* and that of the shutdown hook
    None

\* The event thread of a reader goes by the reader's name.
Threads == Readers \cup {Scheduler, Shutdown}

ASSUME SerialAssumption ==
    /\ Scheduler # Shutdown
    /\ Scheduler \notin Readers /\ Shutdown \notin Readers
    /\ None \notin Readers \cup Ports

VARIABLES
    device,     \* is the device plugged in: does its file exist?
    port,       \* SerialPortReader.portName
    run,        \* SerialPortReader.running
    handle,     \* SerialPortReader.serialPort: "null", "closed", "open", or "lost": open,
                \* but the device it was opened for is gone
    consumer,   \* is its consumer open?
    session,    \* and the session of the scheduler's thread that it was made with?
    reading,    \* is the event thread of the reader in serialEvent?
    at,         \* where each thread is in stopReader
    on,         \* and of which reader
    listed,     \* SerialPortManager.serialPortList
    sweep,      \* where run is
    cur,        \* the reader it looks at, or connects
    unchecked,  \* readers it has still to look at
    gone,       \* tmpPortList
    todo,       \* ports it has still to look at
    down,       \* has stopSerial begun, has it returned?
    toStop,     \* readers it has still to stop
    failed      \* history: since the last sweep began the port was not opened, or stopped
                \* itself

readerVars == <<port, run, handle, consumer, session>>
sweepVars  == <<listed, sweep, cur, unchecked, gone, todo>>
downVars   == <<down, toStop>>
stopVars   == <<at, on>>
vars == <<device, readerVars, reading, stopVars, sweepVars, downVars, failed>>

Open(r) == handle[r] \in {"open", "lost"}
Stopping(r) == \E t \in Threads : at[t] # "idle" /\ on[t] = r

Init ==
    /\ device \in [Ports -> BOOLEAN]
    /\ port = [r \in Readers |-> None]
    /\ run = [r \in Readers |-> TRUE]
    /\ handle = [r \in Readers |-> "null"]
    /\ consumer = [r \in Readers |-> FALSE]
    /\ session = [r \in Readers |-> FALSE]
    /\ reading = [r \in Readers |-> FALSE]
    /\ at = [t \in Threads |-> "idle"]
    /\ on = [t \in Threads |-> None]
    /\ listed = {}
    /\ sweep = "idle"
    /\ cur = None
    /\ unchecked = {}
    /\ gone = {}
    /\ todo = {}
    /\ down = "idle"
    /\ toStop = {}
    /\ failed = [p \in Ports |-> FALSE]

-----------------------------------------------------------------------------
(* stopReader, which any thread may call for any reader *)

\* setRunning(false), and the catch of serialEvent: running is cleared first.
CallStopReader(t, r) ==
    /\ run' = [run EXCEPT ![r] = FALSE]
    /\ at' = [at EXCEPT ![t] = "test"]
    /\ on' = [on EXCEPT ![t] = r]

\* if (serialPort != null)
TestPort(t) ==
    /\ at[t] = "test"
    /\ at' = [at EXCEPT ![t] = IF handle[on[t]] = "null" THEN "session" ELSE "close"]
    /\ UNCHANGED <<device, readerVars, reading, on, sweepVars, downVars, failed>>

\* removeDataListener and closePort. Another thread may have cleared the field by
\* now: that NullPointerException is caught.
ClosePort(t) ==
    /\ at[t] = "close"
    /\ IF handle[on[t]] = "null"
       THEN at' = [at EXCEPT ![t] = "session"] /\ UNCHANGED handle
       ELSE /\ at' = [at EXCEPT ![t] = "null"]
            /\ handle' = [handle EXCEPT ![on[t]] = "closed"]
    /\ UNCHANGED <<device, port, run, consumer, session, reading, on, sweepVars, downVars,
                   failed>>

\* serialPort = null
ForgetPort(t) ==
    /\ at[t] = "null"
    /\ at' = [at EXCEPT ![t] = "session"]
    /\ handle' = [handle EXCEPT ![on[t]] = "null"]
    /\ UNCHANGED <<device, port, run, consumer, session, reading, on, sweepVars, downVars,
                   failed>>

\* Faulty variant: the consumer is closed, and its session is not.
KeepSession(t) ==
    /\ at[t] = "session"
    /\ at' = [at EXCEPT ![t] = "idle"]
    /\ on' = [on EXCEPT ![t] = None]
    /\ consumer' = [consumer EXCEPT ![on[t]] = FALSE]
    /\ UNCHANGED <<device, port, run, handle, session, reading, sweepVars, downVars, failed>>

\* stopSession closes the consumer, and of the sessions the one of this thread.
StopSession(t) ==
    /\ at[t] = "session"
    /\ at' = [at EXCEPT ![t] = "idle"]
    /\ on' = [on EXCEPT ![t] = None]
    /\ consumer' = [consumer EXCEPT ![on[t]] = FALSE]
    /\ session' = [session EXCEPT ![on[t]] = @ /\ t # Scheduler]
    /\ UNCHANGED <<device, port, run, handle, reading, sweepVars, downVars, failed>>

StopReader(t) == TestPort(t) \/ ClosePort(t) \/ ForgetPort(t) \/ StopSession(t)

-----------------------------------------------------------------------------
(* SerialPortManager.run: first the readers, ... *)

SweepStart ==
    /\ sweep = "idle"
    /\ down = "idle"
    /\ sweep' = "check"
    /\ unchecked' = listed
    /\ failed' = [p \in Ports |-> FALSE]
    /\ UNCHANGED <<device, readerVars, reading, stopVars, listed, cur, gone, todo, downVars>>

\* A reader that does not run is noted and stopped.
Remove(r) ==
    /\ gone' = gone \cup {r}
    /\ CallStopReader(Scheduler, r)

\* isRunning, up to its test of serialPort.
Check(r) ==
    /\ sweep = "check"
    /\ at[Scheduler] = "idle"
    /\ r \in unchecked
    /\ unchecked' = unchecked \ {r}
    /\ IF device[port[r]] /\ handle[r] # "null"
       THEN sweep' = "isOpen" /\ cur' = r /\ UNCHANGED <<gone, run, stopVars>>
       ELSE /\ UNCHANGED <<sweep, cur>>
            /\ IF device[port[r]] /\ run[r] THEN UNCHANGED <<gone, run, stopVars>>
                                            ELSE Remove(r)
    /\ UNCHANGED <<device, port, handle, consumer, session, reading, listed, todo, downVars,
                   failed>>

EndSweep ==
    /\ sweep' = "idle"
    /\ cur' = None
    /\ unchecked' = {}
    /\ gone' = {}
    /\ todo' = {}

\* Faulty variant: a reader that looks open and is not is left in the list.
TrustsHandle ==
    /\ sweep = "isOpen"
    /\ sweep' = "check"
    /\ cur' = None
    /\ UNCHANGED <<device, readerVars, reading, stopVars, listed, unchecked, gone, todo,
                   downVars, failed>>

\* serialPort.isOpen(), unless the field was cleared since: the exception ends the
\* whole sweep, and what it has stopped stays listed.
IsOpen ==
    /\ sweep = "isOpen"
    /\ IF handle[cur] = "null"
       THEN EndSweep /\ UNCHANGED <<run, stopVars>>
       ELSE /\ sweep' = "check"
            /\ cur' = None
            /\ UNCHANGED <<unchecked, todo>>
            /\ IF Open(cur) THEN UNCHANGED <<gone, run, stopVars>> ELSE Remove(cur)
    /\ UNCHANGED <<device, port, handle, consumer, session, reading, listed, downVars, failed>>

RemoveAll ==
    /\ sweep = "check"
    /\ at[Scheduler] = "idle"
    /\ unchecked = {}
    /\ listed' = listed \ gone
    /\ gone' = {}
    /\ todo' = Ports
    /\ sweep' = "ports"
    /\ UNCHANGED <<device, readerVars, reading, stopVars, cur, unchecked, downVars, failed>>

-----------------------------------------------------------------------------
(* ... then the ports *)

\* Faulty variant: what is connected already is not looked for.
NeverConnected(p) == FALSE

Connected(p) == \E r \in listed : port[r] = p

Skip(p) ==
    /\ sweep = "ports"
    /\ p \in todo
    /\ ~device[p] \/ Connected(p)
    /\ todo' = todo \ {p}
    /\ UNCHANGED <<device, readerVars, reading, stopVars, listed, sweep, cur, unchecked, gone,
                   downVars, failed>>

\* Nothing refers to the reader: not the list, not a thread, not an open port.
Garbage(r) == r \notin listed \cup toStop /\ ~reading[r] /\ ~Stopping(r) /\ ~Open(r)

\* new SerialPortReader(): a consumer, on a session of the scheduler's thread.
Construct(p, r) ==
    /\ sweep = "ports"
    /\ p \in todo
    /\ device[p] /\ ~Connected(p)
    /\ Garbage(r)
    /\ todo' = todo \ {p}
    /\ sweep' = "connect"
    /\ cur' = r
    /\ port' = [port EXCEPT ![r] = p]
    /\ run' = [run EXCEPT ![r] = TRUE]
    /\ handle' = [handle EXCEPT ![r] = "null"]
    /\ consumer' = [consumer EXCEPT ![r] = TRUE]
    /\ session' = [session EXCEPT ![r] = TRUE]
    /\ UNCHANGED <<device, reading, stopVars, listed, unchecked, gone, downVars, failed>>

\* connect: nobody looks at what openPort returns.
Connect ==
    /\ sweep = "connect"
    /\ sweep' = "add"
    /\ \E opened \in {device[port[cur]], FALSE} :
          /\ handle' = [handle EXCEPT ![cur] = IF opened THEN "open" ELSE "closed"]
          /\ failed' = [failed EXCEPT ![port[cur]] = ~opened]
    /\ UNCHANGED <<device, port, run, consumer, session, reading, stopVars, listed, cur,
                   unchecked, gone, todo, downVars>>

\* The device is gone again, or the broker: the reader is left as it is.
ConnectFails ==
    /\ sweep = "connect"
    /\ sweep' = "ports"
    /\ cur' = None
    /\ failed' = [failed EXCEPT ![port[cur]] = TRUE]
    /\ UNCHANGED <<device, readerVars, reading, stopVars, listed, unchecked, gone, todo,
                   downVars>>

\* Faulty variant: the sweep goes on to refer to the reader it has added.
AddOnly ==
    /\ sweep = "add"
    /\ sweep' = "ports"
    /\ listed' = listed \cup {cur}
    /\ UNCHANGED <<device, readerVars, reading, stopVars, cur, unchecked, gone, todo, downVars,
                   failed>>

Add ==
    /\ sweep = "add"
    /\ sweep' = "ports"
    /\ listed' = listed \cup {cur}
    /\ cur' = None
    /\ UNCHANGED <<device, readerVars, reading, stopVars, unchecked, gone, todo, downVars,
                   failed>>

SweepEnds ==
    /\ sweep = "ports"
    /\ todo = {}
    /\ EndSweep
    /\ UNCHANGED <<device, readerVars, reading, stopVars, listed, downVars, failed>>

SweepStep ==
    \/ \E r \in Readers : Check(r) \/ \E p \in Ports : Construct(p, r)
    \/ \E p \in Ports : Skip(p)
    \/ SweepStart \/ IsOpen \/ RemoveAll \/ Connect \/ ConnectFails \/ Add \/ SweepEnds

-----------------------------------------------------------------------------
(* The event thread of an open port: serialEvent *)

Event(r) ==
    /\ handle[r] = "open"
    /\ run[r]
    /\ ~reading[r]
    /\ reading' = [reading EXCEPT ![r] = TRUE]
    /\ UNCHANGED <<device, readerVars, stopVars, sweepVars, downVars, failed>>

EventReturns(r) ==
    /\ reading[r]
    /\ at[r] = "idle"
    /\ reading' = [reading EXCEPT ![r] = FALSE]
    /\ UNCHANGED <<device, readerVars, stopVars, sweepVars, downVars, failed>>

\* A message cannot be sent.
EventFails(r) ==
    /\ reading[r]
    /\ at[r] = "idle"
    /\ CallStopReader(r, r)
    /\ reading' = [reading EXCEPT ![r] = FALSE]
    /\ failed' = [failed EXCEPT ![port[r]] = TRUE]
    /\ UNCHANGED <<device, port, handle, consumer, session, sweepVars, downVars>>

-----------------------------------------------------------------------------
(* ArtemisServer.stop: no sweep begins after it, but one may be under way. *)

StopSerial ==
    /\ down = "idle"
    /\ down' = "stopping"
    /\ toStop' = listed
    /\ UNCHANGED <<device, readerVars, reading, stopVars, sweepVars, failed>>

StopNext(r) ==
    /\ at[Shutdown] = "idle"
    /\ r \in toStop
    /\ toStop' = toStop \ {r}
    /\ CallStopReader(Shutdown, r)
    /\ UNCHANGED <<device, port, handle, consumer, session, reading, sweepVars, down, failed>>

StopReturns ==
    /\ down = "stopping"
    /\ at[Shutdown] = "idle"
    /\ toStop = {}
    /\ down' = "done"
    /\ UNCHANGED <<device, readerVars, reading, stopVars, sweepVars, toStop, failed>>

ShutdownStep == StopReturns \/ \E r \in Readers : StopNext(r)

-----------------------------------------------------------------------------
(* The devices, and what the library sees of them *)

Unplug(p) ==
    /\ device[p]
    /\ device' = [device EXCEPT ![p] = FALSE]
    /\ handle' = [r \in Readers |->
                     IF port[r] = p /\ handle[r] = "open" THEN "lost" ELSE handle[r]]
    /\ UNCHANGED <<port, run, consumer, session, reading, stopVars, sweepVars, downVars,
                   failed>>

Plug(p) ==
    /\ ~device[p]
    /\ device' = [device EXCEPT ![p] = TRUE]
    /\ UNCHANGED <<readerVars, reading, stopVars, sweepVars, downVars, failed>>

\* The library closes a port it fails to read.
Notice(r) ==
    /\ handle[r] = "lost"
    /\ handle' = [handle EXCEPT ![r] = "closed"]
    /\ UNCHANGED <<device, port, run, consumer, session, reading, stopVars, sweepVars,
                   downVars, failed>>

Next ==
    \/ SweepStep
    \/ StopSerial \/ ShutdownStep
    \/ \E t \in Threads : StopReader(t)
    \/ \E r \in Readers : Event(r) \/ EventReturns(r) \/ EventFails(r) \/ Notice(r)
    \/ \E p \in Ports : Plug(p) \/ Unplug(p)

\* The scheduler calls run every 30 seconds and its thread goes on, as do the others;
\* the library's event thread polls its port. Devices need not come nor go.
Fairness ==
    /\ WF_vars(SweepStep)
    /\ WF_vars(ShutdownStep)
    /\ \A t \in Threads : WF_vars(StopReader(t))
    /\ \A r \in Readers : WF_vars(EventReturns(r) \/ EventFails(r)) /\ WF_vars(Notice(r))

Spec == Init /\ [][Next]_vars
FairSpec == Spec /\ Fairness

-----------------------------------------------------------------------------
(* Properties *)

\* Every variable holds values of its type, and the threads refer to readers.
SerialTypeOK ==
    /\ device \in [Ports -> BOOLEAN]
    /\ port \in [Readers -> Ports \cup {None}]
    /\ run \in [Readers -> BOOLEAN]
    /\ handle \in [Readers -> {"null", "closed", "open", "lost"}]
    /\ consumer \in [Readers -> BOOLEAN]
    /\ session \in [Readers -> BOOLEAN]
    /\ reading \in [Readers -> BOOLEAN]
    /\ at \in [Threads -> {"idle", "test", "close", "null", "session"}]
    /\ on \in [Threads -> Readers \cup {None}]
    /\ \A t \in Threads : at[t] = "idle" <=> on[t] = None
    /\ listed \subseteq Readers
    /\ sweep \in {"idle", "check", "isOpen", "ports", "connect", "add"}
    /\ cur \in Readers \cup {None}
    /\ sweep \in {"isOpen", "connect", "add"} <=> cur # None
    /\ unchecked \subseteq listed
    /\ gone \subseteq listed
    /\ todo \subseteq Ports
    /\ down \in {"idle", "stopping", "done"}
    /\ toStop \subseteq Readers
    /\ failed \in [Ports -> BOOLEAN]
    /\ \A r \in listed \cup ({cur} \ {None}) : port[r] # None

\* A device is never opened twice: two event threads would each get a part of what
\* it sends. stopReader may fail half-way in one thread because of another, and the
\* port is connected again by a third reader.
OneOpenPerPort ==
    \A r, q \in Readers : Open(r) /\ Open(q) /\ port[r] = port[q] => r = q

\* Whichever threads stopped a reader, when it is removed from the list its port is
\* closed, and so are its consumer on incoming.raw and the session of the thread that
\* made it, though sessions belong to threads.
RemovedIsReleased ==
    \A r \in Readers \ listed :
        port[r] # None /\ ~run[r] /\ r # cur => ~Open(r) /\ ~consumer[r] /\ ~session[r]

\* SerialPortManager "dynamically adds/removes ports as the USB devices are
\* added/removed": a device that is plugged in, or in again, has a reader that reads
\* it in the end, unless it cannot be opened, is unplugged, or the server stops.
Attached(p) == \E r \in listed : port[r] = p /\ handle[r] = "open" /\ run[r]
PluggedIsAttached ==
    \A p \in Ports : device[p] ~> Attached(p) \/ failed[p] \/ ~device[p] \/ down # "idle"
=============================================================================
