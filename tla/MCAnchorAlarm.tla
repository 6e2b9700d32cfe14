---------------------------- MODULE MCAnchorAlarm ----------------------------
EXTENDS AnchorAlarm

Over(l, s) == [lower |-> {l}, upper |-> {}, state |-> s]
Under(u, s) == [lower |-> {}, upper |-> {u}, state |-> s]
Between(l, u, s) == [lower |-> {l}, upper |-> {u}, state |-> s]

\* Squared distances are 0, 9, 16 and 25: one is on a border, one in a zone that
\* notifies nothing.
SampleZones ==
    {<<Under(9, "normal"), Over(9, "alarm")>>,
     <<Over(20, "alarm"), Between(0, 9, "normal"),
       Between(9, 16, "warn"), Between(16, 20, "alert")>>}
=============================================================================
