------------------------------ MODULE MCGuard -------------------------------
(***************************************************************************)
(* A day of four hours, and settings the hooks have to live with.          *)
(***************************************************************************)
EXTENDS Guard, TLC

MCOffset == [local |-> 0, ahead |-> 1]

Contact(known, zone) == [known |-> known, dnc |-> FALSE, zone |-> zone]

MCContacts == {Contact(TRUE, "ahead"), Contact(FALSE, NoZone)}
OneContact == {Contact(TRUE, NoZone)}

\* Calling hours that are quiet over midnight, and none.
Window(set, tz) == [set |-> set, valid |-> TRUE, start |-> 3, end |-> 1, tz |-> tz]

OverMidnight == {Window(TRUE, "contact")}
NoHours      == {Window(FALSE, "contact")}

Cap(max, hours) == [set |-> TRUE, max |-> max, hours |-> hours]

TwoCalls   == {Cap(2, 2)}
ThreeCalls == {Cap(3, 3)}
=============================================================================
