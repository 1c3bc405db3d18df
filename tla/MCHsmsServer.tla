---------------------------- MODULE MCHsmsServer ----------------------------
(* Hosts that send every kind of frame.  Their system bytes coincide with the
   machine's own. *)
EXTENDS HsmsServer

Control1(stype) == [stype |-> stype, system |-> 1]
Primary(message) ==
    [stype |-> "Data", system |-> 1, primary |-> TRUE, w |-> TRUE, message |-> message]
Secondary(message) ==
    [stype |-> "Data", system |-> 1, primary |-> FALSE, w |-> FALSE, message |-> message]

MCHostFrames ==
    {Control1(stype) : stype \in {"SelectReq", "DeselectReq", "SeparateReq"}}
    \union {Primary(message) : message \in Messages \ {"acknowledge"}}
    \union {Secondary("acknowledge")}
=============================================================================
