-------------------------- MODULE OneTimeEnrollment --------------------------
(***************************************************************************)
(* What the server promises about enrollment tokens, with nothing said of  *)
(* how: an operator issues a ticket; an open ticket admits one new member, *)
(* once, and stands for that member ever after; a ticket left open too     *)
(* long lapses and admits nobody.                                          *)
(*                                                                         *)
(* DeviceCredentials implements this specification (OneTime there), one    *)
(* request at a time, and so does Enrollment, with the machines that use   *)
(* the tickets; their proof modules prove that they do.                    *)
(***************************************************************************)
CONSTANTS Ticket,   \* enrollment tokens
          Member    \* devices

VARIABLES state,    \* what has become of each ticket
          admits    \* which ticket admitted which member

ticketVars == <<state, admits>>

Admitted == {m \in Member : \E t \in Ticket : <<t, m>> \in admits}

Init ==
  /\ state = [t \in Ticket |-> "unissued"]
  /\ admits = {}

Issue(t) ==
  /\ state[t] = "unissued"
  /\ state' = [state EXCEPT ![t] = "open"]
  /\ UNCHANGED admits

\* The one step that admits a member: the ticket is spent in that same step,
\* and the member is nobody whom a ticket has admitted before.
Redeem(t, m) ==
  /\ state[t] = "open"
  /\ m \notin Admitted
  /\ state' = [state EXCEPT ![t] = "spent"]
  /\ admits' = admits \cup {<<t, m>>}

\* Time passes, and every ticket whose lifetime ends with it lapses.
Lapse(T) ==
  /\ \A t \in T : state[t] = "open"
  /\ state' = [t \in Ticket |-> IF t \in T THEN "lapsed" ELSE state[t]]
  /\ UNCHANGED admits

Next ==
  \/ \E t \in Ticket : Issue(t)
  \/ \E t \in Ticket, m \in Member : Redeem(t, m)
  \/ \E T \in SUBSET Ticket : Lapse(T)

Spec == Init /\ [][Next]_ticketVars

\* What this comes to: the spent tickets and the members admitted on them are
\* paired one to one.
PairedOff ==
  /\ \A t \in Ticket : state[t] = "spent" <=> \E m \in Member : <<t, m>> \in admits
  /\ \A t, u \in Ticket, m, n \in Member :
       <<t, m>> \in admits /\ <<u, n>> \in admits => (t = u <=> m = n)

=============================================================================
