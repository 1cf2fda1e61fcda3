------------------------------ MODULE Accounts ------------------------------
(***************************************************************************)
(* Who is registered and who is logged in, and what one request of a user, *)
(* LIN, LOU or UNR, is answered and changes (src/server/udp.c), when it is *)
(* taken as a single step.                                                 *)
(***************************************************************************)
CONSTANTS Users, Passwords, None

VARIABLES
  pass,  \* the password of each user, None for one who is not registered
  login  \* the users that are logged in

AccountsInit ==
  /\ pass = [u \in Users |-> None]
  /\ login = {}

Registered(u) == pass[u] # None

\* The user of r is logged in and r carries the right password.
Admitted(r) == r.uid \in login /\ pass[r.uid] = r.passwd

\* The answer to r
Answer(r) ==
  CASE r.op = "LIN" /\ ~Registered(r.uid)  -> "REG"
    [] r.op = "LIN" /\ Registered(r.uid)   ->
         IF pass[r.uid] = r.passwd THEN "OK" ELSE "NOK"
    [] r.op # "LIN" /\ ~Registered(r.uid)  -> "UNR"
    [] r.op # "LIN" /\ Registered(r.uid)   ->
         IF Admitted(r) THEN "OK" ELSE "NOK"

\* What r changes: the first LIN of a user registers, UNR forgets the user.
Effect(r) ==
  LET granted == Answer(r) \in {"OK", "REG"} IN
  /\ login' = IF ~granted THEN login
              ELSE IF r.op = "LIN" THEN login \cup {r.uid}
              ELSE login \ {r.uid}
  /\ pass' = CASE Answer(r) = "REG" -> [pass EXCEPT ![r.uid] = r.passwd]
               [] granted /\ r.op = "UNR" -> [pass EXCEPT ![r.uid] = None]
               [] OTHER -> pass
=============================================================================
