----------------------------- MODULE FlatMemory -----------------------------
(***************************************************************************)
(* What a loaded program is promised: one flat memory, with the bytes and  *)
(* the permissions its object file asks for, that nothing but its own      *)
(* stores changes.  No page table, no frame and no loader is in sight.     *)
(* An access may be refused without a reason given here (see the README on *)
(* what a store does to the permissions of its neighbours), but a refused  *)
(* access changes nothing and a granted one is exactly what was promised.  *)
(***************************************************************************)
CONSTANTS
  Addr, Accesses, None, Stored,
  FirstByte(_, _),  \* FirstByte(program, a): the byte first found at a
  Allowed(_, _),    \* Allowed(program, a): the accesses allowed at a
  Fits(_)           \* Fits(program): the program can be loaded

VARIABLES
  program,  \* the object file
  state,    \* "loading", "running" or, for a program that does not fit, "refused"
  bytes,    \* the memory as the program can see it, None while it is loading
  out       \* the last access and its outcome

vars == <<program, state, bytes, out>>

Init ==
  /\ state = "loading"
  /\ bytes = [a \in Addr |-> None]
  /\ out.res = "none"

\* The program starts with every byte as promised.
Start ==
  /\ state = "loading"
  /\ state' = "running"
  /\ bytes' = [a \in Addr |-> FirstByte(program, a)]
  /\ UNCHANGED <<program, out>>

\* Only a program that does not fit is given up.
GiveUp ==
  /\ state = "loading"
  /\ ~Fits(program)
  /\ state' = "refused"
  /\ UNCHANGED <<program, bytes, out>>

\* A granted access returns the byte, or stores one, where it was allowed to.
Grant(a, acc) ==
  /\ state = "running"
  /\ out'.acc = acc /\ out'.addr = a
  /\ acc \in Allowed(program, a)
  /\ bytes' = IF acc = "Write" THEN [bytes EXCEPT ![a] = Stored] ELSE bytes
  /\ out' = [acc |-> acc, addr |-> a, res |-> "ok", val |-> bytes'[a]]
  /\ UNCHANGED <<program, state>>

\* A refused one leaves the memory as it was.
Refuse(a, acc) ==
  /\ state = "running"
  /\ out'.acc = acc /\ out'.addr = a /\ out'.res # "ok"
  /\ UNCHANGED <<program, state, bytes>>

Load == Start \/ GiveUp

Next == Load \/ \E a \in Addr, acc \in Accesses : Grant(a, acc) \/ Refuse(a, acc)

Spec == Init /\ [][Next]_vars /\ WF_vars(Load)
=============================================================================
