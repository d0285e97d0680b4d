----------------------- MODULE MCPublicationOutbox -----------------------
(* Small instances of PublicationOutbox for TLC. *)
EXTENDS PublicationOutbox, TLC

CONSTANTS m1, r1, r2, r3, w1, p1, p2, e1, e2, o1

\* Three requests for one message: two with the same payload, one without.
OneMsgOf == (r1 :> m1 @@ r2 :> m1 @@ r3 :> m1)
OneFpOf == (r1 :> "x" @@ r2 :> "x" @@ r3 :> "y")
OneWsOf == (m1 :> w1)

TwoProcesses == (e1 :> p1 @@ e2 :> p2)

\* Requests with the same payload are interchangeable, and so are the two
\* processes together with their executors (ProcOf is invariant).
Interchange ==
  {r1 :> r2 @@ r2 :> r1, (p1 :> p2 @@ p2 :> p1) @@ (e1 :> e2 @@ e2 :> e1)}

\* One request, retried by its caller after every failure.
SoleMsgOf == (r1 :> m1)
SoleFpOf == (r1 :> "x")
=============================================================================
