-------------------------- MODULE MCTransterpreter --------------------------
(* A firmware process f that talks to the user program over k and s and may  *)
(* kill it, and two user processes joined by d.                              *)
EXTENDS Transterpreter

CONSTANTS f, u1, u2, k, s, d

TheCtx    == f :> "firmware" @@ u1 :> "user" @@ u2 :> "user"
TheOps    == [posix |-> f :> {"alt"} @@ u1 :> {"alt", "tin", "stop"} @@
                        u2 :> {"out", "tin", "stop"},
              srv1  |-> f :> {"out", "alt", "xin", "kill"} @@
                        u1 :> {"alt", "in", "xin"} @@ u2 :> {"out", "stop"}]
TheWriter == k :> f @@ s :> u2 @@ d :> u2
TheReader == k :> u1 @@ s :> f @@ d :> u1
TheAlts   == [posix |-> f :> {<<s, TIMER>>} @@ u1 :> {<<TIMER, d>>} @@ u2 :> {},
              srv1  |-> f :> {<<s, TIMER>>} @@ u2 :> {} @@
                        u1 :> {<<TIMER, k, TIMER>>, <<k, d>>, <<d, SKIP>>}]

=============================================================================
