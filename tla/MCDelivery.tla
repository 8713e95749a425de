----------------------------- MODULE MCDelivery -----------------------------
(* Small instances of Delivery for TLC. *)
EXTENDS Delivery, TLC

CONSTANTS s1, s2, t1, w1, t2, alice, bob

TwoServers == {s1, s2}
ThreeConns == {t1, w1, t2}
TcpConns == {t1, t2}
HomeOf == (t1 :> s1) @@ (w1 :> s1) @@ (t2 :> s2)
TwoNames == {alice, bob}
NameOf == (t1 :> alice) @@ (w1 :> bob) @@ (t2 :> bob)

Line(c, via, mode, to) == [from |-> c, via |-> via, mode |-> mode, to |-> to]

\* What one sender says in public, in a group and by a private request takes different ways
\* to its neighbour w1; and an announcement comes from the other server. The last two are
\* in no order with what they overlap, so they need not come first.
Said == {Line(t1, "reader", "public", TwoNames), Line(t1, "reader", "group", TwoNames)}
SomeLines ==
    <<Said, Said \cup {Line(t1, "post", "private", {bob}),
                       Line(t2, "server", "system", TwoNames)}>>

\* A group with a member on the other server, and a private message to it.
CrossLines == <<{Line(t1, "reader", "group", TwoNames), Line(t1, "post", "private", {bob})}>>

=============================================================================
