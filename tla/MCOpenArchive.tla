--------------------------- MODULE MCOpenArchive ----------------------------
(***************************************************************************)
(* Instances of qcap open for TLC: files a and b, and a second name for a, *)
(* such as "./a".                                                          *)
(***************************************************************************)
EXTENDS OpenArchive, TLC

CONSTANTS i1, i2, alice, bob, t1, t2, t3, t4, x, y, a, b, nameA, dotA, nameB, dotdot

MCTarget == nameA :> a @@ dotA :> a @@ nameB :> b @@ dotdot :> Unsafe

Old == a :> x @@ b :> y
New == a :> y @@ b :> NoFile

Item(name, bytes) == [name |-> name, bytes |-> bytes]
OldItems == <<Item(nameA, x), Item(nameB, y)>>
NewItems == <<Item(nameA, y)>>

Plain(root, entries, signer) ==
    [manifest |-> [merkle_root |-> root, encrypted |-> FALSE,
                   files |-> << >>, recipients |-> {}],
     signer |-> signer, genuine |-> TRUE, root |-> root, entries |-> entries]

Sealed(root, entries, listed) ==
    [manifest |-> [merkle_root |-> root, encrypted |-> TRUE,
                   files |-> listed, recipients |-> {alice}],
     signer |-> i1, genuine |-> TRUE, root |-> root, entries |-> entries]

\* Of two payloads, plain and sealed; of another issuer; with a file changed
\* after it was signed, with its manifest changed, and with an unsafe name.
PlainArchives ==
    {Plain(Old, OldItems, i1), Plain(New, NewItems, i1),
     Sealed(Old, OldItems, OldItems), Sealed(New, NewItems, NewItems),
     Plain(Old, OldItems, i2),
     Plain(Old, <<Item(nameA, y), Item(nameB, y)>>, i1),
     [Plain(Old, OldItems, i1) EXCEPT !.genuine = FALSE],
     Plain(New, NewItems \o <<Item(dotdot, x)>>, i1)}

\* With two entries for one path; sealed with a file listed under another name
\* than it is archived under, or with a name listed twice of which one
\* ciphertext was lost.
AliasedArchives ==
    {Plain(Old, <<Item(nameA, y), Item(dotA, x), Item(nameB, y)>>, i1),
     Sealed(Old, OldItems, <<Item(dotA, x), Item(nameB, y)>>),
     Sealed(Old, OldItems, <<Item(nameA, y), Item(nameA, x), Item(nameB, y)>>)}

MCArchives == PlainArchives \cup AliasedArchives

\* The patterns "?" for the first payload, "b" of it until time 0, everything of
\* the second; t4 is t1 with its signature spelled in capitals.
MCTerms ==
    LET all == [root |-> Old, operation |-> "read", allowed |-> {nameA, nameB},
                audience |-> alice, expires |-> 1]
    IN  t1 :> all @@ t4 :> all
        @@ t2 :> [all EXCEPT !.allowed = {nameB}, !.expires = 0]
        @@ t3 :> [root |-> New, operation |-> "other", allowed |-> Names,
                  audience |-> bob, expires |-> 1]

MCRevocable == {[public_key |-> i1, token |-> t, genuine |-> TRUE] : t \in {t1, t4}}
=============================================================================
