----------------------------- MODULE MCPayload -----------------------------
(***************************************************************************)
(* Instances of payloads for TLC: every directory of up to three of the    *)
(* names below, which sort, separate and collide in all the ways the code  *)
(* distinguishes, and directories of up to nine plain files.               *)
(***************************************************************************)
EXTENDS Payload, TLC

a == 97
b == 98
Dash == 45
Stop == 46

Odd ==
    { <<<<a>>>>, <<<<a>>, <<b>>>>,                   \* a        a/b
      <<<<a, Dash, b>>>>, <<<<a, Stop, b>>>>,        \* a-b      a.b
      <<<<a, Star>>>>, <<<<a, 195, 164>>>>,          \* a*       "a" and U+00E4
      <<<<a, Backslash, b>>>>, <<<<Backslash, a>>>>, \* a\b      \a
      <<<<a, Backslash>>>>,                          \* a\
      <<<<Stop, Stop, Backslash, a>>>>,              \* ..\a
      <<<<a>>, <<Stop, Backslash, b>>>>,             \* a/.\b
      <<<<a>>, <<b, b>>>>,                           \* a/bb
      <<<<a, Colon, b>>>>, <<<<a, Invalid>>>> }      \* a:b      not UTF-8

Plain(n) == {<<<<a + k>>>> : k \in 1 .. n}

Consistent(files) == \A p, q \in files : ~ IsStrictPrefix(p, q)
MCDirectories ==
    {files \in {{p, q, r} : p, q, r \in Odd} : Consistent(files)}
        \cup {Plain(n) : n \in 0 .. 9}

\* *, a*, *b, a, a-*, *a*, a/b*
MCPatterns ==
    { <<Star>>, <<a, Star>>, <<Star, b>>, <<a>>, <<a, Dash, Star>>, <<Star, a, Star>>,
      <<a, Slash, b, Star>> }

\* Digests longer than half of any leaf string of the names above; the string
\* that was hashed is one of their "bytes", after a byte that begins no name.
MCContent(p) == Joined(p)
MCBlake3Byte(string, n) == IF n = 1 THEN 1 ELSE IF n = 3 THEN string ELSE 0
=============================================================================
