------------------------------- MODULE MCCore -------------------------------
(* Small instances of Core for TLC. *)
EXTENDS Core, TLC

CONSTANTS c1, c2, v1, v2

\* The namespaces "a", "ab" and "a:b".  The first letters of a key make up the
\* difference to a longer namespace: "b:x" under "a" is the very key of "x" under
\* "a:b", and would be that of ":x" under "ab" if it were not for the separator.  The
\* application of "a:b" stores nothing of its own.
Prefixed == {<<"a">>, <<"a", "b">>, <<"a", ":", "b">>}
PrefixedUses == {<< <<"a">>, <<"b", ":", "x">> >>, << <<"a", "b">>, <<":", "x">> >>,
                 << <<"a", ":", "b">>, <<"x">> >>}
OwnValues == <<"a">> :> {v1} @@ <<"a", "b">> :> {v2} @@ <<"a", ":", "b">> :> {}
PrefixedKeys == {NsKey(u[1], u[2]) : u \in PrefixedUses}

\* The two calls are interchangeable.
CallSymmetry == Permutations({c1, c2})
=============================================================================
