------------------------------- MODULE MCFetch -------------------------------
(* A package with a spread of versions and one with a pre-release; every       *)
(* comparator form; tarballs of up to four entries.  In the cache, two names   *)
(* with one slug, two versions with one slug, and a name and a version that    *)
(* meet another name and version across the dash; plain ones beside them.      *)
EXTENDS Fetch, TLC

Lib == 1
Dir == 2        \* "package"
Json == 3       \* "package.json"
Main == 4

V(a, b, c) == [num |-> <<a, b, c>>, pre |-> "none"]
Probe == <<"p">>
Rc == <<"r">>
Scoped1 == <<"@", "a", "/", "b", "-", "c">>
Scoped2 == <<"@", "a", "-", "b", "/", "c">>
Short == <<"a">>
Long == <<"a", "-", "1", ".", "0", ".", "0">>
Built == <<"b">>

Versions == (Probe :> {V(0, 0, 3), V(0, 0, 4), V(0, 1, 0), V(0, 1, 2), V(0, 2, 0), V(1, 0, 0),
                       V(1, 2, 3), V(1, 3, 0), V(2, 0, 0)}
             @@ Rc :> {V(1, 0, 0), [V(1, 0, 0) EXCEPT !.pre = "rc"]}
             @@ Scoped1 :> {V(1, 0, 0), V(1, 1, 0)} @@ Scoped2 :> {V(1, 0, 0)}
             @@ Short :> {[V(1, 0, 0) EXCEPT !.pre = "two"], V(1, 1, 0)}
             @@ Long :> {V(2, 0, 0)}
             @@ Built :> {[V(1, 0, 0) EXCEPT !.pre = "build"], [V(1, 0, 0) EXCEPT !.pre = "rc"]})
Tags == [n \in DOMAIN Versions |->
           IF n = Probe THEN [latest |-> V(1, 3, 0), next |-> V(2, 0, 0), old |-> V(0, 9, 0)]
           ELSE [latest |-> V(1, 0, 0)]]

Digit(k) == <<"0", "1", "2", "3", "4">>[k + 1]
Dotted(num) == <<Digit(num[1]), ".", Digit(num[2]), ".", Digit(num[3])>>
Suffix == [none |-> <<>>, rc |-> <<"-", "r">>, build |-> <<"+", "r">>,
           two |-> <<"-">> \o Dotted(<<2, 0, 0>>)]
Texts == [v \in UNION {Versions[n] : n \in DOMAIN Versions} |-> Dotted(v.num) \o Suffix[v.pre]]
Flat == {"_", "-", "a", "b", "c", "p", "r", "0", "1", "2", "3", "4"}
Signs == Flat \cup {".", "@", "/", "+"}

C(op, num, parts) == [op |-> op, num |-> num, parts |-> parts, parsed |-> TRUE]
Junk == [op |-> "=", num |-> <<0, 0, 0>>, parts |-> 0, parsed |-> FALSE]
Blank(op) == [op |-> op, num |-> <<0, 0, 0>>, parts |-> 0, parsed |-> FALSE]
Comparators ==
    {C(op, num, 3) : op \in {"^", "~", "=", ">=", "<=", ">", "<"},
                     num \in {<<0, 0, 3>>, <<0, 1, 0>>, <<1, 0, 0>>, <<1, 2, 3>>, <<3, 0, 0>>}}
    \cup {C(op, num, 2) : op \in {"^", "~", "=", "<=", ">"}, num \in {<<0, 1, 0>>, <<1, 2, 0>>}}
    \cup {C(op, <<1, 0, 0>>, 1) : op \in {"^", "~", "=", ">=", "<=", ">", "<"}}
Alternatives ==
    {{c} : c \in Comparators \cup {Junk}}
    \cup {{C(">=", <<1, 0, 0>>, 3), C("<", <<2, 0, 0>>, 3)}}
    \cup {{Blank(">="), C("=", <<1, 2, 3>>, 3)}}
Ranges == {[word |-> "none", any |-> {a}] : a \in Alternatives}
          \cup {[word |-> "none", any |-> {{C("^", <<0, 1, 0>>, 3)}, {C("~", <<1, 2, 0>>, 2)}}]}
          \cup {[word |-> w, any |-> {{Junk}}] : w \in {"", "latest", "next", "old", "gone"}}

Registry(name, range) == [from |-> "registry", name |-> name, range |-> range]
Whatever == [word |-> "", any |-> {{}}]
Exactly(num) == [word |-> "none", any |-> {{C("=", num, 3)}}]

File(p, n, json) == [kind |-> "file", path |-> p, up |-> FALSE, size |-> n, json |-> json]
Manifest == File(<<Dir, Json>>, 1, "plain")
Pool == {Manifest,
         File(<<Dir, Json>>, 1, "broken"),
         File(<<Dir, Lib, Main>>, 2, "none"),
         File(<<Dir, Main>>, 1, "none"),
         File(<<Dir, Lib>>, 2, "none"),
         File(<<Lib, Json>>, 1, "odd values"),
         [File(<<Lib, Main>>, 1, "none") EXCEPT !.up = TRUE],
         [File(<<Dir, Lib, Dir>>, 0, "none") EXCEPT !.kind = "dir"]}
Folder == {<<>>, <<File(<<Lib, Main>>, 9, "none"), File(<<Json>>, 1, "odd values")>>,
           <<File(<<Json>>, 1, "broken")>>,
           <<[File(<<Lib>>, 0, "none") EXCEPT !.kind = "dir"],
             [File(<<Json>>, 1, "plain") EXCEPT !.kind = "link"]>>}

World(asks, entries, caching, oversized) ==
    [asks |-> asks, entries |-> entries, caching |-> caching, oversized |-> oversized]
AllWorlds ==
    {World({Registry(n, r)}, <<Manifest>>, FALSE, FALSE) : n \in {Probe, Rc}, r \in Ranges}
    \cup {World({[from |-> "dir"]}, t, FALSE, FALSE) : t \in Folder}
    \cup {World({Registry(n, Whatever) : n \in {Scoped1, Scoped2}}
                \cup {Registry(Scoped1, [word |-> "none", any |-> {{C("^", <<1, 0, 0>>, 3)}}])},
                <<Manifest>>, TRUE, big) : big \in BOOLEAN}
    \cup {World(asks, <<Manifest>>, TRUE, FALSE) :
             asks \in {{Registry(Built, Whatever)},
                      {Registry(Long, Whatever), Registry(Short, Exactly(<<1, 0, 0>>)),
                       Registry(Short, Exactly(<<1, 1, 0>>))}}}
=============================================================================
