----------------------------- MODULE MCFrontEnd -----------------------------
(* Families of programs for TypeOrdering, the whole front end.             *)
EXTENDS TypeOrdering

MCModules == {"main", "a", "b", "c"}
MCNames   == {"S", "T", "U", "A", "B", "C", "f"}

File(imports, decls) ==
    [state |-> "text", declares |-> "main", imports |-> imports, decls |-> decls, bad |-> FALSE]
Program(files) == [m \in MCModules |->
    IF m \in DOMAIN files THEN [files[m] EXCEPT !.declares = m]
    ELSE [File(<< >>, << >>) EXCEPT !.state = "absent", !.declares = m]]

-----------------------------------------------------------------------------
(* Loading: the import graphs of three modules, the last with one import,  *)
(* self imports and circles included, with at most one file that is not    *)
(* what it should be.                                                      *)
Trio == {"main", "a", "b"}
ImportLists == {<< >>} \cup {<<x>> : x \in Trio} \cup UNION {{<<x, y>> : y \in Trio \ {x}} : x \in Trio}

Sound == [m \in Trio |-> [state |-> "text", declares |-> m, bad |-> FALSE]]
Flawed == UNION {{[Sound EXCEPT ![m] = [state |-> "absent", declares |-> m, bad |-> FALSE]],
                  [Sound EXCEPT ![m] = [state |-> "bytes", declares |-> m, bad |-> FALSE]],
                  [Sound EXCEPT ![m].bad = TRUE]} \cup
                 {[Sound EXCEPT ![m].declares = x] : x \in Trio} : m \in Trio}

Loads == {[m \in MCModules |->
              IF m = "c" THEN [File(<< >>, << >>) EXCEPT !.state = "absent", !.declares = "c"]
              ELSE [state |-> flaws[m].state, declares |-> flaws[m].declares,
                    bad |-> flaws[m].bad, imports |-> graph[m], decls |-> << >>]] :
          graph \in {g \in [Trio -> ImportLists] : Len(g["b"]) < 2}, flaws \in Flawed}

-----------------------------------------------------------------------------
(* Names: any imports in any order, repeated or not, of modules that       *)
(* declare the same name, once, twice or not at all.                       *)
TypeDecl(n, refs)   == [kind |-> "type", name |-> n, refs |-> refs]
AliasDecl(n, ref)   == [kind |-> "alias", name |-> n, refs |-> <<ref>>]
ValueDecl(n)        == [kind |-> "value", name |-> n, refs |-> << >>]
Mention(p, n, q, o) == [path |-> p, name |-> n, ptr |-> q, null |-> o]
Plain(n)            == Mention("", n, FALSE, FALSE)

Libs  == {"a", "b", "c"}
Lists == {<< >>} \cup {<<x>> : x \in Libs} \cup {<<x, y>> : x, y \in Libs}
         \cup {<<x, y, z>> : x, y, z \in Libs}
Once  == {<< >>, <<TypeDecl("S", << >>)>>}
Often == Once \cup {<<TypeDecl("S", << >>), ValueDecl("f"), ValueDecl("S")>>}

Naming == {Program([m \in MCModules |->
                CASE m = "main" -> File(imports, own)
                  [] m = "a"    -> File(<<"c">>, dup)
                  [] OTHER      -> File(<< >>, other[m])]) :
           imports \in Lists, own \in Often, dup \in Often, other \in [{"b", "c"} -> Once]}

-----------------------------------------------------------------------------
(* Sizes: every way three types of two modules may hold each other, with a *)
(* pointer or not.                                                         *)
Fields(holder) ==
    LET ref(n) == Mention("", n, holder[n] = "pointer", holder[n] = "value") IN
    (IF holder["S"] = "no" THEN << >> ELSE <<ref("S")>>)
    \o (IF holder["T"] = "no" THEN << >> ELSE <<ref("T")>>)
Three(a, b, c) == Program([m \in {"main"} |-> File(<< >>,
    <<TypeDecl("S", a), TypeDecl("T", b), TypeDecl("U", c)>>)])

Two == [{"S", "T"} -> {"no", "value", "pointer"}]
Chains == {<< >>, <<Plain("S")>>, <<Plain("T")>>, <<Plain("U")>>,
           <<Plain("S"), Plain("T")>>, <<Plain("T"), Plain("U")>>}
Sizes == {Three(Fields(s), Fields(t), Fields(u)) : s, t \in Two, u \in [{"S", "T"} -> {"no", "value"}]}
         \cup {Three(a, b, c) : a, b, c \in Chains}

-----------------------------------------------------------------------------
(* Aliases of module a, to its own type, to each other and to what is no   *)
(* type, used by main, whose own declarations come first.                  *)
Targets == {Plain("S"), Plain("A"), Plain("B"), Plain("int"), Plain("T"), Plain("f"),
            Mention("", "void", FALSE, TRUE), Mention("", "void", FALSE, FALSE),
            Mention("", "S", TRUE, FALSE), Mention("a", "B", FALSE, TRUE)}
Uses == {Plain("A"), Plain("B"), Mention("", "A", TRUE, TRUE), Mention("a", "B", FALSE, TRUE),
         Mention("c", "A", FALSE, FALSE)}
Library(ta, tb) == File(<<"c">>, <<AliasDecl("A", ta), TypeDecl("S", <<tb>>),
                                   AliasDecl("B", tb), ValueDecl("f")>>)
Aliasing == {Program([m \in {"main", "a", "c"} |->
                CASE m = "main" -> File(<<"a">>, <<AliasDecl("C", use), TypeDecl("U", <<held, Plain("C")>>)>>)
                  [] m = "a"    -> Library(ta, tb)
                  [] OTHER      -> File(<< >>, <<TypeDecl("A", << >>)>>)]) :
             use \in Uses, held \in {Plain("A"), Mention("", "B", TRUE, TRUE)}, ta \in Targets, tb \in Targets}

MCPrograms == Loads \cup Naming \cup Sizes \cup Aliasing

-----------------------------------------------------------------------------
(* The shape left out above: main declares or lacks what the alias of      *)
(* another module names.                                                   *)
MCScopes == {Program([m \in {"main", "a", "b"} |->
                CASE m = "main" -> File(<<"a">>, own \o <<TypeDecl("U", <<Plain("A")>>)>>)
                  [] m = "a"    -> File(<<"b">>, <<AliasDecl("A", target), TypeDecl("T", <<target>>)>>)
                  [] OTHER      -> File(<< >>, <<TypeDecl("S", << >>)>>)]) :
             own \in {<< >>, <<TypeDecl("S", << >>)>>, <<TypeDecl("T", << >>)>>},
             target \in {Plain("S"), Plain("T")}}
=============================================================================
