----------------------------- MODULE MCSession -----------------------------
(* The words, the directories and the keyboards that the run of Session uses. *)
EXTENDS Session, TLC

MCWords == {"alias", "unalias", "cd", "pushd", "popd", "exit", "-", "!!", "!$",
            "!2", "a", "b", "x", "y", "z", "x=", "home", "d", "e"}

MCNames    == {"a", "b", "x", "y", "z"}
MCAssign   == "x=" :> [name |-> "x", value |-> <<>>]
MCNumberOf == "!2" :> 2
MCDirs     == {"home", "d", "e"}

Blank(words) == [blank |-> TRUE, words |-> words]

\* Recalls, over sessions that crash.
HistoryKeys ==
    [lines |-> {Typed(<<"a">>), Typed(<<"a", "b">>), Blank(<<>>), Typed(<<"!!">>),
                Typed(<<"!$">>), Typed(<<"!2">>), Blank(<<"exit">>)},
     browses |-> FALSE, entries |-> 2, lives |-> 3, removable |-> {}]

\* More names than slots, set, changed, used and taken back.
AliasKeys ==
    [lines |-> {Typed(<<"alias", "x=", "b">>), Typed(<<"alias", "y", "a">>),
                Typed(<<"alias", "y", "b">>), Typed(<<"alias", "y", "x", "b">>),
                Typed(<<"alias", "z", "b">>), Typed(<<"unalias", "x">>),
                Typed(<<"y", "unalias">>)},
     browses |-> FALSE, entries |-> 5, lives |-> 1, removable |-> {}]

\* Two directories that come and go.
DirKeys ==
    [lines |-> {Typed(<<"cd", "d">>), Typed(<<"cd", "-">>), Typed(<<"cd">>),
                Typed(<<"pushd", "d">>), Typed(<<"pushd", "e">>), Typed(<<"popd">>)},
     browses |-> FALSE, entries |-> 4, lives |-> 1, removable |-> {"d"}]

\* The keys of the editor for the lines before.
BrowseKeys ==
    [lines |-> {Typed(<<"a">>), Typed(<<"!2">>)},
     browses |-> TRUE, entries |-> 2, lives |-> 2, removable |-> {}]

MCKeyboards == {HistoryKeys, BrowseKeys, AliasKeys, DirKeys}
=============================================================================
