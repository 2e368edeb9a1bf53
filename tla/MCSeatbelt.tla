------------------------------ MODULE MCSeatbelt ------------------------------
(* Instances of Seatbelt for TLC: two small disks.  Of the names, "git" is   *)
(* kept.  "h" is the user's home, "t" is /tmp.                               *)
EXTENDS Seatbelt

CONSTANTS t, h, work, repo, config, sub, other, file, new, mine

KindOf(o) == IF o \in {config, file} THEN "file" ELSE "dir"

PlaceOf(o) ==
    CASE o = t -> <<"t">> [] o = h -> <<"h">>
      [] o = work -> <<"h", "w">> [] o = repo -> <<"h", "w", "git">>
      [] o = config -> <<"h", "w", "git", "x">> [] o = sub -> <<"h", "w", "x">>
      [] o = other -> <<"h", "x">> [] o = file -> <<"h", "x">>
      [] OTHER -> Absent

Git == {"git"}
TheTmp == <<"t">>
Tmp == {TheTmp}
Users == {mine}

AllObjects == {t, h, work, repo, config, sub, other, file, new, mine}
AllKinds == [o \in AllObjects |-> KindOf(o)]

(* Two work directories of a home, with a repository in one; a work          *)
(* directory and a file in a home.                                           *)
SmallDisks ==
    {[o \in AllObjects |-> IF o \in there THEN PlaceOf(o) ELSE Absent] :
        there \in {{t, h, work, repo, config, sub, other}, {t, h, work, file}}}

AllPaths ==
    {<<"h">>, <<"t">>, <<"t", "x">>, <<"t", "x", "git">>, <<"t", "x", "x">>}
    \cup {<<"h", b>> : b \in {"w", "x", "git"}}
    \cup {<<"h", b, c>> : b \in {"w", "x", "git"}, c \in {"git", "x"}}
    \cup {<<"h", b, c, "x">> : b \in {"w", "x"}, c \in {"git", "x"}}
    \cup {<<"h", b, "x", "git">> : b \in {"w", "x"}}

In(cwd, workspaces, extra) ==
    [cwd |-> cwd, workspaces |-> workspaces, extra |-> extra, temp |-> FALSE, tmpdir |-> Absent]
Temporary(q, tmpdir) == [q EXCEPT !.temp = TRUE, !.tmpdir = tmpdir]

(* Workspaces around the directory of the command and beside it, extra roots *)
(* that may be a directory, a file, or not there yet; the temporary ones a   *)
(* launch has by default; and roots in others and in a scratch directory.    *)
Launches ==
    { In(<<"h", "w">>, {<<"h", "w">>, <<"h", "x">>}, {}),
      In(<<"h", "w", "x">>, {<<"h", "w">>, <<"h", "w", "x">>}, {<<"h", "x">>}),
      In(<<"h", "w">>, {<<"h", "w">>}, {<<"h", "git">>, <<"t", "x">>}),
      In(<<"h", "w">>, {}, {<<"h", "x">>}),
      Temporary(In(<<"h", "w">>, {<<"h", "w">>}, {}), <<"h", "x">>),
      In(<<"h", "w">>, {<<"h", "w">>}, {<<"h", "w", "x", "x">>}) }
=============================================================================
