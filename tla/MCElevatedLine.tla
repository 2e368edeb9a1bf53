----------------------------- MODULE MCElevatedLine -----------------------------
(***************************************************************************)
(* Instances for TLC: invocations with sandbox states of a few entries,    *)
(* invocations while an editor and setup write the configuration, and      *)
(* refreshes while the user edits the ssh configuration.                   *)
(*                                                                         *)
(* The profile holds a repository, a directory of keys and .ssh, and       *)
(* CODEX_HOME in another directory; a second drive holds data.             *)
(***************************************************************************)
EXTENDS ElevatedLine

CONSTANTS main, work, host

Me == <<"users", "me">>
In(c) == Append(Me, c)
Names == {"ssh", "repo", "keys", "codex"}

Repo == In("repo")
RepoSrc == In("repo") \o <<"src">>
Keys == In("keys")
Data == <<"data">>
TempDir == <<"temp">>
Drive == {Data}
DataSrc == Append(Data, "src")

Disk == {In(c) : c \in Names} \cup {Me, <<"windows">>, Data, DataSrc, TempDir, RepoSrc}
        \cup {In("codex") \o <<"bin">>, In("codex") \o <<"sandbox">>, In("codex") \o <<"sandbox", "x">>}
        \cup {Repo \o <<"config">>, Keys \o <<"id">>}
        \cup {In("ssh") \o <<"config">>, In("ssh") \o <<"work">>}

WindowsDir == {<<"windows">>}
HelperDir == In("codex") \o <<"bin">>
Control == {In("codex") \o <<"bin">>, In("codex") \o <<"sandbox">>}
CodexDir == In("codex")
Ssh == {"ssh"}

-----------------------------------------------------------------------------
(* Sandbox states. *)

Entry(k, p, a) == [kind |-> k, path |-> p, access |-> a]

Entries ==
    { Entry("root", None, "read"), Entry("root", None, "write"),
      Entry("path", Keys, "read"), Entry("path", Keys, "write"), Entry("path", Keys, "deny"),
      Entry("path", Keys, "none"), Entry("path", Data, "write"), Entry("path", Data, "odd"),
      Entry("path", Me, "read"),
      Entry("cwd", None, "read"), Entry("cwd", None, "write"), Entry("cwd", None, "deny"),
      Entry("sub", None, "read"), Entry("sub", None, "write"), Entry("sub", None, "none"),
      Entry("tmp", None, "write"), Entry("tmp", None, "read"), Entry("minimal", None, "read"),
      Entry("unknown", None, "deny"), Entry("exotic", None, "read"),
      Entry("glob", None, "deny"), Entry("broken", None, "read") }

Request(kind, profile, type, entries, network, disable, dirs, over) ==
    [kind |-> kind, profile |-> profile, type |-> type, system |-> "restricted",
     entries |-> entries, network |-> network, disable |-> disable, readable |-> {},
     addDirs |-> dirs, overrides |-> over, layered |-> FALSE, managed |-> FALSE]

EntryLists == UNION {[1..n -> Entries] : n \in 0..2}

(* Two entries, with a read of the whole disk before them or not. *)
States ==
    { Request("state", None, "managed", es, "enabled", FALSE, d, o) :
        es \in EntryLists \cup {<<Entry("root", None, "read")>> \o l : l \in EntryLists},
        d \in {{}, {Data}},
        o \in {<<>>, <<"elevated">>} }

OddStates ==
    { Request("state", None, "managed", <<Entry("root", None, "read")>>, n, TRUE, {Data}, <<>>) :
        n \in {"enabled", "restricted", "other", None} }
    \cup { Request("state", None, t, <<>>, n, FALSE, {Data}, <<>>) :
        t \in {"external", "disabled", "managed", "other"}, n \in {"enabled", "restricted", "other", None} }
    \cup { [Request("state", None, "managed", <<>>, "enabled", FALSE, {}, <<>>)
              EXCEPT !.system = "unrestricted"],
            [Request("state", None, "managed", <<Entry("path", Keys, "deny")>>, "enabled", FALSE, {}, <<"elevated">>)
              EXCEPT !.readable = {Me, Data}] }

Profiles(dirs) ==
    { [Request("profile", pr, None, <<>>, None, FALSE, d, o) EXCEPT !.layered = l, !.managed = m] :
        pr \in {None, ":read-only", ":workspace", ":danger-full-access", "other"},
        d \in dirs,
        o \in {<<>>, <<"elevated">>, <<"elevated", "unelevated">>, <<"other">>, <<"foreign">>},
        l \in BOOLEAN, m \in BOOLEAN }

(* For the files: a plain state that any backend runs, one only the elevated *)
(* backend runs, and profiles.                                               *)
FewRequests ==
    {r \in Profiles({{}}) : r.managed => r.overrides = <<>>}
    \cup { Request("state", None, "managed", es, "restricted", FALSE, {}, <<>>) :
        es \in { <<Entry("root", None, "read")>>,
                 <<Entry("root", None, "read"), Entry("path", Keys, "deny")>>,
                 <<Entry("path", Keys, "read")>> } }

File(w, v, rest) == [where |-> w, value |-> v, rest |-> rest]

TableFiles == {None, Bad, File("table", "unelevated", {"model"}), File("table", "elevated", {}),
               File("table", "odd", {}), File("nowhere", None, {"model"}),
               File("inline", "unelevated", {"model"})}
WithTable == {File("table", "unelevated", {"model"}), File("table", "elevated", {}), Bad}

Use(requests, files, layers, inSetup, saves, runs) ==
    [requests |-> requests, files |-> files, layers |-> layers,
     editsInSetup |-> inSetup, edits |-> saves, setups |-> runs]

ByStates == Use(States \cup OddStates \cup Profiles({{}, {Keys, Data}}), {None}, {None}, FALSE, 0, 0)
ByFiles == Use(FewRequests, TableFiles, TableFiles, TRUE, 1, 1)
BySetup == Use(FewRequests, WithTable, {None}, FALSE, 1, 2)
FirstSetup == Use({}, {None}, {None}, FALSE, 0, 1)
Unused == Use({}, {None}, {None}, FALSE, 0, 0)

-----------------------------------------------------------------------------
(* Refreshes and ssh configurations. *)

ConfigFiles == {main, work, host}
Places == [f \in ConfigFiles |->
             CASE f = main -> In("ssh") \o <<"config">>
               [] f = work -> In("ssh") \o <<"work">>
               [] f = host -> Repo \o <<"config">>]
Lists == {<<>>, <<host>>, <<work, host>>, <<host, work>>, <<main, work>>}
Named == {{}, {Keys \o <<"id">>}, {Me}, {Data, In("gone")}}

Ask(fullRead, override, platform, cwd, readable, writable, denied) ==
    [fullRead |-> fullRead, override |-> override, platform |-> platform, cwd |-> cwd,
     readable |-> readable, writable |-> writable, denied |-> denied, listed |-> TRUE]

Sessions ==
    { Ask(TRUE, FALSE, TRUE, Repo, {}, {Repo}, {}),
      Ask(TRUE, FALSE, TRUE, Keys, {Data}, {}, {Repo}),
      Ask(TRUE, FALSE, TRUE, DataSrc, {Data, Keys}, {}, {}),
      [Ask(TRUE, FALSE, TRUE, Repo, {Me, Data}, {Me}, {Keys}) EXCEPT !.listed = FALSE],
      Ask(FALSE, FALSE, TRUE, Repo, {Me, In("gone")}, {RepoSrc}, {}),
      Ask(FALSE, TRUE, FALSE, Repo, {Repo, In("ssh") \o <<"work">>, Keys \o <<"id">>}, {Me}, {}),
      Ask(FALSE, TRUE, TRUE, Repo, {Me, RepoSrc, Data},
          {Keys, In("codex") \o <<"sandbox", "x">>}, {Repo, In("gone")}),
      Ask(FALSE, FALSE, FALSE, Data, {Me}, {Me, In("codex") \o <<"sandbox", "x">>, Data}, {}) }

Edited == [lists |-> Lists, named |-> Named, refreshes |-> Sessions]
PlainSsh == [lists |-> {<<>>}, named |-> {}, refreshes |-> {}]

-----------------------------------------------------------------------------
AllUsages == [states |-> ByStates, files |-> ByFiles, setup |-> BySetup,
              first |-> FirstSetup, unused |-> Unused]
AllHabits == [edited |-> Edited, plain |-> PlainSsh]
Each == ({"states", "files", "setup"} \X {"plain"}) \cup {<<"unused", "edited">>}
First == {<<"first", "plain">>}
=============================================================================
