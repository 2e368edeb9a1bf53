------------------------------ MODULE CommandLine ------------------------------
(***************************************************************************)
(* The command line of yj-sandbox-run: how an invocation becomes the       *)
(* permissions and the backend a command runs under, and how setup writes  *)
(* the configuration file that other invocations read.                     *)
(*                                                                         *)
(* An invocation gives a built-in profile or a sandbox state, whose        *)
(* file-system entries are taken one after the other.  It reads the base   *)
(* file and a profile's file to choose a backend, and refuses what the     *)
(* backend cannot enforce.  Setup and a user's editor are other processes. *)
(***************************************************************************)
EXTENDS Integers, Sequences, FiniteSets, SequencesExt

CONSTANTS
    None,           \* no such file, no value given
    Bad,            \* a file that does not parse
    Cwd,            \* the command's directory
    Sub,            \* a directory below it, named by a subpath
    Usages          \* how the program is used, by name:
                    \*   requests     the invocations made
                    \*   files        contents config.toml may have
                    \*   layers       contents the profile's file may have
                    \*   editsInSetup TRUE: an editor may save while setup
                    \*                holds the text
                    \*   edits        bound on saves of the editor
                    \*   setups       bound on setup commands

ASSUME LineAssumption ==
    \A u \in DOMAIN Usages :
        /\ Usages[u].editsInSetup \in BOOLEAN
        /\ Usages[u].edits \in Nat /\ Usages[u].setups \in Nat

Levels == {"gemini", "unelevated", "elevated"}

(* What a configuration file may hold: see below.                            *)
FileTexts == (UNION {Usages[u].files \cup Usages[u].layers : u \in DOMAIN Usages}) \ {None, Bad}
Texts == [where : {"nowhere", "table", "inline"},
          value : {None, "elevated"} \cup {f.value : f \in FileTexts},
          rest  : {{}} \cup {f.rest : f \in FileTexts}]

ASSUME TextsAssumption ==
    /\ None \notin Levels \cup Texts /\ Bad \notin Texts
    /\ FileTexts \subseteq Texts

ASSUME InvocationsAssumption ==
    \A u \in DOMAIN Usages : \A r \in Usages[u].requests :
        /\ r.kind \in {"profile", "state"}
        /\ r.managed \in BOOLEAN /\ r.layered \in BOOLEAN /\ r.disable \in BOOLEAN
        /\ r.entries \in Seq(Range(r.entries))
        /\ r.overrides \in Seq(Range(r.overrides)) /\ None \notin Range(r.overrides)

VARIABLES
    usage,      \* the instance, chosen at the start
    base,       \* config.toml
    layer,      \* <profile>.config.toml
    edits,      \* saves so far
    setups,     \* setup commands so far
    step,       \* where the invocation is
    request,    \* what it was given
    at,         \* the next file-system entry
    perms,      \* the permissions gathered so far
    value,      \* the windows.sandbox value read so far
    backend,    \* the backend that runs the command
    setup,      \* where the setup command is
    text        \* the configuration setup has read and changed

run == <<step, request, at, perms, value, backend>>
setting == <<setup, text>>
lineVars == <<base, layer, edits, setups, run, setting>>

-----------------------------------------------------------------------------
(* Permissions. *)

Nothing == [reads |-> {}, full |-> FALSE, platform |-> FALSE, writes |-> {},
            temp |-> FALSE, denyRead |-> {}, denyWrite |-> {}, block |-> TRUE]

(* ResolvedSandboxPermissions::read_only *)
ReadOnly == [Nothing EXCEPT !.full = TRUE, !.platform = TRUE]

(* resolve_permissions: the two built-in profiles, the network always blocked. *)
FromProfile(r) ==
    IF r.profile = ":read-only"
      THEN ReadOnly
      ELSE [ReadOnly EXCEPT !.writes = {Cwd} \cup r.addDirs, !.temp = TRUE]

(***************************************************************************)
(* File-system entries: [kind, path, access].  The kinds "cwd" and "sub"   *)
(* are the project root and a subpath of it, "tmp" a temporary directory,  *)
(* "exotic" a special path of another kind, "broken" a malformed entry.    *)
(***************************************************************************)
Place(e) == CASE e.kind = "cwd" -> Cwd [] e.kind = "sub" -> Sub [] OTHER -> e.path

Located(e) == e.kind \in {"path", "cwd", "sub"}

Accepted(e) ==
    /\ e.access \in {"read", "write", "deny", "none"}
    /\ \/ Located(e) \/ e.kind = "unknown"
       \/ e.kind \in {"root", "minimal"} /\ e.access = "read"
       \/ e.kind = "tmp" /\ e.access = "write"

(* What one accepted entry adds: a denied place may be neither read nor written. *)
Apply(s, e) ==
    LET here(accesses) == {Place(x) : x \in {y \in {e} : Located(y) /\ y.access \in accesses}}
    IN [s EXCEPT !.reads = @ \cup here({"read"}),
                 !.writes = @ \cup here({"write"}),
                 !.denyRead = @ \cup here({"deny", "none"}),
                 !.denyWrite = @ \cup here({"deny", "none"}),
                 !.full = @ \/ e.kind = "root",
                 !.platform = @ \/ e.kind = "minimal",
                 !.temp = @ \/ e.kind = "tmp"]

(* After the entries: additional directories extend a state that may write  *)
(* something, and the option can only tighten the network.                  *)
WithAddDirs(s, r) ==
    [s EXCEPT !.writes = IF @ # {} \/ s.temp THEN @ \cup r.addDirs ELSE @,
              !.block = r.disable \/ r.network = "restricted"]

(* Full-disk reads make read roots pointless: read_only, workspace_write or   *)
(* restricted is built.                                                       *)
Built(s) ==
    IF s.full THEN [s EXCEPT !.reads = {}, !.platform = TRUE] ELSE s

-----------------------------------------------------------------------------
(***************************************************************************)
(* Configuration files: None, Bad (does not parse), or what they hold:   *)
(* where windows.sandbox stands (nowhere, in a [windows] table, in an      *)
(* inline table), its value ("odd" is no string) and everything else.      *)
(***************************************************************************)
Holds(file) == file \notin {None, Bad}

(* config_sandbox_value: as_table is None for an inline table. *)
SandboxValue(file) ==
    IF Holds(file) /\ file.where = "table" THEN file.value ELSE None

Unreadable(file) == file = Bad \/ SandboxValue(file) = "odd"

(* External: assigning document["windows"]["sandbox"] makes an inline table  *)
(* where there was none.                                                     *)
Assign(file) ==
    [file EXCEPT !.where = IF @ = "nowhere" THEN "inline" ELSE @, !.value = "elevated"]

Empty == [where |-> "nowhere", value |-> None, rest |-> {}]

-----------------------------------------------------------------------------
(* The invocation. *)

NoRequest == [kind |-> "none"]

LineInit ==
    /\ usage \in DOMAIN Usages
    /\ base \in Usages[usage].files /\ layer \in Usages[usage].layers
    /\ edits = 0 /\ setups = 0
    /\ step = "idle" /\ request = NoRequest /\ at = 1
    /\ perms = Nothing /\ value = None /\ backend = None
    /\ setup = "idle" /\ text = None

GoTo(s) == step' = s /\ UNCHANGED <<base, layer, edits, setups, setting, request, backend>>

Refuse == GoTo("refused") /\ UNCHANGED <<at, perms, value>>

(* run: the options have been parsed. *)
Start(r) ==
    /\ step = "idle"
    /\ step' = IF r.managed THEN "refused" ELSE r.kind
    /\ request' = r
    /\ UNCHANGED <<base, layer, edits, setups, setting, at, perms, value, backend>>

Profile ==
    /\ step = "profile"
    /\ IF request.profile \in {None, ":workspace", ":read-only"}
         THEN /\ perms' = FromProfile(request)
              /\ GoTo("base") /\ UNCHANGED <<at, value>>
         ELSE Refuse

(* An external profile runs read-only without a network; a managed one is   *)
(* taken entry by entry; the others are refused.                            *)
External ==
    /\ step = "state" /\ request.type = "external"
    /\ IF request.network \in {"enabled", "restricted"}
         THEN /\ perms' = ReadOnly
              /\ GoTo("base") /\ UNCHANGED <<at, value>>
         ELSE Refuse

Managed ==
    /\ step = "state" /\ request.type = "managed" /\ request.system = "restricted"
    /\ perms' = [Nothing EXCEPT !.reads = request.readable]
    /\ GoTo("entries") /\ UNCHANGED <<at, value>>

RefuseState ==
    /\ step = "state" /\ request.type # "external"
    /\ request.type # "managed" \/ request.system # "restricted"
    /\ Refuse

TakeEntry ==
    /\ step = "entries" /\ at <= Len(request.entries)
    /\ LET e == request.entries[at]
       IN IF Accepted(e)
            THEN /\ perms' = Apply(perms, e)
                 /\ at' = at + 1
                 /\ GoTo("entries") /\ UNCHANGED value
            ELSE Refuse

EndEntries ==
    /\ step = "entries" /\ at > Len(request.entries)
    /\ IF request.network \in {"enabled", "restricted"}
         THEN /\ perms' = Built(WithAddDirs(perms, request))
              /\ GoTo("base") /\ UNCHANGED <<at, value>>
         ELSE Refuse

(* resolve_windows_sandbox_level: the base file, then the profile's file,    *)
(* then the options, of which the last wins.                                 *)
ReadBase ==
    /\ step = "base"
    /\ IF Unreadable(base)
         THEN Refuse
         ELSE /\ value' = SandboxValue(base)
              /\ GoTo(IF request.layered THEN "layer" ELSE "options")
              /\ UNCHANGED <<at, perms>>

\* A profile's file that says nothing hides what the base file says.
ReadLayerAlone ==
    /\ step = "layer"
    /\ IF Unreadable(layer)
         THEN Refuse
         ELSE /\ value' = SandboxValue(layer)
              /\ GoTo("options") /\ UNCHANGED <<at, perms>>

ReadLayer ==
    /\ step = "layer"
    /\ IF Unreadable(layer)
         THEN Refuse
         ELSE /\ value' = IF SandboxValue(layer) = None THEN value ELSE SandboxValue(layer)
              /\ GoTo("options") /\ UNCHANGED <<at, perms>>

Options ==
    /\ step = "options"
    /\ IF "foreign" \in Range(request.overrides)
         THEN Refuse
         ELSE /\ value' = IF request.overrides = <<>> THEN value ELSE Last(request.overrides)
              /\ GoTo("dispatch") /\ UNCHANGED <<at, perms>>

Level == IF value = None THEN "gemini" ELSE value

\* The denied paths are not part of the check.
DispatchAnyDeny ==
    /\ step = "dispatch"
    /\ IF Level \in Levels /\ (Level = "elevated" \/ perms.full)
         THEN /\ backend' = Level /\ step' = "launched"
              /\ UNCHANGED <<base, layer, edits, setups, setting, request, at, perms, value>>
         ELSE Refuse

(* run: only the elevated backend can restrict reads and enforce denials. *)
Dispatch ==
    /\ step = "dispatch"
    /\ IF /\ Level \in Levels
          /\ \/ Level = "elevated"
             \/ perms.full /\ perms.denyRead = {} /\ perms.denyWrite = {}
         THEN /\ backend' = Level /\ step' = "launched"
              /\ UNCHANGED <<base, layer, edits, setups, setting, request, at, perms, value>>
         ELSE Refuse

(* The invocation ends; another may begin. *)
Exit ==
    /\ step \in {"launched", "refused"}
    /\ step' = "idle" /\ request' = NoRequest /\ at' = 1
    /\ perms' = Nothing /\ value' = None /\ backend' = None
    /\ UNCHANGED <<base, layer, edits, setups, setting>>

Invocation ==
    \/ Profile \/ External \/ Managed \/ RefuseState \/ TakeEntry \/ EndEntries
    \/ ReadBase \/ ReadLayer \/ Options \/ Dispatch \/ Exit

-----------------------------------------------------------------------------
(* The setup command, after provisioning has succeeded. *)

Outside == UNCHANGED <<layer, edits, setups, run>>

SetupBegins ==
    /\ setup = "idle" /\ setups < Usages[usage].setups
    /\ setup' = "provisioned" /\ setups' = setups + 1
    /\ UNCHANGED <<base, layer, edits, text, run>>

(* persist_elevated_mode: a missing file is an empty one. *)
SetupReads ==
    /\ setup = "provisioned"
    /\ IF base = Bad
         THEN setup' = "failed" /\ UNCHANGED text
         ELSE /\ setup' = "changed"
              /\ text' = Assign(IF base = None THEN Empty ELSE base)
    /\ UNCHANGED base /\ Outside

(* A temporary file is written, synchronised and renamed over the old one. *)
SetupPersists ==
    /\ setup = "changed"
    /\ \/ setup' = "done" /\ base' = text
       \/ setup' = "failed" /\ UNCHANGED base
    /\ text' = None
    /\ Outside

\* The file is truncated and written where it is.
SetupDiesWriting ==
    /\ setup # "idle"
    /\ setup' = "idle" /\ text' = None
    /\ base' = IF setup = "changed" THEN Bad ELSE base
    /\ Outside

(* The setup process ends, or dies wherever it is. *)
SetupEnds ==
    /\ setup # "idle"
    /\ setup' = "idle" /\ text' = None
    /\ UNCHANGED base /\ Outside

(* External: the user saves another text over the file. *)
Edit ==
    /\ edits < Usages[usage].edits
    /\ Usages[usage].editsInSetup \/ setup \in {"idle", "provisioned"}
    /\ edits' = edits + 1
    /\ base' \in Usages[usage].files \ {base}
    /\ UNCHANGED <<layer, setups, run, setting>>

LineNext ==
    \/ \E r \in Usages[usage].requests : Start(r)
    \/ Invocation
    \/ SetupBegins \/ SetupReads \/ SetupPersists \/ SetupEnds
    \/ Edit

-----------------------------------------------------------------------------
(* Every variable has its type. *)
LineTypeOK ==
    /\ usage \in DOMAIN Usages
    /\ step \in {"idle", "profile", "state", "entries", "base", "layer", "options",
                 "dispatch", "launched", "refused"}
    /\ setup \in {"idle", "provisioned", "changed", "done", "failed"}
    /\ edits \in 0..Usages[usage].edits /\ setups \in 0..Usages[usage].setups
    /\ request \in Usages[usage].requests \cup {NoRequest}
    /\ backend \in Levels \cup {None}
    /\ (backend # None) <=> (step = "launched")
    /\ (text # None) <=> (setup = "changed")

Launched == step = "launched"
Asked == Range(request.entries)
ByState == request.kind = "state" /\ request.type = "managed"

(* A command launched from a sandbox state runs under every entry of it: what *)
(* an entry denies is denied for reading and writing, and what it grants is   *)
(* granted, whatever entries stand before and after (resolve_sandbox_state).  *)
EntriesKept ==
    (Launched /\ ByState) =>
        \A e \in Asked :
            /\ e.kind \in {"path", "cwd", "sub", "root", "minimal", "tmp", "unknown"}
            /\ (Located(e) /\ e.access \in {"deny", "none"})
                   => Place(e) \in perms.denyRead \cap perms.denyWrite
            /\ (Located(e) /\ e.access = "write") => Place(e) \in perms.writes
            /\ (Located(e) /\ e.access = "read") => perms.full \/ Place(e) \in perms.reads

(* A command may write only where an entry, or an additional directory of an *)
(* invocation that may write at all, says so (resolve_sandbox_state,         *)
(* resolve_add_dirs, resolve_permissions).                                   *)
WritesAsked ==
    Launched =>
        LET granted == {e \in Asked : e.access = "write"}
            places  == {Place(e) : e \in {x \in granted : Located(x)}}
        IN CASE ByState ->
                  /\ perms.writes \subseteq places \cup request.addDirs
                  /\ granted = {} => perms.writes = {} /\ ~perms.temp
             [] request.kind = "state" /\ ~ByState -> perms.writes = {} /\ ~perms.temp
             [] OTHER -> perms.writes # {} => request.profile # ":read-only"

(* A backend that can neither restrict reads nor deny paths never runs a     *)
(* command whose state asks for either, whichever file or option has chosen  *)
(* the backend (run).                                                        *)
WeakBackendsRefuse ==
    (Launched /\ ByState /\ backend # "elevated") =>
        /\ \E e \in Asked : e.kind = "root" /\ e.access = "read"
        /\ ~\E e \in Asked : Located(e) /\ e.access \in {"deny", "none"}

(* The network is open only to a managed state that enables it, and never    *)
(* when the invocation asks for it to be closed.                             *)
NetworkAsked ==
    (Launched /\ ~perms.block) =>
        ByState /\ request.network = "enabled" /\ ~request.disable

(* The backend is the last option's, else the profile file's, else the base  *)
(* file's, else the default, while nobody writes the files                   *)
(* (resolve_windows_sandbox_level).                                          *)
BackendChosen ==
    (Launched /\ edits = 0 /\ setups = 0) =>
        backend = CASE request.overrides # <<>> -> Last(request.overrides)
                    [] request.overrides = <<>> /\ request.layered
                         /\ SandboxValue(layer) # None -> SandboxValue(layer)
                    [] OTHER -> IF SandboxValue(base) = None THEN "gemini" ELSE SandboxValue(base)

(* A setup that dies or fails at any point leaves a file that parses if the  *)
(* one before did: readers never meet half of it (persist_elevated_mode).    *)
ConfigWhole ==
    [][(setup # setup' /\ base # Bad) => base' # Bad]_lineVars

(* Setup changes the backend setting and keeps all else that was in the file *)
(* when it began, while no editor saves in between (persist_elevated_mode).   *)
RestKept ==
    [][(~Usages[usage].editsInSetup /\ setup # setup' /\ base # base' /\ base # None) =>
           Holds(base) /\ base'.rest = base.rest]_lineVars

(* Once setup has reported success the file selects the elevated backend     *)
(* while nobody edits it (src/README.md, Elevated setup): so it does where    *)
(* the setting stands in a table.                                            *)
TableSelects ==
    (setup = "done" /\ ~Usages[usage].editsInSetup /\ Holds(base) /\ base.where = "table") =>
        SandboxValue(base) = "elevated"

(* The same, wherever setup has put the setting. *)
SetupTakesEffect ==
    setup = "done" => SandboxValue(base) = "elevated"
=============================================================================
