---------------------------- MODULE SecretStore -----------------------------
(***************************************************************************)
(* Setting a secret (core/src/secrets.rs FileStore and VaultStore, main.rs *)
(* set_secret): the store is read, changed and written back whole, then    *)
(* every unit that uses the secret starts again and reads it.              *)
(*                                                                         *)
(* The store is a file that is renamed into place ("file"), one that       *)
(* cannot be renamed over ("mount"), or a path of Vault ("vault").  Files  *)
(* are inodes: a writer keeps the one it opened whatever it is called now. *)
(***************************************************************************)
EXTENDS Naturals, FiniteSets

CONSTANTS
    Callers,   \* the requests that set a secret
    Refs,      \* the references of the store
    Unit,      \* the reference the unit reads
    MaxEvents  \* bound: faults

VARIABLES
    store,    \* "file", "mount" or "vault"
    pc, ref,  \* of each caller; the value it sets is its own number
    map,      \* what it is about to write
    inode,    \* the file it writes to
    content,  \* of each inode: the secrets, or Torn
    path, tmp, \* the inodes of the store and of its .tmp, 0 when there is none
    unit,     \* the value the unit runs with, or Starting
    meant,    \* the value each secret was last set to, as told to the callers
    overlap,  \* two sets have been under way at once
    faults, events
vars == <<store, pc, ref, map, inode, content, path, tmp, unit, meant, overlap, faults, events>>

None   == 0
Starting == 0
Empty  == [r \in Refs |-> None]
Torn   == [r \in {} |-> None]
Old    == [r \in Refs |-> 9] \* the values everything starts with
Inodes == 0..(Cardinality(Callers) + 1)

Fault(k) == events < MaxEvents /\ events' = events + 1 /\ faults' = faults \cup {k}

Init ==
    /\ store \in {"file", "mount", "vault"}
    /\ pc = [c \in Callers |-> "idle"] /\ ref \in [Callers -> Refs]
    /\ map = [c \in Callers |-> Empty] /\ inode = [c \in Callers |-> 0]
    /\ content = [i \in Inodes |-> IF i = 1 THEN Old ELSE Empty]
    /\ path = 1 /\ tmp = 0
    /\ unit = Old[Unit] /\ meant = Old
    /\ overlap = FALSE /\ faults = {} /\ events = 0

Goes(c, to) == pc' = [pc EXCEPT ![c] = to]
Busy        == {c \in Callers : pc[c] \notin {"idle", "restart", "done"}}

-----------------------------------------------------------------------------
\* load, and the value put in; Vault: GET. A file that is no JSON object fails the call.
Loaded(c)    == [content[path] EXCEPT ![ref[c]] = c]
Load(c) ==
    /\ pc[c] = "idle"
    /\ IF content[path] = Torn THEN Goes(c, "done") /\ map' = map
       ELSE Goes(c, IF store = "vault" THEN "post" ELSE "open") /\ map' = [map EXCEPT ![c] = Loaded(c)]
    /\ overlap' = (overlap \/ Busy # {})
    /\ UNCHANGED <<store, ref, inode, content, path, tmp, unit, meant, faults, events>>
\* Vault: a GET that fails is taken for a path with nothing in it.
LoadFails(c) ==
    /\ pc[c] = "idle" /\ store = "vault"
    /\ Fault("get")
    /\ Goes(c, "post")
    /\ map' = [map EXCEPT ![c] = [Empty EXCEPT ![ref[c]] = c]]
    /\ overlap' = (overlap \/ Busy # {})
    /\ UNCHANGED <<store, ref, inode, content, path, tmp, unit, meant>>

\* The .tmp is opened and emptied, which is one file for all callers.
Fresh == CHOOSE i \in Inodes \ {0} : i \notin {path, tmp} \cup {inode[c] : c \in Callers}
OpenTmp(c) ==
    LET i == IF tmp = 0 THEN Fresh ELSE tmp IN
    /\ pc[c] = "open"
    /\ tmp' = i
    /\ inode' = [inode EXCEPT ![c] = i]
    /\ content' = [content EXCEPT ![i] = Empty]
    /\ Goes(c, "write")
    /\ UNCHANGED <<store, ref, map, path, unit, meant, overlap, faults, events>>
\* Mutant: the file itself is opened.
OpenInPlace(c) ==
    /\ pc[c] = "open"
    /\ inode' = [inode EXCEPT ![c] = path]
    /\ content' = [content EXCEPT ![path] = Empty]
    /\ Goes(c, "rewrite")
    /\ UNCHANGED <<store, ref, map, path, tmp, unit, meant, overlap, faults, events>>
Open(c) == OpenTmp(c)

\* Written over something of another length, the end of that remains.
Over(c) ==
    IF content[inode[c]] = Empty THEN {map[c]} ELSE {map[c], Torn}
Write(c) ==
    /\ pc[c] \in {"write", "rewrite"}
    /\ \E to \in Over(c) : content' = [content EXCEPT ![inode[c]] = to]
    /\ Goes(c, IF pc[c] = "write" THEN "rename" ELSE "told")
    /\ UNCHANGED <<store, ref, map, inode, path, tmp, unit, meant, overlap, faults, events>>

\* rename: done; EBUSY, so the file is opened in place; or no .tmp, an error.
Rename(c) ==
    /\ pc[c] = "rename"
    /\ IF tmp = 0 THEN Goes(c, "done") /\ UNCHANGED <<path, tmp, inode, content>>
       ELSE IF store = "file"
       THEN Goes(c, "told") /\ path' = tmp /\ tmp' = 0 /\ UNCHANGED <<inode, content>>
       ELSE /\ Goes(c, "rewrite")
            /\ tmp' = 0 /\ path' = path
            /\ inode' = [inode EXCEPT ![c] = path]
            /\ content' = [content EXCEPT ![path] = Empty]
    /\ UNCHANGED <<store, ref, map, unit, meant, overlap, faults, events>>

Post(c) ==
    /\ pc[c] = "post"
    /\ content' = [content EXCEPT ![path] = map[c]]
    /\ Goes(c, "told")
    /\ UNCHANGED <<store, ref, map, inode, path, tmp, unit, meant, overlap, faults, events>>
\* The disk is full, Vault answers with an error: what was opened stays as it is.
SetFails(c) ==
    /\ pc[c] \in {"open", "write", "rename", "post", "rewrite"}
    /\ Fault(IF pc[c] = "rewrite" THEN "rewrite" ELSE "set")
    /\ tmp' = IF pc[c] = "rename" THEN 0 ELSE tmp
    /\ Goes(c, "done")
    /\ UNCHANGED <<store, ref, map, inode, content, path, unit, meant, overlap>>

\* set has returned Ok: the unit is stopped and started, if it uses the secret.
UnitAfter(c) == IF ref[c] = Unit THEN Starting ELSE unit
Told(c) ==
    /\ pc[c] = "told"
    /\ meant' = [meant EXCEPT ![ref[c]] = c]
    /\ Goes(c, "restart")
    /\ UNCHANGED <<store, ref, map, inode, content, path, tmp, unit, overlap, faults, events>>
Restart(c) ==
    /\ pc[c] = "restart"
    /\ unit' = UnitAfter(c)
    /\ Goes(c, "done")
    /\ UNCHANGED <<store, ref, map, inode, content, path, tmp, meant, overlap, faults, events>>

\* get, as the unit's config is evaluated: a secret that is not there is an error, and
\* the unit's supervisor tries again.
get(r) == IF content[path] = Torn THEN None ELSE content[path][r]
Start ==
    /\ unit = Starting /\ get(Unit) # None
    /\ unit' = get(Unit)
    /\ UNCHANGED <<store, pc, ref, map, inode, content, path, tmp, meant, overlap, faults, events>>

\* The process dies; the files stay, and the unit starts with the next one.
Crash ==
    /\ Fault("crash")
    /\ pc' = [c \in Callers |-> "done"]
    /\ unit' = Starting
    /\ UNCHANGED <<store, ref, map, inode, content, path, tmp, meant, overlap>>

Step(c) == Load(c) \/ Open(c) \/ Write(c) \/ Rename(c) \/ Post(c) \/ Told(c) \/ Restart(c)
Next == Start \/ Crash \/ \E c \in Callers : Step(c) \/ LoadFails(c) \/ SetFails(c)
Under == Start \/ \E c \in Callers : pc[c] # "idle" /\ Step(c)
Spec == Init /\ [][Next]_vars /\ WF_vars(Under)

-----------------------------------------------------------------------------
\* The store and its .tmp are two files, whose contents are secrets or torn.
TypeOK ==
    /\ \A i \in Inodes : content[i] \in [Refs -> Callers \cup {None, 9}] \cup {Torn}
    /\ path \in Inodes \ {0} /\ tmp \in Inodes /\ path # tmp
    /\ unit \in Callers \cup {9, Starting}

\* "atomic replace so a concurrent get never sees a torn file" (FileStore::set): every
\* secret that was there before is there at any time.
GetNeverTorn == store = "file" => \A r \in Refs : get(r) # None

\* It holds with one set at a time, and a crash or a full disk in the middle of one.
GetNeverTornAlone == ~overlap => GetNeverTorn

\* A secret is what it was last set to, and setting one never loses another: unless two
\* sets overlap, Vault could not be read, or a file that is written in place was left
\* half way.
NoSecretLost ==
    /\ Busy = {} /\ ~overlap
    /\ "get" \notin faults
    /\ store = "mount" => faults \cap {"rewrite", "crash"} = {}
    => \A r \in Refs : get(r) = meant[r] \/ ("crash" \in faults /\ get(r) \in Callers)

\* The unit ends up with what the store says, however sets of its secret interleave with
\* its starts, unless two sets overlap; or the store has nothing for it.
UpToDate == overlap \/ (Busy = {} /\ (get(Unit) = None \/ unit = get(Unit)))
UnitCatchesUp == []<>UpToDate
=============================================================================
