------------------------------- MODULE Rollout -------------------------------
(***************************************************************************)
(* How an edit of the external endpoints reaches the gatekeeper that       *)
(* enforces it: the row is committed, router-api renders the rows into a   *)
(* configuration file (sidecar-config-writer.service.ts), the sidecar      *)
(* polls that file and signals its child (gatekeeper/pkg/sidecar), and the *)
(* child reads the file again and reloads (cli/cmd_run.go watchHangup).    *)
(*                                                                         *)
(* A step is a query, a system call, or what runs between two of them.     *)
(* A file is an inode: a writer that still has the temporary file open     *)
(* when another renames it goes on writing into the file in place.         *)
(***************************************************************************)
EXTENDS Naturals, FiniteSets

CONSTANTS
    Writers,    \* mutations that may render at the same time
    Configs,    \* what the rows can render to
    Runnable,   \* those that pass the full validation (at least one endpoint)
    Torn,       \* a half-written file
    None,       \* no file, or nothing read yet
    Restores,   \* whether an edit may restore an earlier configuration
    MaxEdits,   \* bound on the mutations
    MaxCrashes  \* bound on the failures of either process, and of a write

ASSUME RolloutAssumption ==
    /\ Runnable \subseteq Configs /\ Torn \notin Configs /\ None \notin Configs
    /\ Restores \in BOOLEAN
    /\ MaxEdits \in Nat /\ MaxCrashes \in Nat

VARIABLES
    db,         \* what the committed rows render to
    past,       \* what they have rendered to before
    edits, crashes,
    api,        \* router-api: "down", "boot" or "up"
    writer,     \* render: where it is, what it rendered, where its open file is
    tmp, file,  \* contents of `${path}.tmp` and of the file
    overlapped, \* a render began while another was under way, and none alone since
    reported,   \* the last render ended with an error
    side,       \* the sidecar: where it is, the digest it believes is applied
    moved,      \* the file has changed since the sidecar recorded its stamp
    child,      \* the gatekeeper: where it is, what it has read, what is in force
    hup         \* its signal buffer, of one

disk == <<tmp, file>>
router == <<db, past, edits, api, writer, overlapped, reported>>
vars == <<db, past, edits, crashes, api, writer, tmp, file, overlapped, reported, side, moved, child, hup>>

Contents == Configs \cup {Torn, None}
Idle == [pc |-> "idle", rendered |-> None, fd |-> "none"]
NoChild == [pc |-> "none", read |-> None, loaded |-> None, refused |-> FALSE]
Waiting == [pc |-> "wait", applied |-> None]

Init ==
    /\ db \in Configs \ Runnable
    /\ past = {db} /\ edits = 0 /\ crashes = 0
    /\ api = "down"
    /\ writer = [w \in Writers |-> Idle]
    /\ tmp = None /\ file = None
    /\ overlapped = FALSE /\ reported = FALSE
    /\ side = Waiting /\ moved = FALSE
    /\ child = NoChild /\ hup = FALSE

AllIdle == \A w \in Writers : writer[w] = Idle

-----------------------------------------------------------------------------
(* router-api *)

\* A crash loses every render; what it left of the temporary file stays.
Crash ==
    /\ api # "down" /\ crashes < MaxCrashes
    /\ crashes' = crashes + 1
    /\ api' = "down"
    /\ writer' = [w \in Writers |-> Idle]
    /\ UNCHANGED <<db, past, edits, disk, overlapped, reported, side, moved, child, hup>>

\* onApplicationBootstrap renders before the server listens.
BootMutant(w) ==
    /\ api = "down"
    /\ api' = "up"
    /\ UNCHANGED <<db, past, edits, crashes, writer, disk, overlapped, reported, side, moved, child, hup>>

Boot(w) ==
    /\ api = "down"
    /\ api' = "boot"
    /\ writer' = [writer EXCEPT ![w].pc = "read"]
    /\ UNCHANGED <<db, past, edits, crashes, disk, overlapped, reported, side, moved, child, hup>>

\* A mutation commits its row, then publishes.
Mutate(w) ==
    /\ api = "up" /\ writer[w] = Idle /\ edits < MaxEdits
    /\ edits' = edits + 1
    /\ db' \in Configs \ (IF Restores THEN {db} ELSE past)
    /\ past' = past \cup {db'}
    /\ writer' = [writer EXCEPT ![w].pc = "read"]
    /\ overlapped' = ~AllIdle
    /\ UNCHANGED <<crashes, api, disk, reported, side, moved, child, hup>>

ReadRows(w) ==
    /\ writer[w].pc = "read"
    /\ writer' = [writer EXCEPT ![w].pc = "compare", ![w].rendered = db]
    /\ UNCHANGED <<db, past, edits, crashes, api, disk, overlapped, reported, side, moved, child, hup>>

\* A render that is over, with an error or without.
Ends(w, failed) ==
    /\ writer' = [writer EXCEPT ![w] = Idle]
    /\ reported' = failed
    /\ api' = "up"
    /\ UNCHANGED <<db, past, edits, overlapped, side, child, hup>>

\* Unchanged bytes are not rewritten.
Compare(w) ==
    /\ writer[w].pc = "compare"
    /\ \/ file = writer[w].rendered /\ Ends(w, FALSE)
       \/ /\ file # writer[w].rendered
          /\ writer' = [writer EXCEPT ![w].pc = "open"]
          /\ UNCHANGED <<db, past, edits, api, overlapped, reported, side, child, hup>>
    /\ UNCHANGED <<crashes, disk, moved>>

\* writeFile: open truncates, then the bytes go wherever the inode now is.  Over
\* bytes another writer left there, the longer of the two shows through.
OpenMutant(w) ==
    /\ writer[w].pc = "open"
    /\ file' = Torn /\ moved' = TRUE
    /\ writer' = [writer EXCEPT ![w].pc = "write", ![w].fd = "file"]
    /\ UNCHANGED <<db, past, edits, crashes, api, tmp, overlapped, reported, side, child, hup>>

Open(w) ==
    /\ writer[w].pc = "open"
    /\ tmp' = Torn
    /\ writer' = [writer EXCEPT ![w].pc = "write", ![w].fd = "tmp"]
    /\ UNCHANGED <<db, past, edits, crashes, api, file, overlapped, reported, side, moved, child, hup>>

Written(w, old) == IF old = Torn THEN {writer[w].rendered} ELSE {writer[w].rendered, Torn}

Write(w) ==
    /\ writer[w].pc = "write"
    /\ CASE writer[w].fd = "tmp"  -> tmp' \in Written(w, tmp) /\ UNCHANGED <<file, moved>>
         [] writer[w].fd = "file" -> file' \in Written(w, file) /\ moved' = TRUE /\ UNCHANGED tmp
         [] OTHER -> UNCHANGED <<disk, moved>>
    /\ writer' = [writer EXCEPT ![w].pc = "rename"]
    /\ UNCHANGED <<db, past, edits, crashes, api, overlapped, reported, side, child, hup>>

Rename(w) ==
    /\ writer[w].pc = "rename" /\ tmp # None
    /\ file' = tmp /\ tmp' = None /\ moved' = TRUE
    /\ writer' = [v \in Writers |->
                     IF v = w THEN Idle
                     ELSE [writer[v] EXCEPT !.fd = IF @ = "tmp" THEN "file" ELSE IF @ = "file" THEN "gone" ELSE @]]
    /\ reported' = FALSE /\ api' = "up"
    /\ UNCHANGED <<db, past, edits, crashes, overlapped, side, child, hup>>

\* Another render has renamed the temporary file away.
RenameMissing(w) ==
    /\ writer[w].pc = "rename" /\ tmp = None
    /\ Ends(w, TRUE)
    /\ UNCHANGED <<crashes, disk, moved>>

\* A query or a system call fails: the mutation does too, its row committed.
RenderFails(w) ==
    /\ writer[w] # Idle /\ crashes < MaxCrashes
    /\ crashes' = crashes + 1
    /\ Ends(w, TRUE)
    /\ UNCHANGED <<disk, moved>>

-----------------------------------------------------------------------------
(* The sidecar *)

\* waitForConfig, then cmd.Start: the child will read the file for itself.
Start ==
    /\ side.pc = "wait" /\ file \in Runnable
    /\ side' = [side EXCEPT !.pc = "stat"]
    /\ child' = [NoChild EXCEPT !.pc = "boot"]
    /\ UNCHANGED <<router, crashes, disk, moved, hup>>

\* watcher.start: the stamp, then the digest.
RecordStamp ==
    /\ side.pc = "stat"
    /\ side' = [side EXCEPT !.pc = "digest"]
    /\ moved' = FALSE
    /\ UNCHANGED <<router, crashes, disk, child, hup>>

RecordDigest ==
    /\ side.pc = "digest"
    /\ side' = [pc |-> "watch", applied |-> file]
    /\ UNCHANGED <<router, crashes, disk, moved, child, hup>>

\* changed: the stamp has moved ...
Tick ==
    /\ side.pc = "watch" /\ moved
    /\ side' = [side EXCEPT !.pc = "look"]
    /\ moved' = FALSE
    /\ UNCHANGED <<router, crashes, disk, child, hup>>

\* ... and the bytes load and are not the ones applied.  A child that does not
\* listen yet ignores the signal, as the sidecar it inherits that from does; one
\* it has not taken merges with the next.
SignalUnbuffered == hup' = (hup \/ child.pc = "listen")

Signal == hup' = (hup \/ child.pc \in {"listen", "apply"})

Look ==
    /\ side.pc = "look"
    /\ \/ /\ file \in {side.applied, Torn}
          /\ side' = [side EXCEPT !.pc = "watch"]
          /\ UNCHANGED hup
       \/ /\ file \notin {side.applied, Torn}
          /\ side' = [pc |-> "watch", applied |-> file]
          /\ Signal
    /\ UNCHANGED <<router, crashes, disk, moved, child>>

\* The child has exited: so does the sidecar, and the container starts over.
Restart ==
    /\ child.pc = "exited"
    /\ side' = Waiting /\ child' = NoChild
    /\ UNCHANGED <<router, crashes, disk, moved, hup>>

-----------------------------------------------------------------------------
(* gatekeeper run *)

\* load validates in full: a file that has become empty ends the process.
Load ==
    /\ child.pc = "boot"
    /\ child' = IF file \in Runnable THEN [NoChild EXCEPT !.pc = "loaded", !.loaded = file]
                ELSE [NoChild EXCEPT !.pc = "exited"]
    /\ UNCHANGED <<router, crashes, disk, side, moved, hup>>

\* signal.Notify: only now is the signal the child's.
Listen ==
    /\ child.pc = "loaded"
    /\ child' = [child EXCEPT !.pc = "listen"]
    /\ UNCHANGED <<router, crashes, disk, side, moved, hup>>

\* loadEditable: a file that loads, complete or not.
Editable(c) == c \in Configs

HangUp ==
    /\ child.pc = "listen" /\ hup
    /\ hup' = FALSE
    /\ child' = IF Editable(file) THEN [child EXCEPT !.pc = "apply", !.read = file] ELSE child
    /\ UNCHANGED <<router, crashes, disk, side, moved>>

Reload ==
    /\ child.pc = "apply"
    /\ child' = [NoChild EXCEPT !.pc = "listen", !.loaded = child.read]
    /\ UNCHANGED <<router, crashes, disk, side, moved, hup>>

\* The running configuration is kept, and nobody tries again.
ReloadFails ==
    /\ child.pc = "apply" /\ crashes < MaxCrashes
    /\ crashes' = crashes + 1
    /\ child' = [child EXCEPT !.pc = "listen", !.read = None, !.refused = TRUE]
    /\ UNCHANGED <<router, disk, side, moved, hup>>

ChildCrash ==
    /\ child.pc \in {"boot", "loaded", "listen", "apply"} /\ crashes < MaxCrashes
    /\ crashes' = crashes + 1
    /\ child' = [NoChild EXCEPT !.pc = "exited"]
    /\ hup' = FALSE
    /\ UNCHANGED <<router, disk, side, moved>>

-----------------------------------------------------------------------------
Render(w) == ReadRows(w) \/ Compare(w) \/ Open(w) \/ Write(w) \/ Rename(w) \/ RenameMissing(w)
Sidecar == Start \/ RecordStamp \/ RecordDigest \/ Tick \/ Look \/ Restart
Gatekeeper == Load \/ Listen \/ HangUp \/ Reload

Next ==
    \/ \E w \in Writers : Boot(w) \/ Mutate(w) \/ Render(w) \/ RenderFails(w)
    \/ Crash \/ Sidecar \/ Gatekeeper \/ ReloadFails \/ ChildCrash

Spec == Init /\ [][Next]_vars

\* The pods are restarted, the ticker ticks, and both processes are scheduled.
FairSpec ==
    /\ Spec
    /\ WF_vars(\E w \in Writers : Boot(w)) /\ WF_vars(Sidecar) /\ WF_vars(Gatekeeper)
    /\ \A w \in Writers : WF_vars(Render(w))

-----------------------------------------------------------------------------
(* Properties *)

TypeOK ==
    /\ db \in past /\ past \subseteq Configs /\ tmp \in Contents /\ file \in Contents
    /\ edits \in 0 .. MaxEdits /\ crashes \in 0 .. MaxCrashes
    /\ api \in {"down", "boot", "up"}
    /\ writer \in [Writers -> [pc : {"idle", "read", "compare", "open", "write", "rename"},
                               rendered : Configs \cup {None}, fd : {"none", "tmp", "file", "gone"}]]
    /\ side \in [pc : {"wait", "stat", "digest", "watch", "look"}, applied : Contents]
    /\ child \in [pc : {"none", "boot", "loaded", "listen", "apply", "exited"},
                  read : Contents, loaded : Contents, refused : BOOLEAN]
    /\ {overlapped, reported, moved, hup} \subseteq BOOLEAN
    /\ hup => child.pc \in {"listen", "apply"}

\* Renders that do not overlap leave the file equal to the rows, through crashes
\* between the commit and the rename: a render that failed has said so, and the
\* next one, or the next boot, repairs what any of them left.
FileFollowsRows == api = "up" /\ AllIdle /\ ~overlapped /\ ~reported => file = db

\* "never a half of either" (sidecar-config-writer.service.ts:98): a render that
\* has the temporary file to itself never leaves half a file to a reader.
NeverHalf == [][file' = Torn /\ file # Torn => overlapped]_vars

\* sidecar.go:68: where no edit restores an earlier configuration and renders do
\* not overlap, a change the sidecar meets while its child listens comes into
\* force, an empty configuration too, unless the child goes or has refused it: no signal is lost
\* between two reloads.
ChangesReachChild ==
    (/\ side.pc \in {"watch", "look"} /\ child.pc \in {"listen", "apply"}
     /\ file \notin {side.applied, Torn})
        ~> (child.loaded = file \/ overlapped \/ child.refused \/ child.pc = "exited")

\* sidecar.go:68, "reloads it whenever the file changes": once nothing is left to
\* do, the child runs what the file holds.
SettledIsFile ==
    side.pc = "watch" /\ ~moved /\ child.pc = "listen" /\ ~hup /\ file # Torn => child.loaded = file

\* sidecar-config-writer.service.ts:20, "Keeps the sidecar's config file equal to
\* the database": once every mutation has returned without an error.
FileIsRows == api = "up" /\ AllIdle /\ ~reported => file = db
=============================================================================
