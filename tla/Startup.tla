------------------------------ MODULE Startup ------------------------------
(***************************************************************************)
(* From the start of the program to the running application, over the      *)
(* database file: Database::initialize (integrity check, recovery), the    *)
(* identity that IdentityManager loads or creates, its reset and nickname, *)
(* and the fingerprint that main.rs hands to the discovery services.       *)
(*                                                                         *)
(* Each SQL statement is a step, as there are no transactions; the program *)
(* may end between any two.  Keys are numbered by the call of generate_new *)
(* that made them, 0 stands for no key, so the number is the fingerprint.  *)
(* A damaged file may refuse any statement; those it accepts do what they  *)
(* should.  A statement goes to the journal beside the file first (WAL),   *)
(* which outlives a crash of the program; power failures are left out.     *)
(***************************************************************************)
EXTENDS Naturals

CONSTANTS
    Messages,       \* messages that may be stored
    Nicknames,
    MaxResets,      \* bound: identity resets begun
    MaxFaults,      \* bound: crashes, damages, failures of files and statements
    None            \* no file, no nickname

ASSUME StartupAssumption ==
    /\ MaxResets \in Nat /\ MaxFaults \in Nat
    /\ None \notin Nicknames

VARIABLES
    file,       \* the database: the main file with its journal
    main,       \* what the main file has alone
    backup,     \* the file a recovery has set aside
    phase,      \* where the program is
    mem,        \* IdentityState: keys and nickname
    fresh,      \* the keys being saved, by load_or_create or reset_identity
    advertised, \* the fingerprint the discovery services were started with
    made,       \* number of keys generated so far
    resets, faults,     \* counted for the bounds
    used,       \* history: the identity of the last run, as far as it is saved
    excused,    \* history: is a reset incomplete, or a recovery done, since?
    stored,     \* history: the messages that have ever been in a main file
    recoveries  \* history: files set aside and journals lost

disk    == <<file, main, backup>>
process == <<phase, mem, fresh, advertised>>
history == <<used, excused, stored, recoveries>>
vars    == <<disk, process, made, resets, faults, history>>

\* row: the fingerprint of the latest identity row; ed, x: the two settings.
File == [row : Nat, ed : Nat, x : Nat, nick : Nicknames \cup {None},
         msgs : SUBSET Messages, intact : BOOLEAN]
ASSUME FileAssumption == None \notin File

NewFile == [row |-> 0, ed |-> 0, x |-> 0, nick |-> None, msgs |-> {}, intact |-> TRUE]
State   == [ed : Nat, x : Nat, nick : Nicknames \cup {None}]
NoKeys  == [ed |-> 0, x |-> 0, nick |-> None]

Phases == {"off", "check", "recover", "open", "load", "row", "ed", "x",
           "running", "resetRow", "resetEd", "resetX"}

Init ==
    /\ file = None /\ main = None /\ backup = None
    /\ phase = "off" /\ mem = NoKeys /\ fresh = 0 /\ advertised = 0
    /\ made = 0 /\ resets = 0 /\ faults = 0
    /\ used = NoKeys /\ excused = FALSE /\ stored = {} /\ recoveries = 0

-----------------------------------------------------------------------------
(* Faults.                                                                 *)

Fault == faults < MaxFaults /\ faults' = faults + 1

\* Something that works on an intact file fails.
Fails == IF file # None /\ ~file.intact THEN UNCHANGED faults ELSE Fault

MessagesOf(f) == IF f = None THEN {} ELSE f.msgs

\* The journal goes into the main file.
Flush    == main' = file /\ stored' = stored \cup MessagesOf(file)
MayFlush == Flush \/ UNCHANGED <<main, stored>>

\* SQLite does so when the journal has grown and when a connection closes,
\* unless something is wrong with the file.
Checkpoint ==
    /\ phase \notin {"off", "check", "recover", "open"}
    /\ Flush
    /\ UNCHANGED <<file, backup, process, made, resets, faults, used, excused, recoveries>>

Off == phase' = "off" /\ mem' = NoKeys /\ fresh' = 0 /\ advertised' = 0

Crash ==
    /\ phase # "off" /\ Fault
    /\ Off
    /\ UNCHANGED <<disk, made, resets, history>>

\* The file is damaged while the program is not running.
Damage ==
    /\ phase = "off" /\ file # None /\ Fault
    /\ file' = [file EXCEPT !.intact = FALSE]
    /\ main' = [main EXCEPT !.intact = FALSE]
    /\ UNCHANGED <<backup, process, made, resets, history>>

\* main returns an error: a statement or the opening of the file has failed.
Abort ==
    /\ phase \in {"open", "load", "row", "ed", "x"} /\ Fails
    /\ Off /\ MayFlush
    /\ UNCHANGED <<file, backup, made, resets, used, excused, recoveries>>

-----------------------------------------------------------------------------
(* Database::initialize_with_path.                                         *)

Goto(p) == phase' = p /\ UNCHANGED <<mem, fresh, advertised>>

Start ==
    /\ phase = "off"
    /\ Goto(IF file = None THEN "open" ELSE "check")
    /\ UNCHANGED <<disk, made, resets, faults, history>>

\* Mutant: a damaged file ends the program.
CheckAborts ==
    /\ phase = "check"
    /\ Goto(IF file.intact THEN "open" ELSE "off")
    /\ UNCHANGED <<disk, made, resets, faults, history>>

\* run_integrity_check: whatever error comes of it counts as corruption.
Check ==
    /\ phase = "check"
    /\ \/ file.intact /\ Flush /\ Goto("open") /\ UNCHANGED faults
       \/ Fails /\ MayFlush /\ Goto("recover")
    /\ UNCHANGED <<file, backup, made, resets, used, excused, recoveries>>

\* Mutant: the corrupt file is deleted.
RecoverDeletes ==
    /\ phase = "recover"
    /\ file' = None /\ main' = None /\ UNCHANGED backup
    /\ excused' = TRUE /\ recoveries' = recoveries + 1
    /\ Goto("open")
    /\ UNCHANGED <<made, resets, faults, used, stored>>

\* Mutant: no new file is created.
RecoverWithoutFile ==
    /\ phase = "recover"
    /\ file' = None /\ main' = None /\ backup' = main
    /\ excused' = TRUE /\ recoveries' = recoveries + 1
    /\ Goto("load")
    /\ UNCHANGED <<made, resets, faults, used, stored>>

\* The main file takes the place of an earlier backup.
SetAside ==
    /\ file' = None /\ main' = None /\ backup' = main
    /\ excused' = TRUE /\ recoveries' = recoveries + 1
    /\ UNCHANGED <<faults, used>>

\* It cannot be renamed and is used again, but its journal is removed.
LoseJournal ==
    /\ Fault
    /\ file' = main /\ UNCHANGED <<main, backup>>
    /\ IF main = file THEN UNCHANGED <<excused, recoveries, used>>
       ELSE /\ excused' = TRUE /\ recoveries' = recoveries + 1
            /\ used' = [ed |-> main.ed, x |-> main.x, nick |-> main.nick]

\* handle_corrupt_database.  Removing the journal may fail as renaming did.
Recover ==
    /\ phase = "recover"
    /\ SetAside \/ LoseJournal \/ (Fault /\ UNCHANGED <<disk, used, excused, recoveries>>)
    /\ Goto("open")
    /\ UNCHANGED <<made, resets, stored>>

\* Connection::open, the pragmas and create_all: an existing file keeps what it has.
Open ==
    /\ phase = "open"
    /\ file' = IF file = None THEN NewFile ELSE file
    /\ main' = IF file = None THEN NewFile ELSE main
    /\ Goto("load")
    /\ UNCHANGED <<backup, made, resets, faults, history>>

-----------------------------------------------------------------------------
(* IdentityManager.                                                        *)

\* The keys are there: the services are started with them (main.rs).
Launch(keys) ==
    /\ phase' = "running"
    /\ mem' = keys /\ advertised' = keys.ed /\ fresh' = 0
    /\ used' = keys /\ excused' = FALSE

Generate(p) ==
    /\ fresh' = made + 1 /\ made' = made + 1
    /\ phase' = p
    /\ UNCHANGED <<mem, advertised>>

Saved == file.row # 0 /\ file.ed # 0 /\ file.x # 0

\* load_or_create: the keys are those of the settings, whatever the row says.
Load ==
    /\ phase = "load"
    /\ IF Saved
         THEN /\ Launch([ed |-> file.ed, x |-> file.x, nick |-> file.nick])
              /\ UNCHANGED made
         ELSE Generate("row") /\ UNCHANGED <<used, excused>>
    /\ UNCHANGED <<disk, resets, faults, stored, recoveries>>

\* Mutant: the second key is saved under the name of the first.
SaveXAsEd == file' = [file EXCEPT !.ed = fresh]

\* The three statements that save new keys, at start and in a reset.
SaveRow(nick) == file' = [file EXCEPT !.row = fresh, !.nick = nick]
SaveEd        == file' = [file EXCEPT !.ed = fresh]
SaveX         == file' = [file EXCEPT !.x = fresh]

Create ==
    /\ \/ phase = "row" /\ SaveRow(None) /\ Goto("ed") /\ UNCHANGED <<used, excused>>
       \/ phase = "ed" /\ SaveEd /\ Goto("x") /\ UNCHANGED <<used, excused>>
       \/ phase = "x" /\ SaveX /\ Launch([ed |-> fresh, x |-> fresh, nick |-> None])
    /\ UNCHANGED <<main, backup, made, resets, faults, stored, recoveries>>

\* Mutant: memory is changed first.
BeginResetEager ==
    /\ phase = "running" /\ resets < MaxResets
    /\ fresh' = made + 1 /\ made' = made + 1
    /\ phase' = "resetRow" /\ UNCHANGED advertised
    /\ mem' = [mem EXCEPT !.ed = fresh', !.x = fresh'] /\ used' = mem'
    /\ resets' = resets + 1 /\ excused' = TRUE
    /\ UNCHANGED <<disk, faults, stored, recoveries>>

BeginReset ==
    /\ phase = "running" /\ resets < MaxResets
    /\ Generate("resetRow")
    /\ resets' = resets + 1 /\ excused' = TRUE
    /\ UNCHANGED <<disk, faults, used, stored, recoveries>>

\* reset_identity: the keys in memory change when all three are saved.
Reset ==
    /\ \/ phase = "resetRow" /\ SaveRow(mem.nick) /\ Goto("resetEd")
          /\ UNCHANGED <<used, excused>>
       \/ phase = "resetEd" /\ SaveEd /\ Goto("resetX")
          /\ UNCHANGED <<used, excused>>
       \/ /\ phase = "resetX" /\ SaveX
          /\ mem' = [mem EXCEPT !.ed = fresh, !.x = fresh]
          /\ phase' = "running" /\ fresh' = 0 /\ UNCHANGED advertised
          /\ used' = mem' /\ excused' = FALSE
    /\ UNCHANGED <<main, backup, made, resets, faults, stored, recoveries>>

\* A statement of the reset fails: the error is logged, nothing is undone.
ResetFails ==
    /\ phase \in {"resetRow", "resetEd", "resetX"} /\ Fails
    /\ phase' = "running" /\ fresh' = 0
    /\ UNCHANGED <<disk, mem, advertised, made, resets, history>>

\* set_nickname: memory first; the result of the statement is not looked at.
SetNickname(n) ==
    /\ phase = "running"
    /\ mem' = [mem EXCEPT !.nick = n]
    /\ \/ /\ file' = [file EXCEPT !.nick = n] /\ used' = [used EXCEPT !.nick = n]
          /\ UNCHANGED faults
       \/ Fails /\ UNCHANGED <<file, used>>
    /\ UNCHANGED <<main, backup, phase, fresh, advertised, made, resets>>
    /\ UNCHANGED <<excused, stored, recoveries>>

-----------------------------------------------------------------------------
Store(m) ==
    /\ phase = "running"
    /\ file' = [file EXCEPT !.msgs = @ \cup {m}]
    /\ UNCHANGED <<main, backup, process, made, resets, faults, history>>

\* The user closes the window.
Quit ==
    /\ phase = "running" /\ Off
    /\ IF file.intact THEN Flush ELSE MayFlush
    /\ UNCHANGED <<file, backup, made, resets, faults, used, excused, recoveries>>

Launching == Start \/ Check \/ Recover \/ Open \/ Load \/ Create

Next ==
    \/ Crash \/ Damage \/ Abort \/ Checkpoint
    \/ Launching
    \/ BeginReset \/ Reset \/ ResetFails
    \/ \E n \in Nicknames \cup {None} : SetNickname(n)
    \/ \E m \in Messages : Store(m)
    \/ Quit

\* The program is started again, and goes on.
Fairness == WF_vars(Launching) /\ WF_vars(Reset \/ ResetFails)

Spec     == Init /\ [][Next]_vars
FairSpec == Spec /\ Fairness

(***************************************************************************)
(* Properties                                                              *)
(***************************************************************************)

\* Types; and past its opening the program has a file.
TypeOK ==
    /\ file \in File \cup {None} /\ main \in File \cup {None} /\ backup \in File \cup {None}
    /\ phase \in Phases /\ mem \in State
    /\ fresh \in Nat /\ advertised \in Nat /\ made \in Nat
    /\ resets \in 0..MaxResets /\ faults \in 0..MaxFaults
    /\ used \in State /\ excused \in BOOLEAN
    /\ stored \subseteq Messages /\ recoveries \in Nat
    /\ phase \notin {"off", "open"} => file # None
    /\ file = None <=> main = None

\* FR-ID-02: the keys are generated once.  Whatever start follows a run, with
\* crashes at any statement in between, has the keys and the nickname that run
\* left saved, unless a reset was cut short or a recovery changed the database.
StableIdentity ==
    [][phase' = "running" /\ phase \in {"load", "x"} /\ ~excused /\ used # NoKeys
         => mem' = used]_vars

\* An identity once given up does not come back: no start runs under a
\* fingerprint older than that of the run before, or than the one that a
\* recovery has left of it, not even after a reset that was cut short.  Peers
\* that have trusted the new one keep talking to it.
NeverGoesBack ==
    [][phase # "running" /\ phase' = "running" => mem'.ed >= used.ed]_vars

\* FR-ID-02: the keys are "generated exactly once".  Others are made for a reset,
\* and no fault costs more than one: what it leaves is mended by the next keys,
\* not by keys made at every start.
GeneratedOnce == made <= 1 + resets + faults

\* FR-ID-10, FR-DB-07: no reset, start or recovery loses a message that has been
\* in the main file, as long as no second recovery overwrites the backup of the
\* first.
HistoryKept == recoveries <= 1 => stored \subseteq MessagesOf(main) \cup MessagesOf(backup)

\* Once faults have ended the program comes up, whatever they left behind.
ComesUp == phase # "running" ~> phase = "running"

-----------------------------------------------------------------------------
(* What the requirements say and the code does not do.                     *)

\* FR-ID-10: a reset "regenerates both key pairs": the two are of one making.
KeysOfOneIdentity == mem.ed = mem.x

\* FR-ID-10: a running program is known to its peers under its own fingerprint.
AdvertisedIsOwn == phase = "running" => advertised = mem.ed

\* FR-DB-07: the corrupt file is kept.
BackupKept == stored \subseteq MessagesOf(main) \cup MessagesOf(backup)

\* FR-DB-07: a recovery renames the database as it is, or changes nothing.
RecoveryKeepsAll ==
    [][phase = "recover" => file' = file \/ (file' = None /\ backup' = file)]_vars
=============================================================================
