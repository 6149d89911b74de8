---------------------------- MODULE StartupProofs ----------------------------
(***************************************************************************)
(* The identity and the history across crashes, damage and recovery, for   *)
(* every number of faults, resets, messages and nicknames.  What the three *)
(* statements of a save have written so far is known from the phase; what  *)
(* the last run left saved is in the file unless a reset or a recovery     *)
(* came in between; and no key in the file is older than those in use.     *)
(***************************************************************************)
EXTENDS Startup, TLAPS

Creating  == {"row", "ed", "x"}
Resetting == {"resetRow", "resetEd", "resetX"}

\* Keys are made in order, and the latest ones are being saved.
Numbers ==
    /\ used.ed <= made
    /\ phase \in Creating \cup Resetting => fresh = made /\ made > 0
    /\ phase \in Resetting \cup {"running"} => mem.ed = used.ed /\ used.ed # 0
    /\ file # None => file.ed <= made /\ (file.ed = 0 \/ file.ed >= used.ed)

\* What a save has written.
Progress ==
    /\ phase \in {"ed", "x"} => file.row = fresh /\ file.nick = None
    /\ phase \in {"resetEd", "resetX"} => file.row = fresh /\ file.nick = mem.nick
    /\ phase \in {"x", "resetX"} => file.ed = fresh
    /\ phase \in Resetting => excused

\* The identity of the last run is there.
Kept ==
    ~excused /\ used # NoKeys =>
      /\ file # None /\ file.row # 0 /\ file.ed # 0 /\ file.x # 0
      /\ file.ed = used.ed /\ file.x = used.x /\ file.nick = used.nick
      /\ phase \notin Creating

\* The journal only adds to the main file.
Journal ==
    /\ main # None => main.ed <= made
    /\ MessagesOf(main) \subseteq MessagesOf(file)

\* Before any recovery the messages are in the main file.
HistoryInMain == recoveries = 0 => stored \subseteq MessagesOf(main)

Inv == TypeOK /\ Numbers /\ Progress /\ Kept /\ Journal /\ HistoryInMain /\ HistoryKept

-----------------------------------------------------------------------------
(* Files.                                                                  *)

\* The statements change the fields they name and no other.
LEMMA EdFacts ==
    ASSUME NEW f \in File, NEW n \in Nat, NEW g, g = [f EXCEPT !.ed = n]
    PROVE  /\ g \in File /\ g # None /\ g.ed = n /\ g.intact = f.intact
           /\ g.row = f.row /\ g.nick = f.nick /\ g.x = f.x /\ g.msgs = f.msgs
BY FileAssumption DEF File, FileAssumption

LEMMA XFacts ==
    ASSUME NEW f \in File, NEW n \in Nat, NEW g, g = [f EXCEPT !.x = n]
    PROVE  /\ g \in File /\ g # None /\ g.x = n /\ g.intact = f.intact
           /\ g.row = f.row /\ g.nick = f.nick /\ g.ed = f.ed /\ g.msgs = f.msgs
BY FileAssumption DEF File, FileAssumption

LEMMA NickFacts ==
    ASSUME NEW f \in File, NEW nick \in Nicknames \cup {None},
           NEW g, g = [f EXCEPT !.nick = nick]
    PROVE  /\ g \in File /\ g # None /\ g.nick = nick
           /\ g.row = f.row /\ g.x = f.x /\ g.ed = f.ed /\ g.msgs = f.msgs
BY FileAssumption DEF File, FileAssumption

LEMMA DamageFacts ==
    ASSUME NEW f \in File, NEW g, g = [f EXCEPT !.intact = FALSE]
    PROVE  /\ g \in File /\ g # None /\ g.nick = f.nick
           /\ g.row = f.row /\ g.x = f.x /\ g.ed = f.ed /\ g.msgs = f.msgs
BY FileAssumption DEF File, FileAssumption

LEMMA StoreFacts ==
    ASSUME NEW f \in File, NEW m \in Messages, NEW g, g = [f EXCEPT !.msgs = @ \cup {m}]
    PROVE  /\ g \in File /\ g # None /\ g.msgs = f.msgs \cup {m}
           /\ g.row = f.row /\ g.nick = f.nick /\ g.x = f.x /\ g.ed = f.ed
BY FileAssumption DEF File, FileAssumption

LEMMA NewFileFacts ==
    /\ NewFile \in File /\ NewFile # None /\ NewFile.msgs = {}
    /\ NewFile.row = 0 /\ NewFile.ed = 0 /\ NewFile.x = 0
<1>1. NewFile \in File
  BY DEF File, NewFile
<1>2. /\ NewFile.msgs = {} /\ NewFile.row = 0 /\ NewFile.ed = 0 /\ NewFile.x = 0
  BY DEF NewFile
<1> QED
  BY <1>1, <1>2, FileAssumption DEF FileAssumption

-----------------------------------------------------------------------------
(* The invariant.                                                          *)

LEMMA InitInv == Init => Inv
<1> SUFFICES ASSUME Init PROVE Inv
  OBVIOUS
<1> USE StartupAssumption DEF StartupAssumption
<1>1. TypeOK
  <2>1. NoKeys \in State
    BY DEF NoKeys, State
  <2>2. /\ mem = NoKeys /\ used = NoKeys /\ phase = "off"
        /\ file = None /\ main = None /\ backup = None
        /\ fresh = 0 /\ advertised = 0 /\ made = 0 /\ resets = 0 /\ faults = 0
        /\ stored = {} /\ recoveries = 0 /\ excused = FALSE
    BY DEF Init
  <2>3. /\ file \in File \cup {None} /\ main \in File \cup {None}
        /\ backup \in File \cup {None} /\ excused \in BOOLEAN
        /\ fresh \in Nat /\ advertised \in Nat /\ made \in Nat /\ phase \in Phases
        /\ stored \subseteq Messages /\ recoveries \in Nat
    BY <2>2 DEF Phases
  <2>4. /\ mem \in State /\ used \in State /\ resets \in 0..MaxResets
        /\ faults \in 0..MaxFaults
    BY <2>1, <2>2
  <2> QED
    BY <2>2, <2>3, <2>4 DEF TypeOK
<1>2. Numbers /\ Progress /\ Kept
  BY DEF Init, Numbers, Progress, Kept, NoKeys, Creating, Resetting
<1>3. Journal /\ HistoryInMain /\ HistoryKept
  BY DEF Init, Journal, HistoryInMain, HistoryKept, MessagesOf
<1> QED
  BY <1>1, <1>2, <1>3 DEF Inv

\* A main file that takes in the journal, or does not.
LEMMA FlushFacts ==
    ASSUME Inv, MayFlush, UNCHANGED <<file, backup, made, recoveries>>
    PROVE  /\ main' \in File \cup {None} /\ (file' = None <=> main' = None)
           /\ stored' \subseteq Messages
           /\ Journal' /\ HistoryInMain' /\ HistoryKept'
<1>1. CASE UNCHANGED <<main, stored>>
  BY <1>1 DEF Inv, TypeOK, Journal, HistoryInMain, HistoryKept, MessagesOf
<1>2. CASE main' = file /\ stored' = stored \cup MessagesOf(file)
  <2>1. MessagesOf(file) \subseteq Messages
    BY DEF MessagesOf, Inv, TypeOK, File
  <2>2. /\ MessagesOf(main)' = MessagesOf(file) /\ MessagesOf(file)' = MessagesOf(file)
        /\ MessagesOf(main) \subseteq MessagesOf(file)
        /\ MessagesOf(backup)' = MessagesOf(backup)
    BY <1>2 DEF Inv, Journal, MessagesOf
  <2>3. main' # None => main'.ed <= made'
    BY <1>2 DEF Inv, Numbers
  <2> QED
    BY <1>2, <2>1, <2>2, <2>3 DEF Inv, TypeOK, Journal, HistoryInMain, HistoryKept
<1> QED
  BY <1>1, <1>2 DEF MayFlush, Flush

\* Faults.
LEMMA FaultStep == Inv /\ (Crash \/ Damage \/ Abort \/ Quit \/ Checkpoint) => Inv'
<1> USE StartupAssumption DEF StartupAssumption
<1>0. NoKeys \in State /\ 0 \in Nat
  BY DEF NoKeys, State
<1>1. ASSUME Inv, Crash \/ Abort \/ Quit PROVE Inv'
  <2>1. /\ UNCHANGED <<file, backup, made, resets, used, excused, recoveries>>
        /\ phase' = "off" /\ mem' = NoKeys /\ fresh' = 0 /\ advertised' = 0
        /\ MayFlush /\ faults' \in 0..MaxFaults
    BY <1>1 DEF Crash, Abort, Quit, Off, Fails, Fault, MayFlush, disk, history, Inv, TypeOK
  <2>2. /\ main' \in File \cup {None} /\ (file' = None <=> main' = None)
        /\ stored' \subseteq Messages /\ Journal' /\ HistoryInMain' /\ HistoryKept'
    BY <1>1, <2>1, FlushFacts
  <2>3. TypeOK'
    BY <1>0, <1>1, <2>1, <2>2 DEF Inv, TypeOK, Phases
  <2>4. Numbers' /\ Progress' /\ Kept'
    BY <1>1, <2>1 DEF Inv, Numbers, Progress, Kept, Creating, Resetting
  <2> QED
    BY <2>2, <2>3, <2>4 DEF Inv
<1>2. ASSUME Inv, Checkpoint PROVE Inv'
  <2>1. /\ UNCHANGED <<file, backup, phase, mem, fresh, advertised>> /\ MayFlush
        /\ UNCHANGED <<made, resets, faults, used, excused, recoveries>>
    BY <1>2 DEF Checkpoint, MayFlush, process
  <2>2. /\ main' \in File \cup {None} /\ (file' = None <=> main' = None)
        /\ stored' \subseteq Messages /\ Journal' /\ HistoryInMain' /\ HistoryKept'
    BY <1>2, <2>1, FlushFacts
  <2>3. TypeOK'
    BY <1>2, <2>1, <2>2 DEF Inv, TypeOK
  <2>4. Numbers' /\ Progress' /\ Kept'
    BY <1>2, <2>1 DEF Inv, Numbers, Progress, Kept, Creating, Resetting
  <2> QED
    BY <2>2, <2>3, <2>4 DEF Inv
<1>3. ASSUME Inv, Damage PROVE Inv'
  <2>1. /\ UNCHANGED <<backup, phase, mem, fresh, advertised, made, resets>>
        /\ UNCHANGED <<used, excused, stored, recoveries>>
        /\ phase = "off" /\ file \in File /\ file' = [file EXCEPT !.intact = FALSE]
        /\ main \in File /\ main' = [main EXCEPT !.intact = FALSE] /\ main # None
        /\ faults' \in 0..MaxFaults
    BY <1>3 DEF Damage, Fault, process, history, Inv, TypeOK
  <2>2. /\ file' \in File /\ file' # None /\ file'.nick = file.nick /\ file # None
        /\ file'.row = file.row /\ file'.x = file.x /\ file'.ed = file.ed
        /\ file'.msgs = file.msgs
    BY <2>1, FileAssumption, DamageFacts DEF FileAssumption
  <2>3. /\ main' \in File /\ main' # None
        /\ main'.ed = main.ed /\ main'.msgs = main.msgs
    BY <2>1, DamageFacts
  <2>4. TypeOK'
    BY <1>3, <2>1, <2>2, <2>3 DEF Inv, TypeOK
  <2>5. Numbers' /\ Progress' /\ Kept'
    BY <1>3, <2>1, <2>2 DEF Inv, Numbers, Progress, Kept, Creating, Resetting
  <2>6. Journal' /\ HistoryInMain' /\ HistoryKept'
    BY <1>3, <2>1, <2>2, <2>3 DEF Inv, Journal, HistoryInMain, HistoryKept, MessagesOf
  <2> QED
    BY <2>4, <2>5, <2>6 DEF Inv
<1> QED
  BY <1>1, <1>2, <1>3

\* The database is opened.
LEMMA OpenStep == Inv /\ (Start \/ Check \/ Recover \/ Open) => Inv'
<1> USE StartupAssumption DEF StartupAssumption
<1>1. ASSUME Inv, Start \/ Check PROVE Inv'
  <2>1. /\ UNCHANGED <<file, backup, made, resets, used, excused, recoveries>>
        /\ UNCHANGED <<mem, fresh, advertised>> /\ MayFlush
        /\ phase' \in {"open", "check", "recover"} /\ (phase' # "open" => file # None)
        /\ faults' \in 0..MaxFaults
    BY <1>1 DEF Start, Check, Goto, Fails, Fault, MayFlush, disk, history, Inv, TypeOK
  <2>2. /\ main' \in File \cup {None} /\ (file' = None <=> main' = None)
        /\ stored' \subseteq Messages /\ Journal' /\ HistoryInMain' /\ HistoryKept'
    BY <1>1, <2>1, FlushFacts
  <2>3. TypeOK'
    BY <1>1, <2>1, <2>2 DEF Inv, TypeOK, Phases
  <2>4. Numbers' /\ Progress' /\ Kept'
    BY <1>1, <2>1 DEF Inv, Numbers, Progress, Kept, Creating, Resetting
  <2> QED
    BY <2>2, <2>3, <2>4 DEF Inv
<1>2. ASSUME Inv, Recover PROVE Inv'
  <2>1. /\ UNCHANGED <<made, resets, stored, mem, fresh, advertised>>
        /\ phase = "recover" /\ phase' = "open" /\ faults' \in 0..MaxFaults
        /\ file # None /\ main \in File /\ main # None
    BY <1>2 DEF Recover, SetAside, LoseJournal, Goto, Fault, Inv, TypeOK
  <2>2. CASE SetAside
    <3>1. /\ file' = None /\ main' = None /\ backup' = main
          /\ excused' = TRUE /\ recoveries' = recoveries + 1 /\ used' = used
      BY <2>2 DEF SetAside
    <3>2. TypeOK'
      BY <1>2, <2>1, <3>1 DEF Inv, TypeOK, Phases
    <3>3. Numbers' /\ Progress' /\ Kept'
      BY <1>2, <2>1, <3>1 DEF Inv, Numbers, Progress, Kept, Creating, Resetting
    <3>4. Journal' /\ HistoryInMain' /\ HistoryKept'
      BY <1>2, <2>1, <3>1 DEF Inv, TypeOK, Journal, HistoryInMain, HistoryKept, MessagesOf
    <3> QED
      BY <3>2, <3>3, <3>4 DEF Inv
  <2>3. CASE LoseJournal /\ main # file
    <3>1. /\ file' = main /\ main' = main /\ backup' = backup
          /\ excused' = TRUE /\ recoveries' = recoveries + 1
          /\ used' = [ed |-> main.ed, x |-> main.x, nick |-> main.nick]
      BY <2>3 DEF LoseJournal
    <3>2. /\ used' \in State /\ used'.ed = main.ed /\ main.ed \in Nat /\ main.ed <= made
      BY <1>2, <2>1, <3>1 DEF File, State, Inv, Journal
    <3>3. TypeOK'
      BY <1>2, <2>1, <3>1, <3>2 DEF Inv, TypeOK, Phases
    <3>4. Numbers' /\ Progress' /\ Kept'
      BY <1>2, <2>1, <3>1, <3>2 DEF Numbers, Progress, Kept, Creating, Resetting
    <3>5. Journal' /\ HistoryInMain' /\ HistoryKept'
      BY <1>2, <2>1, <3>1, <3>2
         DEF Inv, TypeOK, Journal, HistoryInMain, HistoryKept, MessagesOf
    <3> QED
      BY <3>3, <3>4, <3>5 DEF Inv
  <2>4. CASE UNCHANGED <<file, main, backup, used, excused, recoveries>>
    <3>1. TypeOK'
      BY <1>2, <2>1, <2>4 DEF Inv, TypeOK, Phases
    <3>2. Numbers' /\ Progress' /\ Kept'
      BY <1>2, <2>1, <2>4 DEF Inv, Numbers, Progress, Kept, Creating, Resetting
    <3>3. Journal' /\ HistoryInMain' /\ HistoryKept'
      BY <1>2, <2>1, <2>4 DEF Inv, Journal, HistoryInMain, HistoryKept, MessagesOf
    <3> QED
      BY <3>1, <3>2, <3>3 DEF Inv
  <2> QED
    BY <1>2, <2>2, <2>3, <2>4 DEF Recover, LoseJournal, disk
<1>3. ASSUME Inv, Open PROVE Inv'
  <2>1. /\ UNCHANGED <<backup, made, resets, faults, used, excused, stored, recoveries>>
        /\ UNCHANGED <<mem, fresh, advertised>>
        /\ phase' = "load" /\ file' = (IF file = None THEN NewFile ELSE file)
        /\ main' = (IF file = None THEN NewFile ELSE main)
    BY <1>3 DEF Open, Goto, history
  <2>2. TypeOK'
    BY <1>3, <2>1, NewFileFacts DEF Inv, TypeOK, Phases
  <2>3. Numbers' /\ Progress' /\ Kept'
    BY <1>3, <2>1, NewFileFacts
       DEF Inv, TypeOK, Numbers, Progress, Kept, Creating, Resetting
  <2>4. Journal' /\ HistoryInMain' /\ HistoryKept'
    BY <1>3, <2>1, NewFileFacts
       DEF Inv, TypeOK, Journal, HistoryInMain, HistoryKept, MessagesOf
  <2> QED
    BY <2>2, <2>3, <2>4 DEF Inv
<1> QED
  BY <1>1, <1>2, <1>3

\* The nickname in memory.
LEMMA NicknameFacts ==
    ASSUME NEW s \in State, NEW n \in Nicknames \cup {None},
           NEW t, t = [s EXCEPT !.nick = n]
    PROVE  t \in State /\ t.ed = s.ed /\ t.x = s.x /\ t.nick = n
BY DEF State

\* Keys loaded or created are those the services start with.
LEMMA LaunchFacts ==
    ASSUME NEW e \in Nat, NEW y \in Nat, NEW n \in Nicknames \cup {None},
           Launch([ed |-> e, x |-> y, nick |-> n])
    PROVE  /\ phase' = "running" /\ fresh' = 0 /\ advertised' = e /\ excused' = FALSE
           /\ used' = mem' /\ mem' \in State /\ mem' = [ed |-> e, x |-> y, nick |-> n]
           /\ mem'.ed = e /\ mem'.x = y /\ mem'.nick = n
BY DEF Launch, State

LEMMA LoadStep == Inv /\ Load => Inv'
<1> SUFFICES ASSUME Inv, Load PROVE Inv'
  OBVIOUS
<1> USE StartupAssumption DEF StartupAssumption
<1>1. /\ UNCHANGED <<file, main, backup, resets, faults, stored, recoveries>>
      /\ phase = "load" /\ file \in File /\ file # None
  BY DEF Load, disk, Inv, TypeOK
<1>2. /\ file.row \in Nat /\ file.ed \in Nat /\ file.x \in Nat
      /\ file.nick \in Nicknames \cup {None}
  BY <1>1 DEF File
<1>3. Journal' /\ HistoryInMain' /\ HistoryKept'
  <2>1. made' \in {made, made + 1} /\ made \in Nat /\ (main # None => main.ed \in Nat)
    BY DEF Load, Generate, Inv, TypeOK, File
  <2>2. Journal'
    BY <1>1, <2>1 DEF Inv, Journal, MessagesOf
  <2> QED
    BY <1>1, <2>2 DEF Inv, HistoryInMain, HistoryKept, MessagesOf
<1>4. CASE Saved
  <2>1. made' = made /\ Launch([ed |-> file.ed, x |-> file.x, nick |-> file.nick])
    BY <1>4 DEF Load
  <2>2. /\ phase' = "running" /\ fresh' = 0 /\ advertised' = file.ed /\ excused' = FALSE
        /\ used' = mem' /\ mem' \in State
        /\ mem'.ed = file.ed /\ mem'.x = file.x /\ mem'.nick = file.nick
    BY <1>2, <2>1, LaunchFacts
  <2>3. TypeOK'
    <3>1. excused' \in BOOLEAN /\ fresh' \in Nat /\ advertised' \in Nat /\ made' \in Nat
      BY <1>2, <2>1, <2>2 DEF Inv, TypeOK
    <3> QED
      BY <1>1, <2>1, <2>2, <3>1 DEF Inv, TypeOK, Phases
  <2>4. Numbers' /\ Progress'
    BY <1>1, <1>2, <1>4, <2>1, <2>2
       DEF Saved, Inv, TypeOK, Numbers, Progress, Creating, Resetting
  <2>5. Kept'
    BY <1>1, <1>4, <2>2 DEF Kept, Saved, Creating
  <2> QED
    BY <1>3, <2>3, <2>4, <2>5 DEF Inv
<1>5. CASE ~Saved
  <2>1. /\ fresh' = made + 1 /\ made' = made + 1 /\ phase' = "row"
        /\ UNCHANGED <<mem, advertised, used, excused>>
    BY <1>5 DEF Load, Generate
  <2>2. TypeOK'
    BY <1>1, <2>1 DEF Inv, TypeOK, Phases
  <2>3. Numbers' /\ Progress'
    <3>1. used.ed \in Nat /\ made \in Nat
      BY DEF Inv, TypeOK, State
    <3> QED
      BY <1>1, <1>2, <2>1, <3>1 DEF Inv, Numbers, Progress, Creating, Resetting
  <2>4. Kept'
    BY <1>1, <1>5, <2>1 DEF Inv, Kept, Saved
  <2> QED
    BY <1>3, <2>2, <2>3, <2>4 DEF Inv
<1> QED
  BY <1>4, <1>5

\* The three statements of a first save, and the launch that follows.
LEMMA CreateStep == Inv /\ Create => Inv'
<1> SUFFICES ASSUME Inv, Create PROVE Inv'
  OBVIOUS
<1> USE StartupAssumption DEF StartupAssumption
<1>1. /\ UNCHANGED <<main, backup, made, resets, faults, stored, recoveries>>
      /\ phase \in {"row", "ed", "x"} /\ file \in File /\ file # None
      /\ fresh = made /\ made \in Nat /\ made > 0 /\ used.ed \in Nat /\ used.ed <= made
      /\ None \in Nicknames \cup {None} /\ (excused \/ used = NoKeys)
  BY DEF Create, Inv, TypeOK, Numbers, Creating, State, Kept
<1>2. file.ed \in Nat /\ file.ed <= made
  BY <1>1 DEF Inv, Numbers, File
<1>3. CASE phase = "row"
  <2>1. /\ phase' = "ed" /\ UNCHANGED <<mem, fresh, advertised, used, excused>>
        /\ file' = [file EXCEPT !.row = fresh, !.nick = None]
    BY <1>3 DEF Create, SaveRow, Goto
  <2>2. /\ file' \in File /\ file' # None /\ file'.row = fresh /\ file'.nick = None
        /\ file'.ed = file.ed /\ file'.msgs = file.msgs
    BY <1>1, <2>1, FileAssumption DEF File, FileAssumption
  <2>3. TypeOK' /\ Journal' /\ HistoryInMain' /\ HistoryKept'
    BY <1>1, <2>1, <2>2
       DEF Inv, TypeOK, Phases, Journal, HistoryInMain, HistoryKept, MessagesOf
  <2>4. Numbers' /\ Progress' /\ Kept'
    BY <1>1, <1>2, <2>1, <2>2 DEF Inv, Numbers, Progress, Kept, Creating, Resetting
  <2> QED
    BY <2>3, <2>4 DEF Inv
<1>4. CASE phase = "ed"
  <2>1. /\ phase' = "x" /\ UNCHANGED <<mem, fresh, advertised, used, excused>>
        /\ file' = [file EXCEPT !.ed = fresh] /\ file.row = fresh /\ file.nick = None
    BY <1>4 DEF Create, SaveEd, Goto, Inv, Progress
  <2>2. /\ file' \in File /\ file' # None /\ file'.row = fresh /\ file'.nick = None
        /\ file'.ed = fresh /\ file'.msgs = file.msgs
    BY <1>1, <2>1, EdFacts
  <2>3. TypeOK' /\ Journal' /\ HistoryInMain' /\ HistoryKept'
    BY <1>1, <2>1, <2>2
       DEF Inv, TypeOK, Phases, Journal, HistoryInMain, HistoryKept, MessagesOf
  <2>4. Numbers' /\ Progress' /\ Kept'
    BY <1>1, <2>1, <2>2 DEF Inv, Numbers, Progress, Kept, Creating, Resetting
  <2> QED
    BY <2>3, <2>4 DEF Inv
<1>5. CASE phase = "x"
  <2>1. /\ Launch([ed |-> fresh, x |-> fresh, nick |-> None])
        /\ file' = [file EXCEPT !.x = fresh]
        /\ file.row = fresh /\ file.nick = None /\ file.ed = fresh
    BY <1>5 DEF Create, SaveX, Inv, Progress
  <2>2. /\ file' \in File /\ file' # None /\ file'.row = fresh /\ file'.nick = None
        /\ file'.ed = fresh /\ file'.x = fresh /\ file'.msgs = file.msgs
    BY <1>1, <2>1, XFacts
  <2>3. /\ phase' = "running" /\ fresh' = 0 /\ advertised' = fresh /\ excused' = FALSE
        /\ used' = mem' /\ mem' \in State
        /\ mem'.ed = fresh /\ mem'.x = fresh /\ mem'.nick = None
    BY <1>1, <2>1, LaunchFacts
  <2>4. TypeOK' /\ Journal' /\ HistoryInMain' /\ HistoryKept'
    <3>1. excused' \in BOOLEAN /\ fresh' \in Nat /\ advertised' \in Nat /\ made' \in Nat
      BY <1>1, <2>3
    <3> QED
      BY <1>1, <2>2, <2>3, <3>1
         DEF Inv, TypeOK, Phases, Journal, HistoryInMain, HistoryKept, MessagesOf
  <2>5. Numbers' /\ Progress'
    BY <1>1, <2>2, <2>3 DEF Numbers, Progress, Creating, Resetting
  <2>6. Kept'
    BY <1>1, <2>2, <2>3 DEF Kept, Creating
  <2> QED
    BY <2>4, <2>5, <2>6 DEF Inv
<1> QED
  BY <1>1, <1>3, <1>4, <1>5

\* The same of a reset, which leaves memory alone until the end.
LEMMA ResetStep == Inv /\ Reset => Inv'
<1> SUFFICES ASSUME Inv, Reset PROVE Inv'
  OBVIOUS
<1> USE StartupAssumption DEF StartupAssumption
<1>1. /\ UNCHANGED <<main, backup, made, resets, faults, stored, recoveries>>
      /\ phase \in {"resetRow", "resetEd", "resetX"} /\ file \in File /\ file # None
      /\ fresh = made /\ made \in Nat /\ made > 0 /\ used.ed \in Nat /\ used.ed <= made
      /\ mem \in State /\ mem.nick \in Nicknames \cup {None} /\ mem.ed = used.ed /\ excused
  BY DEF Reset, Inv, TypeOK, Numbers, Progress, Resetting, State
<1>2. file.ed \in Nat /\ file.ed <= made /\ (file.ed = 0 \/ file.ed >= used.ed)
  BY <1>1 DEF Inv, Numbers, File
<1>3. CASE phase = "resetRow"
  <2>1. /\ phase' = "resetEd" /\ UNCHANGED <<mem, fresh, advertised, used, excused>>
        /\ file' = [file EXCEPT !.row = fresh, !.nick = mem.nick]
    BY <1>3 DEF Reset, SaveRow, Goto
  <2>2. /\ file' \in File /\ file' # None /\ file'.row = fresh /\ file'.nick = mem.nick
        /\ file'.ed = file.ed /\ file'.msgs = file.msgs
    BY <1>1, <2>1, FileAssumption DEF File, FileAssumption
  <2>3. TypeOK' /\ Journal' /\ HistoryInMain' /\ HistoryKept'
    BY <1>1, <2>1, <2>2
       DEF Inv, TypeOK, Phases, Journal, HistoryInMain, HistoryKept, MessagesOf
  <2>4. Numbers' /\ Progress' /\ Kept'
    BY <1>1, <1>2, <2>1, <2>2 DEF Inv, Numbers, Progress, Kept, Creating, Resetting
  <2> QED
    BY <2>3, <2>4 DEF Inv
<1>4. CASE phase = "resetEd"
  <2>1. /\ phase' = "resetX" /\ UNCHANGED <<mem, fresh, advertised, used, excused>>
        /\ file' = [file EXCEPT !.ed = fresh] /\ file.row = fresh /\ file.nick = mem.nick
    BY <1>4 DEF Reset, SaveEd, Goto, Inv, Progress
  <2>2. /\ file' \in File /\ file' # None /\ file'.row = fresh /\ file'.nick = mem.nick
        /\ file'.ed = fresh /\ file'.msgs = file.msgs
    BY <1>1, <2>1, EdFacts
  <2>3. TypeOK' /\ Journal' /\ HistoryInMain' /\ HistoryKept'
    BY <1>1, <2>1, <2>2
       DEF Inv, TypeOK, Phases, Journal, HistoryInMain, HistoryKept, MessagesOf
  <2>4. Numbers' /\ Progress' /\ Kept'
    BY <1>1, <2>1, <2>2 DEF Inv, Numbers, Progress, Kept, Creating, Resetting
  <2> QED
    BY <2>3, <2>4 DEF Inv
<1>5. CASE phase = "resetX"
  <2>1. /\ mem' = [mem EXCEPT !.ed = fresh, !.x = fresh] /\ phase' = "running" /\ fresh' = 0
        /\ advertised' = advertised /\ used' = mem' /\ excused' = FALSE
        /\ file' = [file EXCEPT !.x = fresh]
        /\ file.row = fresh /\ file.nick = mem.nick /\ file.ed = fresh
    BY <1>5 DEF Reset, SaveX, Inv, Progress
  <2>2. /\ file' \in File /\ file' # None /\ file'.row = fresh /\ file'.nick = mem.nick
        /\ file'.ed = fresh /\ file'.x = fresh /\ file'.msgs = file.msgs
    BY <1>1, <2>1, XFacts
  <2>3. mem' \in State /\ mem'.ed = fresh /\ mem'.x = fresh /\ mem'.nick = mem.nick
    BY <1>1, <2>1 DEF State
  <2>4. TypeOK' /\ Journal' /\ HistoryInMain' /\ HistoryKept'
    <3>1. excused' \in BOOLEAN /\ fresh' \in Nat /\ advertised' \in Nat /\ made' \in Nat
      BY <1>1, <2>1 DEF Inv, TypeOK
    <3> QED
      BY <1>1, <2>1, <2>2, <2>3, <3>1
         DEF Inv, TypeOK, Phases, Journal, HistoryInMain, HistoryKept, MessagesOf
  <2>5. Numbers' /\ Progress'
    BY <1>1, <2>1, <2>2, <2>3 DEF Numbers, Progress, Creating, Resetting
  <2>6. Kept'
    BY <1>1, <2>1, <2>2, <2>3 DEF Kept, Creating
  <2> QED
    BY <2>4, <2>5, <2>6 DEF Inv
<1> QED
  BY <1>1, <1>3, <1>4, <1>5

\* The remaining steps of a running program.
LEMMA RunningStep ==
    /\ Inv
    /\ \/ BeginReset \/ ResetFails
       \/ \E n \in Nicknames \cup {None} : SetNickname(n)
       \/ \E m \in Messages : Store(m)
    => Inv'
<1> USE StartupAssumption DEF StartupAssumption
<1>1. ASSUME Inv, BeginReset PROVE Inv'
  <2>1. /\ UNCHANGED <<file, main, backup, faults, used>>
        /\ UNCHANGED <<stored, recoveries, mem, advertised>>
        /\ phase = "running" /\ phase' = "resetRow" /\ fresh' = made + 1 /\ made' = made + 1
        /\ resets' = resets + 1 /\ excused' = TRUE /\ resets < MaxResets
    BY <1>1 DEF BeginReset, Generate, disk
  <2>2. used.ed \in Nat /\ made \in Nat /\ resets' \in 0..MaxResets /\ excused' \in BOOLEAN
    BY <1>1, <2>1 DEF Inv, TypeOK, State
  <2>3. TypeOK'
    BY <1>1, <2>1, <2>2 DEF Inv, TypeOK, Phases
  <2>4. (file # None => file.ed \in Nat) /\ (main # None => main.ed \in Nat)
    BY <1>1 DEF Inv, TypeOK, File
  <2>5. Numbers' /\ Progress' /\ Kept'
    BY <1>1, <2>1, <2>2, <2>4 DEF Inv, Numbers, Progress, Kept, Creating, Resetting
  <2>6. Journal' /\ HistoryInMain' /\ HistoryKept'
    BY <1>1, <2>1, <2>2, <2>4 DEF Inv, Journal, HistoryInMain, HistoryKept, MessagesOf
  <2> QED
    BY <2>3, <2>5, <2>6 DEF Inv
<1>2. ASSUME Inv, ResetFails PROVE Inv'
  <2>1. /\ UNCHANGED <<file, main, backup, made, resets, used>>
        /\ UNCHANGED <<excused, stored, recoveries, mem, advertised>>
        /\ phase \in Resetting /\ phase' = "running" /\ fresh' = 0 /\ faults' \in 0..MaxFaults
    BY <1>2 DEF ResetFails, Fails, Fault, disk, history, Resetting, Inv, TypeOK
  <2>2. TypeOK'
    BY <1>2, <2>1 DEF Inv, TypeOK, Phases, Resetting
  <2>3. Numbers' /\ Progress' /\ Kept'
    BY <1>2, <2>1 DEF Inv, Numbers, Progress, Kept, Creating, Resetting
  <2>4. Journal' /\ HistoryInMain' /\ HistoryKept'
    BY <1>2, <2>1 DEF Inv, Journal, HistoryInMain, HistoryKept, MessagesOf
  <2> QED
    BY <2>2, <2>3, <2>4 DEF Inv
<1>3. ASSUME NEW n \in Nicknames \cup {None}, Inv, SetNickname(n) PROVE Inv'
  <2>1. /\ UNCHANGED <<main, backup, phase, fresh, advertised, made, resets>>
        /\ UNCHANGED <<excused, stored, recoveries>>
        /\ phase = "running" /\ file \in File /\ file # None
        /\ mem \in State /\ used \in State /\ mem' = [mem EXCEPT !.nick = n]
        /\ faults' \in 0..MaxFaults
    BY <1>3 DEF SetNickname, Fails, Fault, Inv, TypeOK
  <2>2. mem' \in State /\ mem'.ed = mem.ed
    BY <2>1, NicknameFacts
  <2>3. CASE file' = [file EXCEPT !.nick = n] /\ used' = [used EXCEPT !.nick = n]
    <3>1. /\ file' \in File /\ file' # None /\ file'.nick = n /\ file'.row = file.row
          /\ file'.x = file.x /\ file'.ed = file.ed /\ file'.msgs = file.msgs
      BY <2>1, <2>3, NickFacts
    <3>2. used' \in State /\ used'.ed = used.ed /\ used'.x = used.x /\ used'.nick = n
      BY <2>1, <2>3 DEF State
    <3>3. TypeOK' /\ Journal' /\ HistoryInMain' /\ HistoryKept'
      BY <1>3, <2>1, <2>2, <3>1, <3>2
         DEF Inv, TypeOK, Journal, HistoryInMain, HistoryKept, MessagesOf
    <3>4. Numbers' /\ Progress'
      BY <1>3, <2>1, <2>2, <3>1, <3>2 DEF Inv, Numbers, Progress, Creating, Resetting
    <3>5. used # NoKeys
      BY <1>3, <2>1 DEF Inv, Numbers, Resetting, NoKeys
    <3>6. Kept'
      BY <1>3, <2>1, <3>1, <3>2, <3>5 DEF Inv, Kept, Creating
    <3> QED
      BY <3>3, <3>4, <3>6 DEF Inv
  <2>4. CASE UNCHANGED <<file, used>>
    <3>1. TypeOK' /\ Journal' /\ HistoryInMain' /\ HistoryKept'
      BY <1>3, <2>1, <2>2, <2>4
         DEF Inv, TypeOK, Journal, HistoryInMain, HistoryKept, MessagesOf
    <3>2. Numbers' /\ Progress' /\ Kept'
      BY <1>3, <2>1, <2>2, <2>4 DEF Inv, Numbers, Progress, Kept, Creating, Resetting
    <3> QED
      BY <3>1, <3>2 DEF Inv
  <2> QED
    BY <1>3, <2>3, <2>4 DEF SetNickname
<1>4. ASSUME NEW m \in Messages, Inv, Store(m) PROVE Inv'
  <2>1. /\ UNCHANGED <<main, backup, phase, mem, fresh, advertised>>
        /\ UNCHANGED <<made, resets, faults, used, excused, stored, recoveries>>
        /\ phase = "running" /\ file \in File /\ file # None
        /\ file' = [file EXCEPT !.msgs = @ \cup {m}]
    BY <1>4 DEF Store, process, history, Inv, TypeOK
  <2>2. /\ file' \in File /\ file' # None /\ file'.msgs = file.msgs \cup {m}
        /\ file'.row = file.row /\ file'.nick = file.nick /\ file'.x = file.x
        /\ file'.ed = file.ed
    BY <2>1, StoreFacts
  <2>3. TypeOK'
    BY <1>4, <2>1, <2>2 DEF Inv, TypeOK
  <2>4. Journal' /\ HistoryInMain' /\ HistoryKept'
    BY <1>4, <2>1, <2>2 DEF Inv, Journal, HistoryInMain, HistoryKept, MessagesOf
  <2>5. Numbers' /\ Progress' /\ Kept'
    BY <1>4, <2>1, <2>2 DEF Inv, Numbers, Progress, Kept, Creating, Resetting
  <2> QED
    BY <2>3, <2>4, <2>5 DEF Inv
<1> QED
  BY <1>1, <1>2, <1>3, <1>4

\* The invariant is inductive.
LEMMA Invariance == Inv /\ [Next]_vars => Inv'
<1> SUFFICES ASSUME Inv, [Next]_vars PROVE Inv'
  OBVIOUS
<1>1. CASE UNCHANGED vars
  BY <1>1 DEF vars, disk, process, history, Inv, TypeOK, Numbers, Progress, Kept, Journal,
              HistoryInMain, HistoryKept, MessagesOf
<1> QED
  BY <1>1, FaultStep, OpenStep, LoadStep, CreateStep, ResetStep, RunningStep
     DEF Next, Launching

LEMMA Invariant == Spec => []Inv
BY InitInv, Invariance, PTL DEF Spec

-----------------------------------------------------------------------------
(* The theorems.                                                           *)

\* Types; and past its opening the program has a file.
THEOREM TypeInvariant == Spec => []TypeOK
<1>1. Inv => TypeOK
  BY DEF Inv
<1> QED
  BY <1>1, Invariant, PTL

\* No message is lost before a second recovery.
THEOREM MessagesKept == Spec => []HistoryKept
<1>1. Inv => HistoryKept
  BY DEF Inv
<1> QED
  BY <1>1, Invariant, PTL

\* The keys and the nickname of the last run are those of the next.
THEOREM IdentityKept == Spec => StableIdentity
<1> DEFINE A == phase' = "running" /\ phase \in {"load", "x"} /\ ~excused /\ used # NoKeys
                  => mem' = used
<1>1. ASSUME Inv, [Next]_vars PROVE [A]_vars
  <2> SUFFICES ASSUME phase' = "running", phase \in {"load", "x"}, ~excused, used # NoKeys
               PROVE  mem' = used
    OBVIOUS
  <2>1. /\ file # None /\ file.row # 0 /\ file.ed # 0 /\ file.x # 0
        /\ file.ed = used.ed /\ file.x = used.x /\ file.nick = used.nick /\ phase = "load"
    BY <1>1 DEF Inv, Kept, Creating
  <2>2. Load
    BY <1>1, <2>1 DEF Next, Launching, Crash, Damage, Abort, Checkpoint,
                      Quit, Off, Start, Check, Recover,
                      Open, Create, BeginReset, Reset, ResetFails, SetNickname, Store,
                      vars, process
  <2>3. mem' = [ed |-> file.ed, x |-> file.x, nick |-> file.nick]
    BY <2>1, <2>2 DEF Load, Saved, Launch
  <2>4. used \in State
    BY <1>1 DEF Inv, TypeOK
  <2> QED
    BY <2>1, <2>3, <2>4 DEF State
<1> QED
  BY <1>1, Invariant, PTL DEF Spec, StableIdentity

\* No run has an identity older than that of the run before.
THEOREM NoReturn == Spec => NeverGoesBack
<1> DEFINE A == phase # "running" /\ phase' = "running" => mem'.ed >= used.ed
<1>1. ASSUME Inv, [Next]_vars PROVE [A]_vars
  <2> SUFFICES ASSUME phase # "running", phase' = "running" PROVE mem'.ed >= used.ed
    OBVIOUS
  <2>1. Load \/ Create \/ Reset \/ ResetFails
    BY <1>1 DEF Next, Launching, Crash, Damage, Abort, Checkpoint,
                      Quit, Off, Start, Check, Recover, Goto,
                Open, BeginReset, Generate, SetNickname, Store, vars, process
  <2>2. /\ used.ed \in Nat /\ made \in Nat /\ used.ed <= made
        /\ (phase \in Creating \cup Resetting => fresh = made)
        /\ (phase \in Resetting => mem.ed = used.ed) /\ mem \in State
    BY <1>1 DEF Inv, TypeOK, State, Numbers
  <2>3. CASE Load
    <3>1. Saved /\ Launch([ed |-> file.ed, x |-> file.x, nick |-> file.nick])
      BY <2>3 DEF Load, Generate
    <3>2. mem'.ed = file.ed /\ file # None /\ file.ed # 0
      BY <1>1, <2>3, <3>1 DEF Launch, Saved, Load, Inv, TypeOK
    <3> QED
      BY <1>1, <3>2 DEF Inv, Numbers
  <2>4. CASE Create
    <3>1. phase = "x" /\ mem' = [ed |-> fresh, x |-> fresh, nick |-> None]
      BY <2>4 DEF Create, Goto, Launch
    <3> QED
      BY <2>2, <3>1 DEF Creating
  <2>5. CASE Reset
    <3>1. phase = "resetX" /\ mem' = [mem EXCEPT !.ed = fresh, !.x = fresh]
      BY <2>5 DEF Reset, Goto
    <3> QED
      BY <2>2, <3>1 DEF Resetting, State
  <2>6. CASE ResetFails
    BY <2>2, <2>6 DEF ResetFails, Resetting
  <2> QED
    BY <2>1, <2>3, <2>4, <2>5, <2>6
<1> QED
  BY <1>1, Invariant, PTL DEF Spec, NeverGoesBack

-----------------------------------------------------------------------------
(* How often keys are made.                                                *)

Unsaved == file = None \/ ~Saved
Unsound == file # None /\ ~file.intact

\* How many keys may be made before the next reset or fault: new ones when the
\* file has none, and when a check is going to find it damaged.  Past the check
\* a damaged file can cost both.
Due ==
    IF phase \in {"off", "check", "recover"}
      THEN IF phase = "recover" \/ Unsaved \/ Unsound THEN 1 ELSE 0
      ELSE (IF phase \in {"open", "load"} /\ Unsaved THEN 1 ELSE 0)
           + (IF Unsound THEN 1 ELSE 0)

Accounted ==
    /\ made + Due <= 1 + resets + faults
    /\ phase \in Resetting \cup {"running"} => Saved

LEMMA AccountedStep == Inv /\ Accounted /\ [Next]_vars => Accounted'
<1> SUFFICES ASSUME Inv, Accounted, [Next]_vars PROVE Accounted'
  OBVIOUS
<1>0. PICK due \in 0..2, left \in 0..2 : due = Due /\ left = Due'
  BY DEF Due
<1>a. /\ made \in Nat /\ resets \in Nat /\ faults \in Nat
      /\ made + due <= 1 + resets + faults
  BY <1>0, StartupAssumption DEF StartupAssumption, Inv, TypeOK, Accounted
<1>b. ASSUME made' = made, resets' = resets, faults' = faults, left <= due,
             phase' \notin Resetting \cup {"running"} \/ Saved'
      PROVE  Accounted'
  <2>1. made' + left <= 1 + resets' + faults'
    BY <1>a, <1>b
  <2> QED
    BY <1>0, <1>b, <2>1 DEF Accounted
<1>c. ASSUME made' = made, resets' = resets, Fault, left <= due + 1,
             phase' \notin Resetting \cup {"running"} \/ Saved'
      PROVE  Accounted'
  <2>1. made' + left <= 1 + resets' + faults'
    BY <1>a, <1>c DEF Fault
  <2> QED
    BY <1>0, <1>c, <2>1 DEF Accounted
<1>1. CASE Crash \/ Damage
  <2>1. made' = made /\ resets' = resets /\ Fault /\ phase' = "off"
    BY <1>1 DEF Crash, Damage, Off, process
  <2>2. left <= 1
    BY <1>0, <2>1 DEF Due
  <2> QED
    BY <1>a, <1>c, <2>1, <2>2 DEF Resetting
<1>2. CASE Abort
  <2>1. made' = made /\ resets' = resets /\ phase' = "off" /\ Fails /\ left <= 1
    BY <1>0, <1>2 DEF Abort, Off, Due
  <2>2. CASE Unsound /\ UNCHANGED faults
    <3>1. due >= 1
      BY <1>0, <1>2, <2>2 DEF Abort, Due
    <3> QED
      BY <1>a, <1>b, <2>1, <2>2, <3>1 DEF Resetting
  <2>3. CASE Fault
    BY <1>a, <1>c, <2>1, <2>3 DEF Resetting
  <2> QED
    BY <2>1, <2>2, <2>3 DEF Fails, Unsound
<1>3. CASE Checkpoint
  <2>1. UNCHANGED <<file, phase, made, resets, faults>>
    BY <1>3 DEF Checkpoint, process
  <2> QED
    BY <1>0, <1>a, <1>b, <2>1 DEF Accounted, Due, Unsaved, Unsound, Saved
<1>4. CASE Start \/ Open
  <2>1. made' = made /\ resets' = resets /\ faults' = faults
        /\ phase' \in {"open", "check", "load"}
    BY <1>4 DEF Start, Open, Goto
  <2>2. left <= due
    <3>1. CASE Start
      BY <1>0, <3>1 DEF Start, Goto, disk, Due, Unsaved, Unsound, Saved
    <3>2. CASE Open
      BY <1>0, <3>2, NewFileFacts DEF Open, Goto, Due, Unsaved, Unsound, Saved, NewFile
    <3> QED
      BY <1>4, <3>1, <3>2
  <2> QED
    BY <1>b, <2>1, <2>2 DEF Resetting
<1>5. CASE Check
  <2>1. made' = made /\ resets' = resets /\ file' = file /\ phase = "check"
    BY <1>5 DEF Check
  <2>2. CASE file.intact /\ Goto("open") /\ UNCHANGED faults
    <3>1. left <= due
      BY <1>0, <2>1, <2>2 DEF Goto, Due, Unsaved, Unsound, Saved
    <3> QED
      BY <1>b, <2>1, <2>2, <3>1 DEF Goto, Resetting
  <2>3. CASE Fails /\ Goto("recover")
    <3>1. phase' = "recover" /\ left = 1
      BY <1>0, <2>3 DEF Goto, Due
    <3>2. CASE Unsound /\ UNCHANGED faults
      <4>1. due = 1
        BY <1>0, <2>1, <3>2 DEF Due
      <4> QED
        BY <1>b, <2>1, <3>1, <3>2, <4>1 DEF Resetting
    <3>3. CASE Fault
      BY <1>a, <1>c, <2>1, <3>1, <3>3 DEF Resetting
    <3> QED
      BY <2>3, <3>2, <3>3 DEF Fails, Unsound
  <2> QED
    BY <1>5, <2>2, <2>3 DEF Check
<1>6. CASE Recover
  <2>1. /\ made' = made /\ resets' = resets /\ phase' = "open" /\ phase = "recover"
        /\ due = 1 /\ (Fault \/ (file' = None /\ faults' = faults))
    BY <1>0, <1>6 DEF Recover, Goto, SetAside, LoseJournal, Due
  <2>2. CASE Fault
    BY <1>a, <1>c, <2>1, <2>2 DEF Resetting
  <2>3. CASE file' = None /\ faults' = faults
    <3>1. left <= 1
      BY <1>0, <2>1, <2>3 DEF Due, Unsaved, Unsound
    <3> QED
      BY <1>b, <2>1, <2>3, <3>1 DEF Resetting
  <2> QED
    BY <2>1, <2>2, <2>3
<1>7. CASE Load
  <2>1. /\ file' = file /\ resets' = resets /\ faults' = faults /\ phase = "load"
        /\ Saved' <=> Saved
    BY <1>7 DEF Load, disk, Saved
  <2>2. CASE Saved
    <3>1. made' = made /\ phase' = "running"
      BY <1>7, <2>2 DEF Load, Launch
    <3>2. left <= due
      BY <1>0, <1>a, <2>1, <3>1 DEF Due, Unsaved, Unsound
    <3> QED
      BY <1>b, <2>1, <2>2, <3>1, <3>2
  <2>3. CASE ~Saved
    <3>1. made' = made + 1 /\ phase' = "row"
      BY <1>7, <2>3 DEF Load, Generate
    <3>2. left + 1 = due
      BY <1>0, <2>1, <2>3, <3>1 DEF Due, Unsaved, Unsound
    <3>3. made' + left <= 1 + resets' + faults'
      BY <1>a, <2>1, <3>1, <3>2
    <3> QED
      BY <1>0, <3>1, <3>3 DEF Accounted, Resetting
  <2> QED
    BY <2>2, <2>3
<1>8. CASE Create
  <2>1. /\ made' = made /\ resets' = resets /\ faults' = faults
        /\ file \in File /\ phase \in Creating
        /\ fresh = made /\ fresh # 0 /\ None \in Nicknames \cup {None}
    BY <1>a, <1>8 DEF Create, Inv, TypeOK, Numbers, Creating
  <2>2. file' # None /\ file'.intact = file.intact
    <3>1. \/ file' = [file EXCEPT !.row = fresh, !.nick = None]
          \/ file' = [file EXCEPT !.ed = fresh]
          \/ file' = [file EXCEPT !.x = fresh]
      BY <1>8 DEF Create, SaveRow, SaveEd, SaveX
    <3>2. fresh \in Nat
      BY <1>a, <2>1
    <3>3. CASE file' = [file EXCEPT !.row = fresh, !.nick = None]
      BY <2>1, <3>2, <3>3, FileAssumption DEF File, FileAssumption
    <3>4. CASE file' = [file EXCEPT !.ed = fresh]
      BY <2>1, <3>2, <3>4, EdFacts
    <3>5. CASE file' = [file EXCEPT !.x = fresh]
      BY <2>1, <3>2, <3>5, XFacts
    <3> QED
      BY <3>1, <3>3, <3>4, <3>5
  <2>3. phase' \in Creating \/ (phase' = "running" /\ Saved')
    BY <1>8, <2>1 DEF Create, SaveX, Goto, Launch, Creating, Saved, Inv, Progress, File
  <2>4. left <= due
    <3>1. phase' \in Creating \cup {"running"}
      BY <2>3, Zenon
    <3>2. Unsound' <=> Unsound
      BY <2>1, <2>2, FileAssumption DEF Unsound, FileAssumption
    <3> QED
      BY <1>0, <2>1, <3>1, <3>2 DEF Due, Unsound, Creating
  <2> QED
    BY <1>b, <2>1, <2>3, <2>4 DEF Creating, Resetting
<1>9. CASE BeginReset
  <2>1. /\ made' = made + 1 /\ resets' = resets + 1 /\ faults' = faults /\ file' = file
        /\ phase = "running" /\ phase' = "resetRow"
    BY <1>9 DEF BeginReset, Generate, disk
  <2>2. left = due
    BY <1>0, <2>1 DEF Due, Unsound
  <2>3. made' + left <= 1 + resets' + faults'
    BY <1>a, <2>1, <2>2
  <2> QED
    BY <1>0, <2>1, <2>3 DEF Accounted, Saved
<1>10. CASE Reset
  <2>1. /\ made' = made /\ resets' = resets /\ faults' = faults
        /\ file \in File /\ phase \in Resetting /\ phase' \in Resetting \cup {"running"}
        /\ fresh \in Nat /\ fresh # 0 /\ Saved /\ mem.nick \in Nicknames \cup {None}
    BY <1>a, <1>10 DEF State, Reset, Goto, Inv, TypeOK, Numbers, Resetting, Accounted
  <2>2. file' # None /\ file'.intact = file.intact /\ Saved'
    <3>1. \/ file' = [file EXCEPT !.row = fresh, !.nick = mem.nick]
          \/ file' = [file EXCEPT !.ed = fresh]
          \/ file' = [file EXCEPT !.x = fresh]
      BY <1>10 DEF Reset, SaveRow, SaveEd, SaveX
    <3>2. CASE file' = [file EXCEPT !.row = fresh, !.nick = mem.nick]
      BY <2>1, <3>2, FileAssumption DEF Saved, File, FileAssumption
    <3>3. CASE file' = [file EXCEPT !.ed = fresh]
      BY <2>1, <3>3, EdFacts DEF Saved
    <3>4. CASE file' = [file EXCEPT !.x = fresh]
      BY <2>1, <3>4, XFacts DEF Saved
    <3> QED
      BY <3>1, <3>2, <3>3, <3>4
  <2>3. left <= due
    <3>1. Unsound' <=> Unsound
      BY <2>1, <2>2, FileAssumption DEF Unsound, FileAssumption
    <3> QED
      BY <1>0, <2>1, <3>1 DEF Due, Unsound, Resetting
  <2> QED
    BY <1>b, <2>1, <2>2, <2>3
<1>11. ASSUME phase \in Resetting \cup {"running"}, phase' = "running", made' = made,
              resets' = resets, faults' = faults \/ Fault, file' # None,
              file'.intact = file.intact, Saved'
       PROVE  Accounted'
  <2>1. left <= due
    BY <1>0, <1>a, <1>11 DEF Due, Unsound, Resetting, Inv, TypeOK
  <2> QED
    BY <1>a, <1>b, <1>c, <1>11, <2>1
<1>12. CASE ResetFails
  BY <1>11, <1>12
     DEF ResetFails, Fails, disk, Accounted, Saved, Resetting, Inv, TypeOK
<1>13. ASSUME NEW n \in Nicknames \cup {None}, SetNickname(n) PROVE Accounted'
  <2>1. file \in File /\ Saved /\ phase = "running" /\ phase' = "running"
        /\ made' = made /\ resets' = resets /\ (faults' = faults \/ Fault)
        /\ (file' = file \/ file' = [file EXCEPT !.nick = n])
    BY <1>13 DEF SetNickname, Fails, Accounted, Inv, TypeOK
  <2>2. file' # None /\ file'.intact = file.intact /\ Saved'
    BY <2>1, FileAssumption DEF Saved, File, FileAssumption
  <2> QED
    BY <1>11, <2>1, <2>2
<1>14. ASSUME NEW m \in Messages, Store(m) PROVE Accounted'
  <2>1. file \in File /\ Saved /\ phase = "running" /\ phase' = "running"
        /\ made' = made /\ resets' = resets /\ faults' = faults
        /\ file' = [file EXCEPT !.msgs = @ \cup {m}]
    BY <1>14 DEF Store, process, Accounted, Inv, TypeOK
  <2>2. file' # None /\ file'.intact = file.intact /\ Saved'
    BY <2>1, FileAssumption DEF Saved, File, FileAssumption
  <2> QED
    BY <1>11, <2>1, <2>2
<1>15. CASE Quit
  <2>1. /\ made' = made /\ resets' = resets /\ faults' = faults /\ file' = file
        /\ phase = "running" /\ phase' = "off" /\ file # None /\ Saved
    BY <1>15 DEF Quit, Off, Accounted, Inv, TypeOK
  <2>2. left <= due
    BY <1>0, <2>1 DEF Due, Unsaved, Unsound, Saved
  <2> QED
    BY <1>b, <2>1, <2>2 DEF Resetting
<1>16. CASE UNCHANGED vars
  <2>1. UNCHANGED <<file, phase, made, resets, faults>>
    BY <1>16 DEF vars, disk, process
  <2> QED
    BY <1>0, <1>a, <1>b, <2>1 DEF Accounted, Due, Unsaved, Unsound, Saved
<1> QED
  BY <1>1, <1>2, <1>3, <1>4, <1>5, <1>6, <1>7, <1>8, <1>9, <1>10, <1>12, <1>13, <1>14,
     <1>15, <1>16 DEF Next, Launching

\* Keys are made once, and again once for each reset and each fault at most.
THEOREM MadeOnce == Spec => []GeneratedOnce
<1>1. Init => Accounted
  BY DEF Init, Accounted, Due, Unsaved, Unsound, Resetting
<1>2. Inv /\ Accounted => GeneratedOnce
  BY StartupAssumption
     DEF StartupAssumption, Inv, TypeOK, Accounted, Due, GeneratedOnce
<1> QED
  BY <1>1, <1>2, AccountedStep, Invariant, PTL DEF Spec
=============================================================================
