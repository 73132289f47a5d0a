-------------------------- MODULE SmartStateService --------------------------
(***************************************************************************)
(* The smart-state scan service (src/smart-state/service.rb): a WEBrick    *)
(* server whose POST /init_scan handler answers at once and starts a Ruby  *)
(* thread that connects to vCenter, walks the VMs, extracts every category *)
(* of every VM under Timeout.timeout, and writes the aggregate to          *)
(* /tmp/smart-scan-results.json; GET /results serves that file verbatim.   *)
(*                                                                         *)
(* Each scan thread is a program counter plus its locals.  The result file *)
(* is a sequence of tokens: File.open(path, 'w') truncates it and the      *)
(* write lays the serialised result over it from offset 0, so two writers  *)
(* or a crash between the two steps leave whatever bytes are there.  The   *)
(* process may crash (threads die, the file in /tmp survives) and restart. *)
(***************************************************************************)
EXTENDS Integers, SequencesExt, FiniteSets, TLC

CONSTANTS
    VMs,            \* vim.virtualMachines in enumeration order (a sequence)
    DsPath,         \* VM -> its summary.config.vmPathName text
    CATEGORIES,     \* the ordered categories (a sequence)
    CapConfigs,     \* possible [file, env] texts read by max_vms_to_scan
    CapFiles,       \* texts an operator may write to max_vms_to_scan.txt
    MaxCapEdits,    \* bound: edits of max_vms_to_scan.txt over a behaviour
    Threads,        \* slots for scan threads that run at the same time
    MaxCrashes,     \* bound: process crashes over a behaviour
    WriteMayFail,   \* whether File.open / write may raise (EACCES, ENOSPC)
    NoFile,         \* max_vms_to_scan.txt does not exist
    TimeoutSettings,\* possible SMART_STATE_SERVICE_TIMEOUT_SEC texts, or Unset
    Unset,          \* the environment variable is not set
    NIL             \* Ruby nil

ASSUME Threads # {} /\ MaxCrashes \in Nat /\ MaxCapEdits \in 0..1
       /\ WriteMayFail \in BOOLEAN

VARIABLES
    up,           \* the server process is running
    crashes,      \* crashes so far (bounded by MaxCrashes)
    thr,          \* thr[t]: scan thread t (program counter and locals)
    file,         \* [exists, content] of /tmp/smart-scan-results.json
    whole,        \* the scan result whose complete JSON the file holds, or NIL
    capCfg,       \* [file, env]: max_vms_to_scan.txt and MAX_VMS_TO_SCAN now
    capEdits,     \* edits of the cap file so far (bounded by MaxCapEdits)
    timeout_sec   \* ENV['SMART_STATE_SERVICE_TIMEOUT_SEC'] || 20, fixed at start

vars == <<up, crashes, thr, file, whole, capCfg, capEdits, timeout_sec>>

VM == {VMs[i] : i \in 1..Len(VMs)}

-----------------------------------------------------------------------------
(* Request bodies of POST /init_scan, by what JSON.parse and Hash#[] do.   *)
Bodies == {"Full",      \* {"server":..,"username":..,"password":..}
           "Partial",   \* an object missing a field: body['x'] is nil
           "Malformed", \* not JSON: JSON::ParserError
           "Absent",    \* no body: JSON.parse(nil) raises TypeError
           "Array",     \* a JSON array: Array#[]('server') raises TypeError
           "String"}    \* a JSON string: String#[]('server') is nil
Methods == {"GET", "POST", "PUT"}

(* String#to_i on the small alphabet the cap texts use.                    *)
DigitValue == "0" :> 0 @@ "1" :> 1 @@ "2" :> 2 @@ "3" :> 3
RECURSIVE StripLeft(_), AccDigits(_, _)
StripLeft(s) == IF s # <<>> /\ Head(s) \in {" ", "\n", "\t"}
                THEN StripLeft(Tail(s)) ELSE s
AccDigits(s, acc) == IF s # <<>> /\ Head(s) \in DOMAIN DigitValue
                     THEN AccDigits(Tail(s), 10 * acc + DigitValue[Head(s)])
                     ELSE acc
ToI(s) == LET t == StripLeft(s) IN
          CASE t # <<>> /\ Head(t) = "-" -> 0 - AccDigits(Tail(t), 0)
            [] t # <<>> /\ Head(t) = "+" -> AccDigits(Tail(t), 0)
            [] OTHER                     -> AccDigits(t, 0)

(* max_vms_to_scan: the file wins over the environment; nil if neither.   *)
max_vms_to_scan(cfg) ==
    IF cfg.file # NoFile THEN ToI(cfg.file)
    ELSE IF cfg.env # Unset THEN ToI(cfg.env) ELSE NIL

(* next if ds_path.to_s.strip.empty?                                       *)
Skipped(v) == StripLeft(IF DsPath[v] = NIL THEN <<>> ELSE DsPath[v]) = <<>>

(* The JSON text of the result: "[", the VM hashes, "]".  A category's     *)
(* extracted XML is longer than an error message, so its text is longer.   *)
Tok(k, v) == [k |-> k, v |-> v]
SerOutcome(o) == IF o = "Data" THEN <<Tok("xml", o), Tok("xml", o)>>
                 ELSE <<Tok("error", o)>>
SerRecord(r) ==
    IF "error" \in DOMAIN r
    THEN <<Tok("{", r.vm_name), Tok("error", r.error), Tok("}", r.vm_name)>>
    ELSE <<Tok("{", r.vm_name)>>
         \o FlattenSeq([i \in 1..Len(r.categories) |-> SerOutcome(r.categories[i])])
         \o <<Tok("}", r.vm_name)>>
Serialize(recs) ==
    <<Tok("[", "")>> \o FlattenSeq([i \in 1..Len(recs) |-> SerRecord(recs[i])])
                    \o <<Tok("]", "")>>

(* A write(2) at offset 0 over what the file holds.                        *)
Overlay(old, new) == new \o SubSeq(old, Len(new) + 1, Len(old))

(* ENV['SMART_STATE_SERVICE_TIMEOUT_SEC'] || 20 (line 19): a Ruby value,   *)
(* tagged with its class; ENV values are Strings and are not converted.    *)
EnvOr20(e) == IF e = Unset THEN [class |-> "Integer", val |-> 20]
              ELSE [class |-> "String", val |-> e]

(* TimerError: what Timeout.timeout raises when handed a String.         *)
Outcomes == {"Data", "ExtractError", "Timeout", "TimerError"}
Running == {"connect", "list", "vm", "open", "extract", "write_open", "write", "disconnect"}

(* A result left in /tmp by an earlier run of the service.                 *)
PrevRecs == <<[vm_name |-> VMs[1], datastore_path |-> DsPath[VMs[1]], error |-> "OpenError"]>>

-----------------------------------------------------------------------------
(* cfg is the cap configuration when the scan began and saved whether its *)
(* write put the whole JSON in the file: history the code does not keep,   *)
(* used to state what the scan promises.                                   *)
Idle == [pc |-> "unused", creds |-> FALSE, cfg |-> NIL, vim |-> FALSE, idx |-> 1,
         count |-> 0, recs |-> <<>>, cats |-> <<>>, saved |-> FALSE]

Init ==
    /\ up = TRUE
    /\ crashes = 0
    /\ thr = [t \in Threads |-> Idle]
    /\ capCfg \in CapConfigs /\ capEdits = 0
    /\ timeout_sec \in {EnvOr20(e) : e \in TimeoutSettings}
    /\ \/ file = [exists |-> FALSE, content |-> <<>>] /\ whole = NIL
       \/ file = [exists |-> TRUE, content |-> Serialize(PrevRecs)] /\ whole = PrevRecs

(* What GET /results (lines 26-59) may answer in the current state, none   *)
(* while the process is down: the file's bytes verbatim with 200, 500 if   *)
(* File.read raises, 202 when there *)
(* is no file, 405 for another method.  Answering changes nothing.         *)
ResultsResponses(m) ==
    IF ~up THEN {}
    ELSE IF m # "GET" THEN {[status |-> 405, body |-> <<>>]}
    ELSE IF file.exists THEN {[status |-> 200, body |-> file.content],
                              [status |-> 500, body |-> <<>>]}
    ELSE {[status |-> 202, body |-> <<>>]}

(* The status POST /init_scan (lines 61-167) answers for a method and a    *)
(* body.  A parse error sets 400 and then runs `return` inside the proc on *)
(* a WEBrick thread, which Ruby turns into a LocalJumpError that line 155  *)
(* rescues as 500; TypeErrors from JSON.parse(nil) or Array#[] are 500.    *)
(* Only the 200 path changes state: it starts the scan thread.             *)
InitScanStatus(m, b) ==
    CASE m # "POST"                 -> 405
      [] b \in {"Malformed", "Absent", "Array"} -> 500
      [] OTHER                      -> 200

(* POST /init_scan answering 200 and running Thread.new (lines 77-82).     *)
InitScan ==
    /\ up
    /\ \E m \in Methods, b \in Bodies, t \in Threads :
         /\ InitScanStatus(m, b) = 200
         /\ thr[t].pc \in {"unused", "done", "killed"}
         /\ thr' = [thr EXCEPT ![t] = [Idle EXCEPT !.pc = "connect",
                                         !.creds = (b = "Full"), !.cfg = capCfg]]
    /\ UNCHANGED <<up, crashes, file, whole, capCfg, capEdits, timeout_sec>>

(* MiqVim.new (line 86); only complete credentials can log in.  A failure *)
(* is rescued and logged; vim is nil so the ensure does nothing.           *)
Connect(t) ==
    /\ up /\ thr[t].pc = "connect"
    /\ \/ thr[t].creds
          /\ thr' = [thr EXCEPT ![t].pc = "list", ![t].vim = TRUE]
       \/ thr' = [thr EXCEPT ![t].pc = "done"]
    /\ UNCHANGED <<up, crashes, file, whole, capCfg, capEdits, timeout_sec>>

(* vim.virtualMachines (lines 93, 96): listing may raise, which skips to   *)
(* the ensure that disconnects.                                            *)
List(t) ==
    /\ up /\ thr[t].pc = "list"
    /\ \/ thr' = [thr EXCEPT ![t].pc = "vm", ![t].idx = 1, ![t].count = 0,
                             ![t].recs = <<>>]
       \/ thr' = [thr EXCEPT ![t].pc = "disconnect"]
    /\ UNCHANGED <<up, crashes, file, whole, capCfg, capEdits, timeout_sec>>

(* Mutant of NextVM: vm_count also counts VMs skipped for an empty path.   *)
NextVMCountsSkipped(t) ==
    LET s == thr[t]
        v == VMs[s.idx]
        max == max_vms_to_scan(capCfg)
    IN
    /\ up /\ s.pc = "vm"
    /\ IF s.idx > Len(VMs) \/ (max # NIL /\ s.count >= max)
       THEN thr' = [thr EXCEPT ![t].pc = "write_open"]
       ELSE IF Skipped(v)
       THEN thr' = [thr EXCEPT ![t].idx = s.idx + 1, ![t].count = s.count + 1]
       ELSE thr' = [thr EXCEPT ![t].pc = "open"]
    /\ UNCHANGED <<up, crashes, file, whole, capCfg, capEdits, timeout_sec>>

(* The head of one turn of vim.virtualMachines.each (lines 96-103): the    *)
(* end of the list, the cap break, the empty-path skip (vm_count           *)
(* unchanged), or on to open the VM.                                       *)
NextVM(t) ==
    LET s == thr[t]
        v == VMs[s.idx]
        max == max_vms_to_scan(capCfg)
    IN
    /\ up /\ s.pc = "vm"
    /\ IF s.idx > Len(VMs) \/ (max # NIL /\ s.count >= max)
       THEN thr' = [thr EXCEPT ![t].pc = "write_open"]
       ELSE IF Skipped(v)
       THEN thr' = [thr EXCEPT ![t].idx = s.idx + 1]
       ELSE thr' = [thr EXCEPT ![t].pc = "open"]
    /\ UNCHANGED <<up, crashes, file, whole, capCfg, capEdits, timeout_sec>>

(* MiqVm.new(ds_path, ost) (lines 105-107), a call into the library that  *)
(* may fail: the rescue at 130-137 records the error and counts the VM.    *)
OpenVM(t) ==
    LET s == thr[t]
        v == VMs[s.idx]
    IN
    /\ up /\ s.pc = "open"
    /\ \/ thr' = [thr EXCEPT ![t].pc = "extract", ![t].cats = <<>>]
       \/ thr' = [thr EXCEPT ![t].pc = "vm",
                     ![t].recs = Append(s.recs, [vm_name |-> v,
                                  datastore_path |-> DsPath[v], error |-> "OpenError"]),
                     ![t].count = s.count + 1, ![t].idx = s.idx + 1]
    /\ UNCHANGED <<up, crashes, file, whole, capCfg, capEdits, timeout_sec>>

(* Mutant of FinishCategory: the loop runs one category past the list.    *)
FinishCategoryOffByOne(t, o) ==
    LET s == thr[t]
        v == VMs[s.idx]
        cats == Append(s.cats, o)
    IN IF Len(cats) <= Len(CATEGORIES)
       THEN thr' = [thr EXCEPT ![t].cats = cats]
       ELSE thr' = [thr EXCEPT ![t].pc = "vm", ![t].cats = <<>>,
                      ![t].recs = Append(s.recs, [vm_name |-> v,
                         datastore_path |-> DsPath[v], categories |-> cats]),
                      ![t].count = s.count + 1, ![t].idx = s.idx + 1]

(* The category loop body (lines 110-123) once the category's outcome is  *)
(* known; after the last category the VM's hash is appended (125-129).    *)
FinishCategory(t, o) ==
    LET s == thr[t]
        v == VMs[s.idx]
        cats == Append(s.cats, o)
    IN IF Len(cats) < Len(CATEGORIES)
       THEN thr' = [thr EXCEPT ![t].cats = cats]
       ELSE thr' = [thr EXCEPT ![t].pc = "vm", ![t].cats = <<>>,
                      ![t].recs = Append(s.recs, [vm_name |-> v,
                         datastore_path |-> DsPath[v], categories |-> cats]),
                      ![t].count = s.count + 1, ![t].idx = s.idx + 1]

(* vm.extract(cat) returns data or raises (lines 113-114, 120-121).  The   *)
(* library call may also never return.  It runs only under a numeric timer. *)
ExtractReturns(t) ==
    /\ up /\ thr[t].pc = "extract" /\ timeout_sec.class = "Integer"
    /\ \E o \in {"Data", "ExtractError"} : FinishCategory(t, o)
    /\ UNCHANGED <<up, crashes, file, whole, capCfg, capEdits, timeout_sec>>

(* Mutant of ExtractTimesOut: the extraction is called without a timer.   *)
ExtractWithoutTimer(t) == FALSE

(* Timeout.timeout(timeout_sec) raises into the thread (lines 112, 116).   *)
ExtractTimesOut(t) ==
    /\ up /\ thr[t].pc = "extract" /\ timeout_sec.class = "Integer"
    /\ FinishCategory(t, "Timeout")
    /\ UNCHANGED <<up, crashes, file, whole, capCfg, capEdits, timeout_sec>>

(* A set variable makes timeout_sec a String (line 19).  Timeout.timeout   *)
(* tests `sec.zero?` (or `0 > sec` in later versions of the gem) before it *)
(* yields, so it raises NoMethodError or ArgumentError without calling the *)
(* block; the rescue at lines 120-121 records the message as the category. *)
TimerRejectsSetting(t) ==
    /\ up /\ thr[t].pc = "extract" /\ timeout_sec.class = "String"
    /\ FinishCategory(t, "TimerError")
    /\ UNCHANGED <<up, crashes, file, whole, capCfg, capEdits, timeout_sec>>

(* File.open(results_file_path, 'w') (line 145): create and truncate.      *)
WriteOpen(t) ==
    /\ up /\ thr[t].pc = "write_open"
    /\ \/ /\ file' = [exists |-> TRUE, content |-> <<>>] /\ whole' = NIL
          /\ thr' = [thr EXCEPT ![t].pc = "write"]
       \/ /\ WriteMayFail
          /\ thr' = [thr EXCEPT ![t].pc = "disconnect"] /\ UNCHANGED <<file, whole>>
    /\ UNCHANGED <<up, crashes, capCfg, capEdits, timeout_sec>>

(* file.write(JSON.pretty_generate(...)) (line 146) at offset 0; ENOSPC    *)
(* leaves a prefix.  Either way the ensure disconnects next.               *)
Write(t) ==
    LET ser == Serialize(thr[t].recs) IN
    /\ up /\ thr[t].pc = "write"
    /\ \E k \in IF WriteMayFail THEN 0..Len(ser) ELSE {Len(ser)} :
         LET new == Overlay(file.content, SubSeq(ser, 1, k)) IN
         /\ file' = [file EXCEPT !.content = new]
         /\ whole' = CASE new = ser                                -> thr[t].recs
                       [] whole # NIL /\ new = Serialize(whole) -> whole
                       [] OTHER                                    -> NIL
         /\ thr' = [thr EXCEPT ![t].pc = "disconnect", ![t].saved = (k = Len(ser))]
    /\ UNCHANGED <<up, crashes, capCfg, capEdits, timeout_sec>>

(* Mutant of Disconnect: the ensure does not close the session.            *)
DisconnectKeepsSession(t) ==
    /\ up /\ thr[t].pc = "disconnect"
    /\ thr' = [thr EXCEPT ![t].pc = "done"]
    /\ UNCHANGED <<up, crashes, file, whole, capCfg, capEdits, timeout_sec>>

(* ensure vim.disconnect if vim (line 151).                                *)
Disconnect(t) ==
    /\ up /\ thr[t].pc = "disconnect"
    /\ thr' = [thr EXCEPT ![t].pc = "done", ![t].vim = FALSE]
    /\ UNCHANGED <<up, crashes, file, whole, capCfg, capEdits, timeout_sec>>

(* The process is killed (SIGKILL, OOM, a host failure; no code of the     *)
(* repository): every running thread dies where it stands, its vCenter     *)
(* session left open; the file keeps what it holds.                        *)
Crash ==
    /\ up /\ crashes < MaxCrashes
    /\ up' = FALSE /\ crashes' = crashes + 1
    /\ thr' = [t \in Threads |-> IF thr[t].pc \in Running
                                 THEN [thr[t] EXCEPT !.pc = "killed"] ELSE thr[t]]
    /\ UNCHANGED <<file, whole, capCfg, capEdits, timeout_sec>>

(* Ctrl+C (trap 'INT', lines 174-176): server.shutdown makes server.start *)
(* (179) return, the main thread ends, and Ruby kills the other threads,   *)
(* running their ensure: each running scan disconnects and dies there.     *)
Shutdown ==
    /\ up /\ crashes < MaxCrashes
    /\ up' = FALSE /\ crashes' = crashes + 1
    /\ thr' = [t \in Threads |-> IF thr[t].pc \in Running
                                 THEN [thr[t] EXCEPT !.pc = "killed", !.vim = FALSE]
                                 ELSE thr[t]]
    /\ UNCHANGED <<file, whole, capCfg, capEdits, timeout_sec>>

(* The service is started again (server.start, line 179).                  *)
Restart ==
    /\ ~up
    /\ up' = TRUE
    /\ UNCHANGED <<crashes, thr, file, whole, capCfg, capEdits, timeout_sec>>

(* An operator writes or removes max_vms_to_scan.txt (line 170 reads it    *)
(* afresh on every call; MAX_VMS_TO_SCAN is fixed for the process).        *)
EditCapFile ==
    /\ capEdits < MaxCapEdits
    /\ \E f \in (CapFiles \cup {NoFile}) \ {capCfg.file} :
         capCfg' = [capCfg EXCEPT !.file = f]
    /\ capEdits' = capEdits + 1
    /\ UNCHANGED <<up, crashes, thr, file, whole, timeout_sec>>

(* The steps a thread takes in Ruby itself, the extraction timer included. *)
ThreadStep(t) ==
    \/ NextVM(t) \/ ExtractTimesOut(t) \/ TimerRejectsSetting(t)
    \/ WriteOpen(t) \/ Write(t)

(* The calls into the inventory library (vCenter over the network): none   *)
(* has a timer, so none is bound to return.                                *)
LibraryCall(t) == Connect(t) \/ List(t) \/ OpenVM(t) \/ Disconnect(t)

Next ==
    \/ InitScan \/ Crash \/ Shutdown \/ Restart \/ EditCapFile
    \/ \E t \in Threads : ThreadStep(t) \/ LibraryCall(t) \/ ExtractReturns(t)

(* Ruby schedules every live thread, and the Timeout thread interrupts an  *)
(* extraction that overruns; nothing makes a library call return.          *)
Fairness == \A t \in Threads : WF_vars(ThreadStep(t))

(* The assumption under which a scan ends: every library call returns.     *)
LibraryAnswers == \A t \in Threads : WF_vars(LibraryCall(t))

Spec == Init /\ [][Next]_vars /\ Fairness

-----------------------------------------------------------------------------
VMRecord ==
    [vm_name : VM, datastore_path : {DsPath[v] : v \in VM}, error : {"OpenError"}]
    \cup [vm_name : VM, datastore_path : {DsPath[v] : v \in VM},
          categories : SeqOf(Outcomes, Len(CATEGORIES))]

CapSettings ==
    [file : {c.file : c \in CapConfigs} \cup CapFiles \cup {NoFile},
     env : {c.env : c \in CapConfigs}]

ThreadState ==
    [pc : Running \cup {"unused", "done", "killed"}, creds : BOOLEAN,
     cfg : CapSettings \cup {NIL}, vim : BOOLEAN, idx : 1..Len(VMs) + 1,
     count : 0..Len(VMs), recs : Seq(VMRecord),
     cats : SeqOf(Outcomes, Len(CATEGORIES)), saved : BOOLEAN]

TypeOK ==
    /\ up \in BOOLEAN /\ crashes \in 0..MaxCrashes
    /\ thr \in [Threads -> ThreadState]
    /\ \A t \in Threads : Len(thr[t].recs) <= Len(VMs)
    /\ file.exists \in BOOLEAN
    /\ capCfg \in CapSettings
    /\ capEdits \in 0..MaxCapEdits
    /\ timeout_sec \in {EnvOr20(e) : e \in TimeoutSettings}

(* The VMs a finished loop must have recorded: the eligible ones in        *)
(* enumeration order, cut at the cap (a cap of zero or below, which is     *)
(* what a non-numeric text gives, records none).                           *)
Eligible == SelectSeq(VMs, LAMBDA v : ~Skipped(v))
ExpectedNames(cfg) ==
    LET max == max_vms_to_scan(cfg) IN
    IF max = NIL THEN Eligible
    ELSE SubSeq(Eligible, 1, IF max < 0 THEN 0
                             ELSE IF max < Len(Eligible) THEN max ELSE Len(Eligible))

Names(recs) == [i \in 1..Len(recs) |-> recs[i].vm_name]

(* Every scan that reaches the write hands over records of eligible VMs   *)
(* only, in enumeration order with none left out before the last, each     *)
(* holding every category or a top-level error; and when the cap file was  *)
(* not edited while it ran, exactly one record per eligible VM up to the  *)
(* cap: the loop's counting, skipping, cap break and per-category rescue   *)
(* together.  (With at most one edit, capCfg = cfg says none happened      *)
(* during the scan.)                                                       *)
ScanResultIsCappedPrefix ==
    \A t \in Threads :
      thr[t].pc \in {"write_open", "write"} =>
        /\ IsPrefix(Names(thr[t].recs), Eligible)
        /\ capCfg = thr[t].cfg => Names(thr[t].recs) = ExpectedNames(thr[t].cfg)
        /\ \A i \in 1..Len(thr[t].recs) :
             "categories" \in DOMAIN thr[t].recs[i] =>
                Len(thr[t].recs[i].categories) = Len(CATEGORIES)

(* A 200 from GET /results carries one scan's complete JSON (spec 4.3: a  *)
(* reader never observes a partially written result), however the reads   *)
(* fall between the truncate at line 145 and the write at line 146.       *)
ReadsSeeWholeResult ==
    \A r \in ResultsResponses("GET") :
      r.status = 200 => whole # NIL /\ r.body = Serialize(whole)

(* Once no scan is running (each never started, ended, or died with the    *)
(* process), an existing result file holds one scan's complete result:     *)
(* the spec's "exactly one job's result is ever persisted" (section 8) and *)
(* the atomic replace of 4.3, against racing scans, a crash between the    *)
(* truncate and the write, and a short write.                              *)
SettledFileHoldsOneResult ==
    (\A t \in Threads : thr[t].pc \in {"unused", "done", "killed"}) /\ file.exists
        => whole # NIL /\ file.content = Serialize(whole)

-----------------------------------------------------------------------------
(* The scan thread seen as the job of ScanJob: its status from the program *)
(* counter (Completed when the whole JSON was written), its session from   *)
(* vim, and the records it wrote.  A job may hand over one record per *)
(* VM the cap at its start allows, each with every category or an error.  *)
RecordsFor(v) ==
    {[vm_name |-> v, datastore_path |-> DsPath[v], error |-> "OpenError"]}
    \cup {[vm_name |-> v, datastore_path |-> DsPath[v], categories |-> c] :
            c \in [1..Len(CATEGORIES) -> Outcomes]}
JobResults(cfg) ==
    LET n == ExpectedNames(cfg) IN
    {r \in [1..Len(n) -> UNION {RecordsFor(n[i]) : i \in 1..Len(n)}] :
        \A i \in 1..Len(n) : r[i].vm_name = n[i]}
JobView ==
    [t \in Threads |->
       [status  |-> CASE thr[t].pc = "unused" -> "Idle"
                      [] thr[t].pc = "killed" -> "Killed"
                      [] thr[t].pc = "done"   -> IF thr[t].saved THEN "Completed"
                                                                 ELSE "Failed"
                      [] OTHER                -> "Running",
        cfg     |-> thr[t].cfg,
        session |-> thr[t].vim,
        result  |-> IF thr[t].saved THEN thr[t].recs ELSE NIL]]

SJ == INSTANCE ScanJob WITH job <- JobView, Configs <- CapConfigs, Results <- JobResults

(* The scan thread implements the safety of the scan job: it connects      *)
(* before it writes, writes at most one result and only the records the    *)
(* cap at its start admits, in order, and the ensure has closed the        *)
(* session by the time the job ends, whether it completed, failed or was   *)
(* stopped with Ctrl+C.                                                    *)
ImplementsScanJob == SJ!Safety

(* If every call into the library returns, every started scan leaves       *)
(* Running: the Timeout thread bounds a hung extraction, and no other step *)
(* of the thread waits.                                                    *)
ScanEndsWhenLibraryAnswers == LibraryAnswers => SJ!Liveness
=============================================================================
