----------------------------- MODULE DisasmFiles -----------------------------
(***************************************************************************)
(* The files of Disasm (src/src/disasm.cc): every compilation of a         *)
(* function writes a file named after the function and the clock, and      *)
(* makes a symbolic link named after the function lead to it.  Processes   *)
(* that run functions of one name share the link, and the file when they   *)
(* read the clock in the same millisecond.  Nothing locks either.          *)
(*                                                                         *)
(* One step is one system call.  A process that has died stays dead: an    *)
(* exception of std::filesystem passes through CPython's frames and ends   *)
(* the process, and so does fprintf after an fopen that failed.            *)
(***************************************************************************)
EXTENDS Integers

CONSTANTS
  Processes,     \* processes that run a function of this name
  MaxListings,   \* bound: how often each one compiles it
  MaxClock,      \* bound: milliseconds that pass
  Chunks         \* writes it takes to put a listing into the file

ASSUME FilesAssumption ==
  /\ MaxListings \in [Processes -> Nat]
  /\ MaxClock \in Nat
  /\ Chunks \in Nat \ {0}

VARIABLES
  clock,     \* system_clock::now() in milliseconds
  link,      \* disasm_sym: where it leads and which listing made it
  files,     \* the disasm_files: contents by the clock in their name
  pc,        \* the next system call of each process
  count,     \* how many listings each process has begun
  stamp,     \* now_str of its listing
  written,   \* how many chunks of it are written
  printed,   \* the listing printed last: whose it was to be, and what it was
  saw,       \* history: the link it found, and whether that led to a file
  openers    \* history: the listings that opened each file

vars == <<clock, link, files, pc, count, stamp, written, printed, saw, openers>>

Stamps    == 0 .. MaxClock
Me(p)     == <<p, count[p]>>
Listings  == Processes \X (Nat \ {0})
Nobody    == <<"nobody", 0>>
NoLink    == [to |-> -1, by |-> Nobody]
Links     == [to : Stamps, by : Listings]

SawNothing == [link |-> NoLink, led |-> FALSE]

\* A file's contents: which listing each chunk of it is from.  A process writes at
\* its own position, so a file truncated in between has a hole.
Whole(who) == [n \in 1 .. Chunks |-> who]

Init ==
  /\ clock = 0
  /\ link = NoLink
  /\ files = [s \in {} |-> <<>>]
  /\ pc = [p \in Processes |-> "idle"]
  /\ count = [p \in Processes |-> 0]
  /\ stamp = [p \in Processes |-> 0]
  /\ written = [p \in Processes |-> 0]
  /\ printed = [by |-> Nobody, chunks |-> <<>>]
  /\ saw = [p \in Processes |-> SawNothing]
  /\ openers = [s \in Stamps |-> {}]

With(f, x, y) == [z \in DOMAIN f \cup {x} |-> IF z = x THEN y ELSE f[z]]

-----------------------------------------------------------------------------
Goes(p, from, to) == pc[p] = from /\ pc' = [pc EXCEPT ![p] = to]

\* Disasm returns, or does not: its local variables are gone.
Leaves(p, to) ==
  /\ pc' = [pc EXCEPT ![p] = to]
  /\ stamp' = [stamp EXCEPT ![p] = 0]
  /\ written' = [written EXCEPT ![p] = 0]
  /\ saw' = [saw EXCEPT ![p] = SawNothing]

\* now_str; the names of file and link follow from it.
ReadClock(p) ==
  /\ Goes(p, "idle", "exists")
  /\ count[p] < MaxListings[p]
  /\ count' = [count EXCEPT ![p] = @ + 1]
  /\ stamp' = [stamp EXCEPT ![p] = clock]
  /\ UNCHANGED <<clock, link, files, written, printed, saw, openers>>

\* exists() follows the link: FALSE when it dangles.
Leads(l)         == l # NoLink /\ l.to \in DOMAIN files
\* Mutant: asks about the file instead of the link.
FoundFile(p)     == stamp[p] \in DOMAIN files
Found(p)         == Leads(link)

Exists(p) ==
  /\ Goes(p, "exists", IF Found(p) THEN "remove" ELSE "symlink")
  /\ saw' = [saw EXCEPT ![p] = [link |-> link, led |-> Leads(link)]]
  /\ UNCHANGED <<clock, link, files, count, stamp, written, printed, openers>>

\* Mutant: the old listing goes, too.
RemoveBoth(p) ==
  /\ Goes(p, "remove", "symlink")
  /\ files' = [s \in DOMAIN files \ {link.to} |-> files[s]]
  /\ link' = NoLink
  /\ UNCHANGED <<clock, count, stamp, written, printed, saw, openers>>
\* remove() of what is no longer there is no error.
Remove(p) ==
  /\ Goes(p, "remove", "symlink")
  /\ link' = NoLink
  /\ UNCHANGED <<clock, files, count, stamp, written, printed, saw, openers>>

\* Mutant: the clock is read a second time for the target.
TargetReadAgain(p) == clock
Target(p)          == stamp[p]

CreateSymlink(p) ==
  /\ link = NoLink
  /\ Goes(p, "symlink", "open")
  /\ link' = [to |-> Target(p), by |-> Me(p)]
  /\ UNCHANGED <<clock, files, count, stamp, written, printed, saw, openers>>

\* EEXIST, also when the link dangles.
CreateThrows(p) ==
  /\ link # NoLink
  /\ pc[p] = "symlink"
  /\ Leaves(p, "thrown")
  /\ UNCHANGED <<clock, link, files, count, printed, openers>>

\* fopen(disasm_file, "w") empties the file if there is one.
Open(p) ==
  /\ Goes(p, "open", "write")
  /\ files' = With(files, stamp[p], <<>>)
  /\ openers' = [openers EXCEPT ![stamp[p]] = @ \cup {Me(p)}]
  /\ written' = [written EXCEPT ![p] = 0]
  /\ UNCHANGED <<clock, link, count, stamp, printed, saw>>

\* The C library writes its buffer when it is full and in fclose.
Write(p) ==
  /\ Goes(p, "write", IF written[p] + 1 = Chunks THEN "dump" ELSE "write")
  /\ files' = [files EXCEPT ![stamp[p]] = With(@, written[p] + 1, Me(p))]
  /\ written' = [written EXCEPT ![p] = @ + 1]
  /\ UNCHANGED <<clock, link, count, stamp, printed, saw, openers>>

\* Mutant: reads through the link.
ReadFromLink(p) == IF Leads(link) THEN link.to ELSE stamp[p]
ReadFrom(p)     == stamp[p]

\* The ifstream at the end, and back to RaijitEvalFrame.
Dump(p) ==
  /\ pc[p] = "dump"
  /\ printed' = [by |-> Me(p), chunks |-> files[ReadFrom(p)]]
  /\ Leaves(p, "idle")
  /\ UNCHANGED <<clock, link, files, count, openers>>

\* The process is killed in the middle, or fopen returns NULL.
Die(p) ==
  /\ pc[p] \notin {"idle", "thrown", "killed"}
  /\ Leaves(p, "killed")
  /\ UNCHANGED <<clock, link, files, count, printed, openers>>

Tick ==
  /\ clock < MaxClock
  /\ clock' = clock + 1
  /\ UNCHANGED <<link, files, pc, count, stamp, written, printed, saw, openers>>

Call(p) == \/ Exists(p) \/ Remove(p) \/ CreateSymlink(p) \/ CreateThrows(p)
           \/ Open(p) \/ Write(p) \/ Dump(p)

Next == Tick \/ \E p \in Processes : ReadClock(p) \/ Call(p) \/ Die(p)

\* A process in the middle of Disasm goes on unless it dies: it waits for nothing.
Spec == Init /\ [][Next]_vars /\ \A p \in Processes : WF_vars(Call(p))
-----------------------------------------------------------------------------
(***************************************************************************)
(* Properties.                                                             *)
(***************************************************************************)

Steps == {"idle", "exists", "remove", "symlink", "open", "write", "dump", "thrown", "killed"}

\* The types of the files and of the processes' progress; a process that writes has
\* its file, whatever the others do.
FilesTypeOK ==
  /\ clock \in Stamps
  /\ link \in Links \cup {NoLink}
  /\ DOMAIN files \subseteq Stamps
  /\ pc \in [Processes -> Steps]
  /\ count \in [Processes -> Nat]
  /\ stamp \in [Processes -> Stamps]
  /\ written \in [Processes -> 0 .. Chunks]
  /\ saw \in [Processes -> [link : Links \cup {NoLink}, led : BOOLEAN]]
  /\ openers \in [Stamps -> SUBSET Listings]
  /\ \A p \in Processes : pc[p] \in {"write", "dump"} => stamp[p] \in DOMAIN files
  /\ \A p \in Processes : pc[p] \notin {"idle", "killed"} => count[p] > 0

\* The listing is the one its process is at, and not yet complete.
Unfinished(who) ==
  /\ count[who[1]] = who[2]
  /\ pc[who[1]] \in {"open", "write", "killed"}

\* Whoever opens the link while others replace it: it dangles only as long as its
\* maker has not come to fopen, or when it died before, and once its maker is done
\* it leads to the maker's listing, whole, unless another listing had the same name.
LinkLeads ==
  link # NoLink =>
    /\ ~Leads(link) => Unfinished(link.by) /\ pc[link.by[1]] # "write"
    /\ Leads(link) /\ openers[link.to] = {link.by} /\ ~Unfinished(link.by) =>
         files[link.to] = Whole(link.by)

\* A process prints its own listing, complete, whatever the others do to the link,
\* unless another listing had the same name.
PrintsOwnListing ==
  [][\A p \in Processes :
       pc[p] = "dump" /\ pc'[p] = "idle" /\ openers[stamp[p]] = {Me(p)} =>
         printed' = [by |-> Me(p), chunks |-> Whole(Me(p))]]_vars

\* create_symlink throws only over a link another process made, and only if it was
\* made after this one had looked, or dangled when it looked: a process alone
\* never stumbles over what it left behind itself.
TripsOverOthersOnly ==
  [][\A p \in Processes :
       pc[p] # "thrown" /\ pc'[p] = "thrown" =>
         /\ link.by[1] # p
         /\ link # saw[p].link \/ ~saw[p].led]_vars

\* Unless a process dies in the middle, the races over the link leave one in the
\* end that leads to a file.
NobodyKilled == \A p \in Processes : pc[p] # "killed"
SettlesOnAListing ==
  []NobodyKilled /\ <>(\E p \in Processes : count[p] > 0) => <>[]Leads(link)
=============================================================================
