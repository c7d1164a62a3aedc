-------------------------- MODULE DisasmFilesProofs --------------------------
(***************************************************************************)
(* Proofs about DisasmFiles for any set of processes, number of listings,  *)
(* clock and size of a listing.                                            *)
(***************************************************************************)
EXTENDS DisasmFiles, SequenceTheorems, TLAPS

\* The listing has made its link, or never will.
Past(who) ==
  \/ who[2] < count[who[1]]
  \/ who[2] = count[who[1]] /\ pc[who[1]] \notin {"exists", "remove", "symlink"}

\* A file is there once it was opened; one that nobody else opened holds what its
\* listing has written.
FilesOpened ==
  /\ DOMAIN files = {s \in Stamps : openers[s] # {}}
  /\ \A p \in Processes : pc[p] \in {"write", "dump"} =>
       /\ Me(p) \in openers[stamp[p]]
       /\ openers[stamp[p]] = {Me(p)} => files[stamp[p]] = [n \in 1 .. written[p] |-> Me(p)]
       /\ written[p] < Chunks <=> pc[p] = "write"

\* A link leads to the file its listing opens, unless that dies before.
LinkMade ==
  link # NoLink =>
    /\ Past(link.by)
    /\ \A p \in Processes :
         link.by = Me(p) /\ pc[p] \in {"open", "write", "dump"} => link.to = stamp[p]
    /\ \/ link.by \in openers[link.to]
       \/ \E p \in Processes : link.by = Me(p) /\ pc[p] \in {"open", "killed"}

\* The link a finished listing made leads to that listing.
LinkWhole ==
  link # NoLink /\ openers[link.to] = {link.by} /\ ~Unfinished(link.by) =>
    files[link.to] = Whole(link.by)

\* Before it makes its link, a process finds none of its own, and none that it has
\* removed.
LooksInv ==
  \A p \in Processes :
    /\ pc[p] = "symlink" /\ link # NoLink => link.by[1] # p
    /\ pc[p] = "remove" => saw[p].led
    /\ pc[p] \in {"remove", "symlink"} /\ saw[p].led =>
         saw[p].link # NoLink /\ Past(saw[p].link.by)
    /\ pc[p] = "symlink" /\ saw[p].led => link # saw[p].link

\* The inductive invariant.
FilesInv == FilesTypeOK /\ FilesOpened /\ LinkMade /\ LinkWhole /\ LooksInv

-----------------------------------------------------------------------------
\* Facts about data.

LEMMA LinkTypes ==
  ASSUME FilesTypeOK, link # NoLink
  PROVE  link \in Links /\ link.by \in Listings /\ link.to \in Stamps
  BY DEF FilesTypeOK, Links

LEMMA RealLink ==
  ASSUME NEW s \in Stamps, NEW who
  PROVE  [to |-> s, by |-> who] # NoLink
<1>1. [to |-> s, by |-> who].to = s /\ NoLink.to = -1
  BY DEF NoLink
<1> QED BY <1>1, FilesAssumption DEF Stamps

LEMMA EmptyFile ==
  ASSUME NEW who
  PROVE  <<>> = [n \in 1 .. 0 |-> who]
<1>1. [n \in 1 .. 0 |-> who] \in Seq({who}) /\ Len([n \in 1 .. 0 |-> who]) = 0
  OBVIOUS
<1> QED BY <1>1, EmptySeq

LEMMA LongerFile ==
  ASSUME NEW k \in Nat, NEW who
  PROVE  With([n \in 1 .. k |-> who], k + 1, who) = [n \in 1 .. k + 1 |-> who]
<1>1. (1 .. k) \cup {k + 1} = 1 .. k + 1
  OBVIOUS
<1>2. DOMAIN [n \in 1 .. k |-> who] = 1 .. k
  OBVIOUS
<1>3. \A z \in 1 .. k + 1 :
        (IF z = k + 1 THEN who ELSE [n \in 1 .. k |-> who][z]) = who
  OBVIOUS
<1> QED BY <1>1, <1>2, <1>3 DEF With

LEMMA Init_FilesInv == Init => FilesInv
<1> SUFFICES ASSUME Init PROVE FilesInv
  OBVIOUS
<1>1. FilesTypeOK
  BY FilesAssumption DEF Init, FilesTypeOK, Stamps, Steps, SawNothing
<1>2. FilesOpened /\ LinkMade /\ LinkWhole /\ LooksInv
  BY DEF Init, FilesOpened, LinkMade, LinkWhole, LooksInv
<1> QED BY <1>1, <1>2 DEF FilesInv

-----------------------------------------------------------------------------
\* One lemma per action: it preserves the invariant.

LEMMA ReadClock_FilesInv ==
  ASSUME FilesInv, NEW p \in Processes, ReadClock(p)
  PROVE  FilesInv'
<1> USE DEF FilesInv
<1>1. /\ pc[p] = "idle" /\ pc' = [pc EXCEPT ![p] = "exists"]
      /\ count' = [count EXCEPT ![p] = @ + 1]
      /\ stamp' = [stamp EXCEPT ![p] = clock]
      /\ UNCHANGED <<clock, link, files, written, printed, saw, openers>>
  BY DEF ReadClock, Goes
<1>2. FilesTypeOK'
  BY <1>1 DEF FilesTypeOK, Steps
<1>3. /\ pc'[p] = "exists" /\ count'[p] = count[p] + 1 /\ count[p] \in Nat
      /\ \A q \in Processes : q # p => pc'[q] = pc[q] /\ Me(q)' = Me(q) /\ stamp'[q] = stamp[q]
  BY <1>1 DEF FilesTypeOK, Me
<1>4. FilesOpened'
  BY <1>1, <1>3 DEF FilesOpened
<1>5. ASSUME NEW who \in Listings, Past(who)
      PROVE  Past(who)' /\ who # Me(p)'
  BY <1>1, <1>3, <1>5 DEF Past, Listings, Me, FilesTypeOK
<1>6. LinkMade'
  BY <1>1, <1>3, <1>5, LinkTypes DEF LinkMade, Me
<1>7. LinkWhole'
  BY <1>1, <1>3, <1>5, LinkTypes DEF LinkWhole, LinkMade, Unfinished, Listings
<1>8. LooksInv'
  BY <1>1, <1>3, <1>5 DEF LooksInv, FilesTypeOK, Links
<1> QED BY <1>2, <1>4, <1>6, <1>7, <1>8

\* When only p's place in Disasm changes, and not to where a link or a file of its
\* own is due.
LEMMA PcOnly ==
  ASSUME FilesInv, NEW p \in Processes, NEW to \in {"remove", "symlink"},
         pc[p] \in {"exists", "remove"},
         pc' = [pc EXCEPT ![p] = to],
         UNCHANGED <<clock, files, count, stamp, written, printed, openers>>
  PROVE  /\ pc'[p] = to
         /\ \A q \in Processes : Me(q)' = Me(q) /\ (q # p => pc'[q] = pc[q])
         /\ \A who \in Listings : Past(who)' <=> Past(who)
         /\ \A q \in Processes : pc'[q] \in {"write", "dump", "open", "killed"} => q # p
         /\ FilesOpened'
<1>1. /\ pc'[p] = to
      /\ \A q \in Processes : Me(q)' = Me(q) /\ (q # p => pc'[q] = pc[q])
  BY DEF FilesInv, FilesTypeOK, Me
<1>2. \A who \in Listings : Past(who)' <=> Past(who)
  BY <1>1 DEF Past, Listings
<1>3. FilesOpened'
  BY <1>1 DEF FilesInv, FilesOpened, Me
<1> QED BY <1>1, <1>2, <1>3

LEMMA Exists_FilesInv ==
  ASSUME FilesInv, NEW p \in Processes, Exists(p)
  PROVE  FilesInv'
<1> USE DEF FilesInv
<1> DEFINE to == IF Found(p) THEN "remove" ELSE "symlink"
<1>1. /\ pc[p] = "exists" /\ pc' = [pc EXCEPT ![p] = to]
      /\ saw' = [saw EXCEPT ![p] = [link |-> link, led |-> Leads(link)]]
      /\ UNCHANGED <<clock, link, files, count, stamp, written, printed, openers>>
  BY DEF Exists, Goes
<1>2. to \in {"remove", "symlink"} /\ Leads(link) \in BOOLEAN /\ (to = "remove" <=> Leads(link))
  BY DEF Found, Leads
<1>3. FilesTypeOK'
  BY <1>1, <1>2 DEF FilesTypeOK, Steps
<1>4. PICK next : next = to
  OBVIOUS
<1> HIDE DEF to
<1>5. /\ pc'[p] = next
      /\ \A q \in Processes : Me(q)' = Me(q) /\ (q # p => pc'[q] = pc[q])
      /\ \A who \in Listings : Past(who)' <=> Past(who)
      /\ FilesOpened'
  <2>1. /\ pc[p] \in {"exists", "remove"} /\ next \in {"remove", "symlink"}
        /\ pc' = [pc EXCEPT ![p] = next]
        /\ UNCHANGED <<clock, files, count, stamp, written, printed, openers>>
    BY <1>1, <1>2, <1>4
  <2> HIDE DEF FilesInv
  <2> QED BY <2>1, PcOnly
<1>6. LinkMade'
  BY <1>1, <1>2, <1>4, <1>5, LinkTypes DEF LinkMade, Me
<1>7. LinkWhole'
  BY <1>1, <1>2, <1>4, <1>5, LinkTypes DEF LinkWhole, Unfinished, Listings
\* A link of its own is an earlier listing's, whose file is there.
<1>8. ASSUME link # NoLink, ~Leads(link)
      PROVE  link.by[1] # p
  <2>1. link.by \in Listings /\ link.to \in Stamps /\ link.to \notin DOMAIN files
    BY <1>8, LinkTypes DEF Leads
  <2>2. PICK q \in Processes : link.by = Me(q) /\ pc[q] \in {"open", "killed"}
    BY <1>8, <2>1 DEF LinkMade, FilesOpened
  <2> QED BY <1>1, <2>2 DEF Me
<1>9. saw'[p] = [link |-> link, led |-> Leads(link)]
      /\ \A q \in Processes : q # p => saw'[q] = saw[q]
  BY <1>1 DEF FilesTypeOK
<1>10. LooksInv'
  <2> SUFFICES ASSUME NEW q \in Processes
      PROVE  /\ pc'[q] = "symlink" /\ link' # NoLink => link'.by[1] # q
             /\ pc'[q] = "remove" => saw'[q].led
             /\ pc'[q] \in {"remove", "symlink"} /\ saw'[q].led =>
                  saw'[q].link # NoLink /\ Past(saw[q].link.by)'
             /\ pc'[q] = "symlink" /\ saw'[q].led => link' # saw'[q].link
    BY DEF LooksInv
  <2>1. CASE q = p
    <3>1. saw'[p].link = link /\ (saw'[p].led <=> Leads(link)) /\ link' = link
      BY <1>1, <1>9
    <3>2. link # NoLink => link.by \in Listings /\ Past(link.by)
      BY LinkTypes DEF LinkMade
    <3>3. Leads(link) => link # NoLink
      BY DEF Leads
    <3>4. pc'[p] = "symlink" => ~Leads(link)
      BY <1>2, <1>4, <1>5
    <3> HIDE DEF FilesInv
    <3> QED BY <1>2, <1>4, <1>5, <1>8, <2>1, <3>1, <3>2, <3>3, <3>4
  <2>2. CASE q # p
    BY <1>1, <1>5, <1>9, <2>2 DEF LooksInv, FilesTypeOK, Links
  <2> QED BY <2>1, <2>2
<1> QED BY <1>3, <1>5, <1>6, <1>7, <1>10

LEMMA Remove_FilesInv ==
  ASSUME FilesInv, NEW p \in Processes, Remove(p)
  PROVE  FilesInv'
<1> USE DEF FilesInv
<1>1. /\ pc[p] = "remove" /\ pc' = [pc EXCEPT ![p] = "symlink"] /\ link' = NoLink
      /\ UNCHANGED <<clock, files, count, stamp, written, printed, saw, openers>>
  BY DEF Remove, Goes
<1>2. FilesTypeOK'
  BY <1>1 DEF FilesTypeOK, Steps
<1>3. /\ pc'[p] = "symlink"
      /\ \A q \in Processes : q # p => pc'[q] = pc[q]
      /\ \A who \in Listings : Past(who)' <=> Past(who)
      /\ FilesOpened'
  <2>1. /\ pc[p] \in {"exists", "remove"} /\ "symlink" \in {"remove", "symlink"}
        /\ UNCHANGED <<clock, files, count, stamp, written, printed, openers>>
    BY <1>1
  <2> HIDE DEF FilesInv
  <2> QED BY <1>1, <2>1, PcOnly
<1>4. LinkMade' /\ LinkWhole'
  BY <1>1 DEF LinkMade, LinkWhole
<1>5. LooksInv'
  BY <1>1, <1>3 DEF LooksInv, FilesTypeOK, Links
<1> QED BY <1>2, <1>3, <1>4, <1>5

LEMMA CreateSymlink_FilesInv ==
  ASSUME FilesInv, NEW p \in Processes, CreateSymlink(p)
  PROVE  FilesInv'
<1> USE DEF FilesInv
<1>1. /\ link = NoLink /\ pc[p] = "symlink" /\ pc' = [pc EXCEPT ![p] = "open"]
      /\ link' = [to |-> stamp[p], by |-> Me(p)]
      /\ UNCHANGED <<clock, files, count, stamp, written, printed, saw, openers>>
  BY DEF CreateSymlink, Goes, Target
<1>2. Me(p) \in Listings /\ stamp[p] \in Stamps /\ Me(p)' = Me(p)
  BY <1>1 DEF FilesTypeOK, Listings, Me
<1>3. FilesTypeOK'
  BY <1>1, <1>2 DEF FilesTypeOK, Steps, Links
<1>4. /\ pc'[p] = "open"
      /\ \A q \in Processes : Me(q)' = Me(q) /\ (q # p => pc'[q] = pc[q])
  BY <1>1 DEF FilesTypeOK, Me
<1>5. /\ \A who \in Listings : Past(who) => Past(who)' /\ who # Me(p)
      /\ Past(Me(p))'
  BY <1>1, <1>4 DEF Past, Listings, Me, FilesTypeOK
<1>6. FilesOpened'
  BY <1>1, <1>4 DEF FilesOpened, Me
<1>7. link'.to = stamp[p] /\ link'.by = Me(p)
  BY <1>1
<1>8. LinkMade'
  BY <1>1, <1>2, <1>4, <1>5, <1>7 DEF LinkMade, Me
<1>9. Unfinished(link.by)'
  BY <1>1, <1>4, <1>7 DEF Unfinished, Me
<1>10. LinkWhole'
  BY <1>9 DEF LinkWhole
<1>11. LooksInv'
  BY <1>1, <1>4, <1>5, <1>7 DEF LooksInv, FilesTypeOK, Links, Me
<1> QED BY <1>3, <1>6, <1>8, <1>10, <1>11

\* When p leaves Disasm.
LEMMA Leaves_FilesInv ==
  ASSUME FilesInv, NEW p \in Processes, NEW to \in {"idle", "thrown", "killed"},
         pc[p] \notin {"idle", "thrown", "killed"}, Leaves(p, to),
         pc[p] \in {"exists", "remove", "open", "write"} => to = "killed",
         UNCHANGED <<clock, link, files, count, openers>>
  PROVE  FilesInv'
<1> USE DEF FilesInv
<1>1. /\ pc' = [pc EXCEPT ![p] = to]
      /\ stamp' = [stamp EXCEPT ![p] = 0]
      /\ written' = [written EXCEPT ![p] = 0]
      /\ saw' = [saw EXCEPT ![p] = SawNothing]
  BY DEF Leaves
<1>2. /\ pc'[p] = to
      /\ \A q \in Processes : Me(q)' = Me(q)
      /\ \A q \in Processes : q # p =>
           pc'[q] = pc[q] /\ stamp'[q] = stamp[q] /\ written'[q] = written[q] /\ saw'[q] = saw[q]
  BY <1>1 DEF FilesTypeOK, Me
<1>3. FilesTypeOK'
  BY <1>1, <1>2, FilesAssumption DEF FilesTypeOK, Steps, SawNothing, Stamps
<1>4. FilesOpened'
  BY <1>2 DEF FilesOpened, Me
<1>5. \A who \in Listings : Past(who) => Past(who)'
  BY <1>2 DEF Past, Listings
<1>6. LinkMade'
  BY <1>2, <1>5, LinkTypes DEF LinkMade, Past, Me
<1>7. LinkWhole'
  BY <1>2, LinkTypes DEF LinkWhole, LinkMade, Past, Unfinished, Listings, Me
<1>8. LooksInv'
  BY <1>2, <1>5 DEF LooksInv, FilesTypeOK, Links
<1> QED BY <1>3, <1>4, <1>6, <1>7, <1>8

LEMMA Open_FilesInv ==
  ASSUME FilesInv, NEW p \in Processes, Open(p)
  PROVE  FilesInv'
<1> USE DEF FilesInv
<1>1. /\ pc[p] = "open" /\ pc' = [pc EXCEPT ![p] = "write"]
      /\ files' = With(files, stamp[p], <<>>)
      /\ openers' = [openers EXCEPT ![stamp[p]] = @ \cup {Me(p)}]
      /\ written' = [written EXCEPT ![p] = 0]
      /\ UNCHANGED <<clock, link, count, stamp, printed, saw>>
  BY DEF Open, Goes
<1>2. Me(p) \in Listings /\ stamp[p] \in Stamps /\ 0 \in 0 .. Chunks /\ 0 < Chunks
  <2>1. 0 \in 0 .. Chunks /\ 0 < Chunks
    BY FilesAssumption
  <2>2. count[p] \in Nat /\ count[p] > 0 /\ stamp[p] \in Stamps
    BY <1>1 DEF FilesTypeOK
  <2> QED BY <2>1, <2>2 DEF Listings, Me
<1>3. /\ DOMAIN files' = DOMAIN files \cup {stamp[p]} /\ files'[stamp[p]] = <<>>
      /\ \A s \in DOMAIN files : s # stamp[p] => files'[s] = files[s]
  BY <1>1 DEF With
<1>4. /\ openers'[stamp[p]] = openers[stamp[p]] \cup {Me(p)}
      /\ \A s \in Stamps : s # stamp[p] => openers'[s] = openers[s]
  BY <1>1, <1>2 DEF FilesTypeOK
<1>5. /\ pc'[p] = "write" /\ written'[p] = 0
      /\ \A q \in Processes : Me(q)' = Me(q)
      /\ \A q \in Processes : q # p => pc'[q] = pc[q] /\ written'[q] = written[q]
  BY <1>1 DEF FilesTypeOK, Me
<1>6. FilesTypeOK'
  BY <1>1, <1>2, <1>3, <1>5 DEF FilesTypeOK, Steps
<1>7. DOMAIN files' = {s \in Stamps : openers'[s] # {}}
  BY <1>2, <1>3, <1>4 DEF FilesOpened
<1>8. FilesOpened'
  <2> SUFFICES ASSUME NEW q \in Processes, pc'[q] \in {"write", "dump"}
      PROVE  /\ Me(q) \in openers'[stamp[q]]
             /\ openers'[stamp[q]] = {Me(q)} => files'[stamp[q]] = [n \in 1 .. written'[q] |-> Me(q)]
             /\ written'[q] < Chunks <=> pc'[q] = "write"
    BY <1>1, <1>5, <1>7 DEF FilesOpened
  <2>1. CASE q = p
    <3>1. files'[stamp[p]] = [n \in 1 .. 0 |-> Me(p)]
      BY <1>3, EmptyFile
    <3> QED BY <1>2, <1>4, <1>5, <2>1, <3>1
  <2>2. CASE q # p
    <3>1. Me(q) # Me(p)
      BY <2>2 DEF Me
    <3>2. stamp[q] \in DOMAIN files /\ stamp[q] \in Stamps
      BY <1>5, <2>2 DEF FilesTypeOK
    <3>3. stamp[q] = stamp[p] => openers'[stamp[q]] # {Me(q)}
      BY <1>4, <3>1
    <3> QED BY <1>3, <1>4, <1>5, <2>2, <3>2, <3>3 DEF FilesOpened
  <2> QED BY <2>1, <2>2
<1>9. \A who \in Listings : Past(who)' <=> Past(who)
  BY <1>1, <1>5 DEF Past, Listings
<1>10. LinkMade'
  <2> SUFFICES ASSUME link # NoLink
               PROVE  /\ Past(link.by)'
                      /\ \A q \in Processes :
                           link.by = Me(q) /\ pc'[q] \in {"open", "write", "dump"} =>
                             link.to = stamp[q]
                      /\ \/ link.by \in openers'[link.to]
                         \/ \E q \in Processes : link.by = Me(q) /\ pc'[q] \in {"open", "killed"}
    BY <1>1, <1>5 DEF LinkMade
  <2>1. link.to \in Stamps /\ link.by \in Listings
    BY LinkTypes
  <2>2. Past(link.by)'
    <3> PICK who : who = link.by
      OBVIOUS
    <3>1. Past(who)'
      BY <1>9, <2>1 DEF LinkMade
    <3>2. link' = link
      BY <1>1
    <3> QED BY <3>1, <3>2 DEF Past
  <2>3. \A q \in Processes : link.by = Me(q) /\ pc'[q] \in {"open", "write", "dump"} =>
                              link.to = stamp[q]
    BY <1>1, <1>5 DEF LinkMade
  <2>4. CASE link.by \in openers[link.to]
    BY <1>4, <2>1, <2>2, <2>3, <2>4
  <2>5. ASSUME NEW q \in Processes, link.by = Me(q), pc[q] \in {"open", "killed"}
        PROVE  link.by \in openers'[link.to] \/ (link.by = Me(q) /\ pc'[q] \in {"open", "killed"})
    <3>1. CASE q = p
      BY <1>1, <1>4, <1>5, <2>3, <2>5, <3>1
    <3>2. CASE q # p
      BY <1>5, <2>5, <3>2
    <3> QED BY <3>1, <3>2
  <2> QED BY <2>2, <2>3, <2>4, <2>5 DEF LinkMade
<1>11. LinkWhole'
  <2> SUFFICES ASSUME link # NoLink, openers'[link.to] = {link.by}, ~Unfinished(link.by)'
               PROVE  files'[link.to] = Whole(link.by)
    BY <1>1 DEF LinkWhole
  <2>1. link.by # Me(p)
    BY <1>1, <1>5 DEF Unfinished, Me
  <2>2. link.to \in Stamps /\ link.by \in Listings
    BY LinkTypes
  <2>3. link.to # stamp[p]
    BY <1>4, <2>1
  <2>4. ~Unfinished(link.by)
    BY <1>1, <1>5, <2>1, <2>2 DEF Unfinished, Listings, Me
  <2>5. openers[link.to] = {link.by} /\ link.to \in DOMAIN files
    BY <1>4, <2>2, <2>3 DEF FilesOpened
  <2> QED BY <1>3, <2>3, <2>4, <2>5 DEF LinkWhole
<1>12. LooksInv'
  BY <1>1, <1>5, <1>9 DEF LooksInv, FilesTypeOK, Links
<1> QED BY <1>6, <1>8, <1>10, <1>11, <1>12

LEMMA Write_FilesInv ==
  ASSUME FilesInv, NEW p \in Processes, Write(p)
  PROVE  FilesInv'
<1> USE DEF FilesInv
<1> DEFINE to == IF written[p] + 1 = Chunks THEN "dump" ELSE "write"
<1>1. /\ pc[p] = "write" /\ pc' = [pc EXCEPT ![p] = to]
      /\ files' = [files EXCEPT ![stamp[p]] = With(@, written[p] + 1, Me(p))]
      /\ written' = [written EXCEPT ![p] = @ + 1]
      /\ UNCHANGED <<clock, link, count, stamp, printed, saw, openers>>
  BY DEF Write, Goes
<1>2. /\ Chunks \in Nat /\ written[p] \in Nat /\ written[p] < Chunks
      /\ stamp[p] \in DOMAIN files /\ stamp[p] \in Stamps /\ Me(p) \in openers[stamp[p]]
  <2>1. Chunks \in Nat /\ written[p] \in 0 .. Chunks
    BY FilesAssumption DEF FilesTypeOK
  <2>2. written[p] < Chunks /\ Me(p) \in openers[stamp[p]]
    BY <1>1 DEF FilesOpened
  <2>3. stamp[p] \in DOMAIN files /\ stamp[p] \in Stamps
    BY <1>1 DEF FilesTypeOK
  <2> QED BY <2>1, <2>2, <2>3
<1>3. /\ to \in {"write", "dump"}
      /\ written[p] + 1 \in 0 .. Chunks
      /\ written[p] + 1 < Chunks <=> to = "write"
  BY <1>2
<1> HIDE DEF to
<1>4. /\ DOMAIN files' = DOMAIN files
      /\ files'[stamp[p]] = With(files[stamp[p]], written[p] + 1, Me(p))
      /\ \A s \in DOMAIN files : s # stamp[p] => files'[s] = files[s]
  <2>1. DOMAIN files' = DOMAIN files
    BY <1>1
  <2>2. files'[stamp[p]] = With(files[stamp[p]], written[p] + 1, Me(p))
    BY <1>1, <1>2
  <2>3. \A s \in DOMAIN files : s # stamp[p] => files'[s] = files[s]
    BY <1>1
  <2> QED BY <2>1, <2>2, <2>3
<1>5. /\ pc'[p] = to /\ written'[p] = written[p] + 1
      /\ \A q \in Processes : Me(q)' = Me(q)
      /\ \A q \in Processes : q # p => pc'[q] = pc[q] /\ written'[q] = written[q]
  BY <1>1 DEF FilesTypeOK, Me
<1>6. FilesTypeOK'
  <2>1. written' \in [Processes -> 0 .. Chunks]
    BY <1>1, <1>3 DEF FilesTypeOK
  <2> QED BY <1>1, <1>3, <1>4, <1>5, <2>1 DEF FilesTypeOK, Steps
\* Its file, as long as nobody else has opened it.
<1>7. openers[stamp[p]] = {Me(p)} => files'[stamp[p]] = [n \in 1 .. written[p] + 1 |-> Me(p)]
  <2> SUFFICES ASSUME openers[stamp[p]] = {Me(p)}
               PROVE  files'[stamp[p]] = [n \in 1 .. written[p] + 1 |-> Me(p)]
    OBVIOUS
  <2>1. files[stamp[p]] = [n \in 1 .. written[p] |-> Me(p)]
    BY <1>1 DEF FilesOpened
  <2>2. With([n \in 1 .. written[p] |-> Me(p)], written[p] + 1, Me(p))
          = [n \in 1 .. written[p] + 1 |-> Me(p)]
    BY <1>2, LongerFile
  <2> QED BY <1>4, <2>1, <2>2
<1>8. FilesOpened'
  <2>1. DOMAIN files' = {s \in Stamps : openers'[s] # {}}
    BY <1>1, <1>4 DEF FilesOpened
  <2> SUFFICES ASSUME NEW q \in Processes, pc'[q] \in {"write", "dump"}
      PROVE  /\ Me(q) \in openers[stamp[q]]
             /\ openers[stamp[q]] = {Me(q)} => files'[stamp[q]] = [n \in 1 .. written'[q] |-> Me(q)]
             /\ written'[q] < Chunks <=> pc'[q] = "write"
    BY <1>1, <1>5, <2>1 DEF FilesOpened
  <2>2. CASE q = p
    BY <1>2, <1>3, <1>5, <1>7, <2>2
  <2>3. CASE q # p
    <3>1. Me(q) # Me(p)
      BY <2>3 DEF Me
    <3>2. stamp[q] \in DOMAIN files
      BY <1>5, <2>3 DEF FilesTypeOK
    <3>3. stamp[q] = stamp[p] => openers[stamp[q]] # {Me(q)}
      BY <1>2, <3>1
    <3> QED BY <1>4, <1>5, <2>3, <3>2, <3>3 DEF FilesOpened
  <2> QED BY <2>2, <2>3
<1>9. \A who \in Listings : Past(who)' <=> Past(who)
  BY <1>1, <1>3, <1>5 DEF Past, Listings
<1>10. LinkMade'
  BY <1>1, <1>3, <1>5, <1>9, LinkTypes DEF LinkMade, Me
<1>11. LinkWhole'
  <2> SUFFICES ASSUME link # NoLink, openers[link.to] = {link.by}, ~Unfinished(link.by)'
               PROVE  files'[link.to] = Whole(link.by)
    BY <1>1 DEF LinkWhole
  <2>1. link.to \in Stamps /\ link.by \in Listings /\ link.to \in DOMAIN files
    BY LinkTypes DEF FilesOpened
  <2>2. CASE link.by = Me(p)
    <3>1. link.to = stamp[p]
      BY <1>1, <2>2 DEF LinkMade
    <3>2. to = "dump"
      BY <1>1, <1>3, <1>5, <2>2 DEF Unfinished, Me
    <3>3. written[p] + 1 = Chunks
      BY <1>2, <1>3, <3>2
    <3> QED BY <1>7, <2>2, <3>1, <3>3 DEF Whole
  <2>3. CASE link.by # Me(p)
    <3>1. link.to # stamp[p]
      BY <1>2, <2>3
    <3>2. ~Unfinished(link.by)
      BY <1>1, <1>5, <2>1, <2>3 DEF Unfinished, Listings, Me
    <3> QED BY <1>4, <2>1, <3>1, <3>2 DEF LinkWhole
  <2> QED BY <2>2, <2>3
<1>12. LooksInv'
  BY <1>1, <1>3, <1>5, <1>9 DEF LooksInv, FilesTypeOK, Links
<1> QED BY <1>6, <1>8, <1>10, <1>11, <1>12

LEMMA Dump_FilesInv ==
  ASSUME FilesInv, NEW p \in Processes, Dump(p)
  PROVE  FilesInv'
<1>1. /\ pc[p] = "dump" /\ Leaves(p, "idle") /\ "idle" \in {"idle", "thrown", "killed"}
      /\ UNCHANGED <<clock, link, files, count, openers>>
  BY DEF Dump
<1> QED BY <1>1, Leaves_FilesInv

LEMMA CreateThrows_FilesInv ==
  ASSUME FilesInv, NEW p \in Processes, CreateThrows(p)
  PROVE  FilesInv'
<1>1. /\ pc[p] = "symlink" /\ Leaves(p, "thrown") /\ "thrown" \in {"idle", "thrown", "killed"}
      /\ UNCHANGED <<clock, link, files, count, openers>>
  BY DEF CreateThrows
<1> QED BY <1>1, Leaves_FilesInv

LEMMA Die_FilesInv ==
  ASSUME FilesInv, NEW p \in Processes, Die(p)
  PROVE  FilesInv'
<1>1. /\ pc[p] \notin {"idle", "thrown", "killed"} /\ Leaves(p, "killed")
      /\ "killed" \in {"idle", "thrown", "killed"}
      /\ UNCHANGED <<clock, link, files, count, openers>>
  BY DEF Die
<1> QED BY <1>1, Leaves_FilesInv

\* Neither the clock nor what was printed is in the other conjuncts.
LEMMA Others_FilesInv ==
  ASSUME FilesInv, clock' \in Stamps,
         UNCHANGED <<link, files, pc, count, stamp, written, saw, openers>>
  PROVE  FilesInv'
<1> USE DEF FilesInv
<1>1. FilesTypeOK'
  BY DEF FilesTypeOK
<1>2. FilesOpened'
  BY DEF FilesOpened, Me
<1>3. LinkMade' /\ LinkWhole'
  BY DEF LinkMade, LinkWhole, Past, Me, Unfinished
<1>4. LooksInv'
  BY DEF LooksInv, Past
<1> QED BY <1>1, <1>2, <1>3, <1>4

LEMMA Next_FilesInv == FilesInv /\ [Next]_vars => FilesInv'
<1> SUFFICES ASSUME FilesInv, [Next]_vars PROVE FilesInv'
  OBVIOUS
<1>1. CASE Tick
  <2>1. /\ clock' \in Stamps
        /\ UNCHANGED <<link, files, pc, count, stamp, written, saw, openers>>
    BY <1>1, FilesAssumption DEF Tick, FilesInv, FilesTypeOK, Stamps
  <2> QED BY <2>1, Others_FilesInv
<1>2. ASSUME NEW p \in Processes, ReadClock(p) \/ Call(p) \/ Die(p)
      PROVE  FilesInv'
  BY <1>2, ReadClock_FilesInv, Exists_FilesInv, Remove_FilesInv, CreateSymlink_FilesInv,
     CreateThrows_FilesInv, Open_FilesInv, Write_FilesInv, Dump_FilesInv, Die_FilesInv
     DEF Call
<1>3. CASE UNCHANGED vars
  <2>1. /\ clock' \in Stamps
        /\ UNCHANGED <<link, files, pc, count, stamp, written, saw, openers>>
    BY <1>3 DEF vars, FilesInv, FilesTypeOK
  <2> QED BY <2>1, Others_FilesInv
<1> QED BY <1>1, <1>2, <1>3 DEF Next

LEMMA FilesInvariant == Spec => []FilesInv
  BY Init_FilesInv, Next_FilesInv, PTL DEF Spec

-----------------------------------------------------------------------------
\* The files, the link and the progress of any number of processes have their types.
THEOREM TypesOfTheFiles == Spec => []FilesTypeOK
<1>1. FilesInv => FilesTypeOK
  BY DEF FilesInv
<1> QED BY <1>1, FilesInvariant, PTL

LEMMA LinkMade_LinkLeads == FilesInv => LinkLeads
<1> SUFFICES ASSUME FilesInv, link # NoLink
             PROVE  /\ ~Leads(link) => Unfinished(link.by) /\ pc[link.by[1]] # "write"
                    /\ Leads(link) /\ openers[link.to] = {link.by} /\ ~Unfinished(link.by) =>
                         files[link.to] = Whole(link.by)
  BY DEF LinkLeads
<1>1. ASSUME ~Leads(link)
      PROVE  Unfinished(link.by) /\ pc[link.by[1]] # "write"
  <2>1. link.by \in Listings /\ link.to \in Stamps /\ link.to \notin DOMAIN files
    BY <1>1, LinkTypes DEF Leads, FilesInv
  <2>2. PICK p \in Processes : link.by = Me(p) /\ pc[p] \in {"open", "killed"}
    BY <2>1 DEF FilesInv, LinkMade, FilesOpened
  <2> QED BY <2>2 DEF Unfinished, Me
<1> QED BY <1>1 DEF FilesInv, LinkWhole

\* However many processes replace the link, and wherever each of them dies: it
\* dangles only until its maker opens the file, and leads to a whole listing once
\* its maker is done.
THEOREM TheLinkLeads == Spec => []LinkLeads
  BY LinkMade_LinkLeads, FilesInvariant, PTL

\* A process prints its own listing, complete, unless another one had its name.
THEOREM OwnListingPrinted == Spec => PrintsOwnListing
<1>1. FilesInv /\ [Next]_vars =>
        [\A p \in Processes :
           pc[p] = "dump" /\ pc'[p] = "idle" /\ openers[stamp[p]] = {Me(p)} =>
             printed' = [by |-> Me(p), chunks |-> Whole(Me(p))]]_vars
  <2> SUFFICES ASSUME FilesInv, Next, NEW p \in Processes,
                      pc[p] = "dump", pc'[p] = "idle", openers[stamp[p]] = {Me(p)}
               PROVE  printed' = [by |-> Me(p), chunks |-> Whole(Me(p))]
    OBVIOUS
  <2>1. files[stamp[p]] = Whole(Me(p))
    <3>1. written[p] \in 0 .. Chunks /\ Chunks \in Nat /\ ~(written[p] < Chunks)
      BY FilesAssumption DEF FilesInv, FilesTypeOK, FilesOpened
    <3>2. written[p] = Chunks
      BY <3>1
    <3> QED BY <3>2 DEF FilesInv, FilesOpened, Whole
  <2>2. Dump(p)
    <3>1. PICK q \in Processes : ReadClock(q) \/ Call(q) \/ Die(q)
      BY DEF Next, Tick
    <3>2. q = p
      BY <3>1 DEF FilesInv, FilesTypeOK, ReadClock, Call, Die, Exists, Remove, CreateSymlink,
                  CreateThrows, Open, Write, Dump, Goes, Leaves
    <3> QED BY <3>1, <3>2 DEF FilesInv, FilesTypeOK, ReadClock, Call, Die, Exists, Remove,
                  CreateSymlink, CreateThrows, Open, Write, Goes, Leaves
  <2> QED BY <2>1, <2>2 DEF Dump, ReadFrom
<1> QED BY <1>1, FilesInvariant, PTL DEF Spec, PrintsOwnListing

\* create_symlink throws only over a link that another process made behind this
\* one's back, or that dangled when it looked.
THEOREM OthersTripIt == Spec => TripsOverOthersOnly
<1>1. FilesInv /\ [Next]_vars =>
        [\A p \in Processes :
           pc[p] # "thrown" /\ pc'[p] = "thrown" =>
             /\ link.by[1] # p
             /\ link # saw[p].link \/ ~saw[p].led]_vars
  <2> SUFFICES ASSUME FilesInv, Next, NEW p \in Processes,
                      pc[p] # "thrown", pc'[p] = "thrown"
               PROVE  link.by[1] # p /\ (link # saw[p].link \/ ~saw[p].led)
    OBVIOUS
  <2>1. CreateThrows(p)
    <3>1. PICK q \in Processes : ReadClock(q) \/ Call(q) \/ Die(q)
      BY DEF Next, Tick
    <3>2. q = p
      BY <3>1 DEF FilesInv, FilesTypeOK, ReadClock, Call, Die, Exists, Remove, CreateSymlink,
                  CreateThrows, Open, Write, Dump, Goes, Leaves
    <3> QED BY <3>1, <3>2 DEF FilesInv, FilesTypeOK, ReadClock, Call, Die, Exists, Remove,
                  CreateSymlink, Open, Write, Dump, Goes, Leaves
  <2> QED BY <2>1 DEF CreateThrows, FilesInv, LooksInv
<1> QED BY <1>1, FilesInvariant, PTL DEF Spec, TripsOverOthersOnly
=============================================================================
