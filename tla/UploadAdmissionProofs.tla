------------------------ MODULE UploadAdmissionProofs -----------------------
(***************************************************************************)
(* Theorems about the staged files of the uploads, for any number of       *)
(* requests and files, any disk and any time.                              *)
(***************************************************************************)
EXTENDS UploadAdmission, FiniteSetTheorems, TLAPS

Before == {"staging", "oversized", "full", "counting", "adding"}
Live == Before \cup {"dropping", "removing"}

\* A file is opened, and written whole or not.
Opens(r) == StageFile(r) \/ DiskFull(r)

\* The handler has yet to remove its i-th file.
Holds(r, i) == i \in DOMAIN written[r] /\ i > unlinked[r]

\* Nothing is staged before the admission, or removed before the body is
\* handled.
RemovedLast ==
    \A r \in Requests :
        /\ pc[r] \in {"idle", "arrived"} => written[r] = <<>>
        /\ pc[r] \in {"idle", "arrived"} \cup Before => unlinked[r] = 0

\* A path that nobody found in the folder is there for as long as a handler
\* has it to remove, and one handler has it once.
HeldThere ==
    \A r \in Requests : pc[r] \in Live =>
        \A i \in Nat : Holds(r, i) /\ written[r][i] \notin MetPaths => written[r][i] \in disk
HeldOnce ==
    \A q, r \in Requests : pc[q] \in Live /\ pc[r] \in Live =>
        \A i, j \in Nat :
            /\ Holds(q, i)
            /\ Holds(r, j)
            /\ written[q][i] = written[r][j]
            /\ written[q][i] \notin MetPaths
            => q = r /\ i = j

\* What is in the folder belongs to a handler that has it to remove, to one
\* that threw, or is what a failed write has left.
Owns(r, i) == Holds(r, i) /\ (pc[r] \in Live \cup Thrown \/ Truncated(r, i))
DiskOwned ==
    \A path \in disk : \E r \in Requests : \E i \in Nat :
        Owns(r, i) /\ written[r][i] = path

StagedInv ==
    /\ TypeOK
    /\ RemovedLast
    /\ HeldThere
    /\ HeldOnce
    /\ DiskOwned
    /\ UnansweredHasCause

-----------------------------------------------------------------------------
LEMMA BodyFiles ==
    ASSUME NEW b \in Bodies
    PROVE  b.files \in Seq(File) /\ Len(b.files) \in 0 .. MaxFiles
<1> USE AdmissionAssumption
<1>1. CASE b.files = <<>>
    BY <1>1
<1>2. CASE \E n \in 0 .. MaxFiles : b.files \in [1 .. n -> File]
    BY <1>2
<1>3. QED
    BY <1>1, <1>2 DEF Bodies

\* The staging of a file, once the names of LET and helpers are out of the way.
LEMMA NextStaged ==
    ASSUME TypeOK, NEW r \in Requests, ~AllStaged(r)
    PROVE  /\ Len(written[r]) + 1 \in 1 .. MaxFiles
           /\ Len(written[r]) + 1 <= Len(body[r].files)
           /\ NextFile(r) \in File
           /\ NextPath(r) \in Path
<1>1. body[r] \in Bodies /\ written[r] \in Seq(Path) /\ Len(written[r]) <= Len(body[r].files)
    BY DEF TypeOK
<1>2. body[r].files \in Seq(File) /\ Len(body[r].files) \in 0 .. MaxFiles
    BY <1>1, BodyFiles
<1>3. Len(written[r]) \in Nat /\ Len(written[r]) # Len(body[r].files)
    BY <1>1 DEF AllStaged
<1>4. Len(written[r]) + 1 \in 1 .. Len(body[r].files)
    BY <1>1, <1>2, <1>3
<1>5. NextFile(r) \in File
    BY <1>2, <1>4 DEF NextFile
<1>6. NextPath(r) \in Path
    BY <1>5 DEF NextPath, Path, File, TypeOK
<1>7. QED
    BY <1>2, <1>4, <1>5, <1>6, AdmissionAssumption

LEMMA TypeStep == TypeOK /\ [Next]_vars => TypeOK'
<1> SUFFICES ASSUME TypeOK, [Next]_vars PROVE TypeOK'
    OBVIOUS
<1> USE AdmissionAssumption
<1>1. ASSUME NEW r \in Requests, Opens(r)
      PROVE  TypeOK'
    <2>1. /\ Len(written[r]) + 1 \in 1 .. MaxFiles
          /\ Len(written[r]) + 1 <= Len(body[r].files)
          /\ NextPath(r) \in Path
        BY <1>1, NextStaged DEF Opens, StageFile, DiskFull, Goto, files
    <2> DEFINE w == Append(written[r], NextPath(r))
    <2>2. w \in Seq(Path) /\ Len(w) = Len(written[r]) + 1
        BY <2>1 DEF TypeOK
    <2>3. written' = [written EXCEPT ![r] = w]
        BY <1>1 DEF Opens, StageFile, DiskFull, Goto, files
    <2> HIDE DEF w
    <2>4. pc' \in [Requests -> Pcs]
        BY <1>1 DEF Opens, StageFile, DiskFull, Goto, files, TypeOK, Pcs, Writing
    <2>5. met' \in SUBSET (Path \X Requests \X (1 .. MaxFiles))
        BY <1>1, <2>1 DEF Opens, StageFile, DiskFull, Goto, files, TypeOK
    <2>6. \A q \in Requests :
              unlinked[q] <= Len(written'[q]) /\ Len(written'[q]) <= Len(body[q].files)
        <3> SUFFICES ASSUME NEW q \in Requests
                     PROVE  unlinked[q] <= Len(written'[q]) /\ Len(written'[q]) <= Len(body[q].files)
            OBVIOUS
        <3>1. unlinked[q] \in Nat /\ unlinked[q] <= Len(written[q]) /\ written[q] \in Seq(Path)
            BY DEF TypeOK
        <3>2. CASE q = r
            BY <2>1, <2>2, <2>3, <3>1, <3>2 DEF TypeOK
        <3>3. CASE q # r
            BY <2>3, <3>3 DEF TypeOK
        <3>4. QED
            BY <3>2, <3>3
    <2>7. written' \in [Requests -> Seq(Path)]
        BY <2>2, <2>3 DEF TypeOK
    <2>8. disk' \in SUBSET Path
        BY <1>1, <2>1 DEF Opens, StageFile, DiskFull, Goto, files, TypeOK
    <2>9. UNCHANGED <<body, unlinked, now, exposed>>
        BY <1>1 DEF Opens, StageFile, DiskFull, Goto, files
    <2>10. QED
        BY <2>4, <2>5, <2>6, <2>7, <2>8, <2>9 DEF TypeOK
<1>2. ASSUME NEW r \in Requests, UnlinkFile(r)
      PROVE  TypeOK'
    <2>1. unlinked[r] \in Nat /\ Len(written[r]) \in Nat /\ unlinked[r] + 1 <= Len(written[r])
        BY <1>2 DEF UnlinkFile, AllUnlinked, TypeOK
    <2>2. unlinked' = [unlinked EXCEPT ![r] = unlinked[r] + 1] \/ unlinked' = unlinked
        BY <1>2 DEF UnlinkFile
    <2>3. /\ unlinked' \in [Requests -> Nat]
          /\ \A q \in Requests : unlinked'[q] <= Len(written[q])
        <3>1. unlinked \in [Requests -> Nat] /\ \A q \in Requests : unlinked[q] <= Len(written[q])
            BY DEF TypeOK
        <3>2. QED
            BY <2>1, <2>2, <3>1
    <2>4. /\ pc' = pc \/ pc' = [pc EXCEPT ![r] = "ENOENT"]
          /\ disk' \subseteq disk
        BY <1>2 DEF UnlinkFile
    <2>5. UNCHANGED <<body, written, met, now, exposed>>
        BY <1>2 DEF UnlinkFile
    <2>6. QED
        BY <2>3, <2>4, <2>5 DEF TypeOK, Pcs, Ended, Thrown
<1>3. ASSUME NEW r \in Requests, AbortBody(r)
      PROVE  TypeOK'
    BY <1>3 DEF AbortBody, Goto, TypeOK, Pcs, Ended, Answered
<1>4. ASSUME NEW r \in Requests,
             Arrive(r) \/ Refuse(r) \/ NoSpace(r) \/ MissingParams(r)
               \/ NoFiles(r) \/ BodyAccepted(r) \/ Counted(r) \/ CountRejects(r)
               \/ CountFails(r) \/ AddFiles(r) \/ AddRejects(r) \/ Dropped(r)
               \/ Uploaded(r) \/ FinishRejects(r)
      PROVE  TypeOK'
    <2>1. pc' \in [Requests -> Pcs]
        BY <1>4 DEF Arrive, Refuse, NoSpace, MissingParams, NoFiles, BodyAccepted,
                    Counted, CountRejects, CountFails, AddFiles, AddRejects, Dropped,
                    Uploaded, FinishRejects, Goto,
                    TypeOK, Pcs, Writing, Ended, Answered, Thrown
    <2>2. UNCHANGED <<body, files, unlinked, now, exposed>>
        BY <1>4 DEF Arrive, Refuse, NoSpace, MissingParams, NoFiles, BodyAccepted,
                    Counted, CountRejects, CountFails, AddFiles, AddRejects, Dropped,
                    Uploaded, FinishRejects
    <2>3. QED
        BY <2>1, <2>2 DEF files, TypeOK
<1>5. ASSUME NEW r \in Requests, Admit(r)
      PROVE  TypeOK'
    BY <1>5 DEF Admit, files, Goto, TypeOK, Pcs, Writing
<1>6. CASE PassTime
    BY <1>6 DEF PassTime, files, TypeOK
<1>7. CASE UNCHANGED vars
    BY <1>7 DEF vars, TypeOK
<1>8. QED
    BY <1>1, <1>2, <1>3, <1>4, <1>5, <1>6, <1>7 DEF Next, Receive, Handle, Opens

-----------------------------------------------------------------------------
StagedFacts == RemovedLast /\ HeldThere /\ HeldOnce /\ DiskOwned /\ UnansweredHasCause

LEMMA InitStaged == Init => StagedInv
<1> SUFFICES ASSUME Init PROVE StagedInv
    OBVIOUS
<1>1. TypeOK
    <2>1. <<>> \in Seq(Path) /\ 0 \in 0 .. MaxTime /\ Len(<<>>) = 0
        BY AdmissionAssumption
    <2>2. \A r \in Requests : 0 <= Len(body[r].files)
        <3> SUFFICES ASSUME NEW r \in Requests PROVE 0 <= Len(body[r].files)
            OBVIOUS
        <3>1. body[r] \in Bodies
            BY DEF Init
        <3>2. QED
            BY <3>1, BodyFiles
    <2>3. pc \in [Requests -> Pcs]
        BY DEF Init, Pcs
    <2>4. QED
        BY <2>1, <2>2, <2>3 DEF Init, TypeOK
<1>2. StagedFacts
    BY DEF Init, StagedFacts, RemovedLast, HeldThere, HeldOnce, DiskOwned, UnansweredHasCause,
           Before, Live
<1>3. QED
    BY <1>1, <1>2 DEF StagedInv, StagedFacts

\* A step that moves one handler and no file.
LEMMA PcStep ==
    ASSUME StagedInv, NEW r \in Requests, NEW to,
           pc' = [pc EXCEPT ![r] = to],
           UNCHANGED <<body, written, disk, met, unlinked>>,
           to \in Live => pc[r] \in Live \/ written[r] = <<>>,
           to \in {"idle", "arrived"} => written[r] = <<>>,
           to \in {"idle", "arrived"} \cup Before => unlinked[r] = 0,
           to \in Live \cup Thrown \/ pc[r] \notin Live \cup Thrown \/ AllUnlinked(r),
           pc[r] \notin {"full", "500"},
           to = "ENOENT" => PathsOf(r) \cap MetPaths # {},
           to = "TypeError" => ~body[r].multipart /\ ~body[r].complete
    PROVE  StagedFacts'
<1>1. MetPaths' = MetPaths /\ \A q \in Requests : PathsOf(q)' = PathsOf(q)
    BY DEF MetPaths, PathsOf
<1>2. \A q \in Requests, i \in Nat : Holds(q, i)' <=> Holds(q, i)
    BY DEF Holds
<1>3. pc'[r] = to /\ \A q \in Requests : q # r => pc'[q] = pc[q]
    BY DEF StagedInv, TypeOK
<1>4. written[r] = <<>> => \A i \in Nat : ~Holds(r, i)
    BY DEF Holds
<1>5. AllUnlinked(r) => \A i \in Nat : ~Holds(r, i)
    BY DEF AllUnlinked, Holds, StagedInv, TypeOK
<1>6. RemovedLast'
    BY <1>3 DEF StagedInv, RemovedLast
<1>7. HeldThere'
    BY <1>1, <1>2, <1>3, <1>4 DEF StagedInv, HeldThere
<1>8. HeldOnce'
    BY <1>1, <1>2, <1>3, <1>4 DEF StagedInv, HeldOnce
<1>9. DiskOwned'
    <2>1. \A q \in Requests, i \in Nat : Owns(q, i) => Owns(q, i)'
        BY <1>2, <1>3, <1>5 DEF Owns, Truncated
    <2>2. QED
        BY <2>1 DEF StagedInv, DiskOwned
<1>10. UnansweredHasCause'
    BY <1>1, <1>3 DEF StagedInv, UnansweredHasCause
<1>11. QED
    BY <1>6, <1>7, <1>8, <1>9, <1>10 DEF StagedFacts

LEMMA QuietStep ==
    ASSUME StagedInv, NEW r \in Requests,
           Arrive(r) \/ Refuse(r) \/ Admit(r) \/ NoSpace(r) \/ MissingParams(r)
             \/ NoFiles(r) \/ BodyAccepted(r) \/ Counted(r) \/ CountRejects(r)
             \/ CountFails(r) \/ AddFiles(r) \/ AddRejects(r) \/ Dropped(r)
             \/ Uploaded(r) \/ FinishRejects(r)
    PROVE  StagedFacts'
<1> DEFINE Moves(to) ==
        pc' = [pc EXCEPT ![r] = to] /\ UNCHANGED <<body, written, disk, met, unlinked>>
<1> USE DEF Before, Live, Thrown
<1>0. /\ pc[r] \in {"idle", "arrived"} => written[r] = <<>>
      /\ pc[r] \in {"idle", "arrived"} \cup Before => unlinked[r] = 0
    BY DEF StagedInv, RemovedLast
<1>1. CASE Arrive(r)
    <2>1. pc[r] = "idle" /\ Moves("arrived")
        BY <1>1 DEF Arrive, Goto, files
    <2>2. QED
        BY <1>0, <2>1, PcStep
<1>2. CASE Refuse(r)
    <2>1. pc[r] = "idle" /\ Moves("400")
        BY <1>2 DEF Refuse, Goto, files
    <2>2. QED
        BY <1>0, <2>1, PcStep
<1>3. CASE Admit(r)
    <2>1. pc[r] = "arrived" /\ Moves("staging")
        BY <1>3 DEF Admit, Goto, files
    <2>2. QED
        BY <1>0, <2>1, PcStep
<1>4. CASE NoSpace(r)
    <2>1. pc[r] = "arrived" /\ Moves("400")
        BY <1>4 DEF NoSpace, Goto, files
    <2>2. QED
        BY <1>0, <2>1, PcStep
<1>5. CASE CountRejects(r)
    <2>1. pc[r] \in {"idle", "counting"} /\ Moves("Rejected")
        BY <1>5 DEF CountRejects, Goto, files
    <2>2. QED
        BY <1>0, <2>1, PcStep
<1>6. CASE MissingParams(r)
    <2>1. /\ pc[r] = "staging" /\ ~body[r].complete
          /\ Moves("dropping") \/ (~body[r].multipart /\ Moves("TypeError"))
        BY <1>6 DEF MissingParams, Goto, files
    <2>2. QED
        BY <1>0, <2>1, PcStep
<1>7. CASE NoFiles(r)
    <2>1. pc[r] = "staging" /\ Moves("422") /\ body[r].files = <<>> /\ AllStaged(r)
        BY <1>7 DEF NoFiles, Goto, files
    <2>2. AllUnlinked(r)
        BY <1>0, <2>1 DEF AllStaged, AllUnlinked
    <2>3. QED
        BY <1>0, <2>1, <2>2, PcStep
<1>8. CASE BodyAccepted(r)
    <2>1. pc[r] = "staging" /\ Moves("counting")
        BY <1>8 DEF BodyAccepted, Goto, files
    <2>2. QED
        BY <1>0, <2>1, PcStep
<1>9. CASE Counted(r)
    <2>1. pc[r] = "counting" /\ Moves("adding")
        BY <1>9 DEF Counted, Goto, files
    <2>2. QED
        BY <1>0, <2>1, PcStep
<1>10. CASE CountFails(r)
    <2>1. pc[r] = "counting" /\ Moves("UniqueConstraint")
        BY <1>10 DEF CountFails, Goto, files
    <2>2. QED
        BY <1>0, <2>1, PcStep
<1>11. CASE AddFiles(r)
    <2>1. CASE PathsOf(r) \subseteq disk
        <3>1. pc[r] = "adding" /\ Moves("removing")
            BY <1>11, <2>1 DEF AddFiles, Goto, files
        <3>2. QED
            BY <1>0, <3>1, PcStep
    <2>2. CASE ~(PathsOf(r) \subseteq disk)
        <3>1. pc[r] = "adding" /\ Moves("ENOENT")
            BY <1>11, <2>2 DEF AddFiles, Goto, files
        <3>2. PICK i \in DOMAIN written[r] : written[r][i] \notin disk
            BY <2>2 DEF PathsOf
        <3>3. i \in Nat /\ i > unlinked[r]
            BY <1>0, <3>1 DEF StagedInv, TypeOK
        <3>4. written[r][i] \in MetPaths
            BY <3>1, <3>2, <3>3 DEF StagedInv, HeldThere, Holds
        <3>5. PathsOf(r) \cap MetPaths # {}
            BY <3>4 DEF PathsOf
        <3>6. QED
            BY <1>0, <3>1, <3>5, PcStep
    <2>3. QED
        BY <2>1, <2>2
<1>12. CASE Dropped(r)
    <2>1. pc[r] = "dropping" /\ Moves("422") /\ AllUnlinked(r)
        BY <1>12 DEF Dropped, Goto, files
    <2>2. QED
        BY <2>1, PcStep
<1>13. CASE Uploaded(r)
    <2>1. pc[r] = "removing" /\ Moves("200") /\ AllUnlinked(r)
        BY <1>13 DEF Uploaded, Goto, files
    <2>2. QED
        BY <2>1, PcStep
<1>14. CASE AddRejects(r) \/ FinishRejects(r)
    <2>1. pc[r] \in {"adding", "removing"} /\ Moves("Rejected")
        BY <1>14 DEF AddRejects, FinishRejects, Goto, files
    <2>2. QED
        BY <2>1, PcStep
<1>15. QED
    BY <1>1, <1>2, <1>3, <1>4, <1>5, <1>6, <1>7, <1>8, <1>9, <1>10, <1>11, <1>12, <1>13, <1>14

LEMMA OpenStep ==
    ASSUME StagedInv, NEW r \in Requests, Opens(r)
    PROVE  StagedFacts'
<1> DEFINE n == Len(written[r]) + 1
           P == NextPath(r)
<1>1. /\ pc[r] = "staging" /\ pc'[r] \in {"staging", "oversized", "full"}
      /\ \A q \in Requests : q # r => pc'[q] = pc[q]
      /\ disk' = disk \cup {P}
      /\ UNCHANGED <<body, unlinked>>
    BY DEF Opens, StageFile, DiskFull, Goto, StagedInv, TypeOK
<1>2. unlinked[r] = 0
    BY <1>1 DEF StagedInv, RemovedLast, Before
<1>3. /\ n \in Nat /\ n > unlinked[r] /\ n \notin DOMAIN written[r]
      /\ DOMAIN written'[r] = DOMAIN written[r] \cup {n}
      /\ \A i \in DOMAIN written[r] : written'[r][i] = written[r][i]
      /\ written'[r][n] = P
      /\ \A q \in Requests : q # r => written'[q] = written[q]
    <2>1. written[r] \in Seq(Path) /\ P \in Path /\ written \in [Requests -> Seq(Path)]
        BY NextStaged DEF Opens, StageFile, DiskFull, Goto, StagedInv, TypeOK
    <2>2. written' = [written EXCEPT ![r] = Append(written[r], P)]
        BY DEF Opens, StageFile, DiskFull, Goto
    <2>3. QED
        BY <1>2, <2>1, <2>2
<1>4. MetPaths \subseteq MetPaths' /\ (P \in disk => P \in MetPaths')
    <2>1. met \subseteq met' /\ (P \in disk => <<P, r, n>> \in met')
        BY DEF Opens, StageFile, DiskFull, Goto
    <2>2. <<P, r, n>>[1] = P
        OBVIOUS
    <2>3. QED
        BY <2>1, <2>2 DEF MetPaths
<1> HIDE DEF n, P
<1>5. \A q \in Requests, i \in Nat :
          Holds(q, i)' <=> Holds(q, i) \/ (q = r /\ i = n)
    BY <1>1, <1>3 DEF Holds
<1>6. \A q \in Requests, i \in Nat : Holds(q, i) => written'[q][i] = written[q][i]
    BY <1>3 DEF Holds
<1>7. \A q \in Requests : pc'[q] \in Live <=> pc[q] \in Live
    BY <1>1 DEF Live, Before
<1>8. RemovedLast'
    BY <1>1, <1>2, <1>3 DEF StagedInv, RemovedLast
<1>9. HeldThere'
    BY <1>1, <1>3, <1>4, <1>5, <1>6, <1>7 DEF StagedInv, HeldThere
<1>10. HeldOnce'
    <2> SUFFICES ASSUME NEW q \in Requests, NEW s \in Requests,
                        pc'[q] \in Live, pc'[s] \in Live,
                        NEW i \in Nat, NEW j \in Nat,
                        Holds(q, i)', Holds(s, j)',
                        written'[q][i] = written'[s][j],
                        written'[q][i] \notin MetPaths'
                 PROVE  q = s /\ i = j
        BY DEF HeldOnce
    <2>1. CASE Holds(q, i) /\ Holds(s, j)
        BY <1>4, <1>6, <1>7, <2>1 DEF StagedInv, HeldOnce
    <2>2. ASSUME NEW p \in Requests, NEW m \in Nat, pc[p] \in Live, Holds(p, m),
                 written[p][m] = P
          PROVE  P \in MetPaths'
        BY <1>4, <2>2 DEF StagedInv, HeldThere
    <2>3. CASE ~Holds(q, i)
        <3>1. q = r /\ i = n /\ written'[s][j] = P /\ P \notin MetPaths'
            BY <1>3, <1>5, <2>3
        <3>2. ~Holds(s, j)
            BY <1>6, <1>7, <2>2, <3>1
        <3>3. QED
            BY <1>5, <3>1, <3>2
    <2>4. CASE ~Holds(s, j)
        <3>1. s = r /\ j = n /\ written'[q][i] = P /\ P \notin MetPaths'
            BY <1>3, <1>5, <2>4
        <3>2. ~Holds(q, i)
            BY <1>6, <1>7, <2>2, <3>1
        <3>3. QED
            BY <1>5, <3>1, <3>2
    <2>5. QED
        BY <2>1, <2>3, <2>4
<1>11. DiskOwned'
    <2> SUFFICES ASSUME NEW path \in disk'
                 PROVE  \E q \in Requests : \E i \in Nat : Owns(q, i)' /\ written'[q][i] = path
        BY DEF DiskOwned
    <2>1. CASE path = P
        BY <1>1, <1>3, <1>5, <2>1 DEF Owns, Live, Before
    <2>2. CASE path \in disk
        <3>1. PICK q \in Requests, i \in Nat : Owns(q, i) /\ written[q][i] = path
            BY <2>2 DEF StagedInv, DiskOwned
        <3>2. q = r => pc'[q] \in Live
            BY <1>1 DEF Live, Before
        <3>3. q # r => (Truncated(q, i) => Truncated(q, i)') /\ pc'[q] = pc[q]
            BY <1>1, <1>3 DEF Truncated
        <3>4. Owns(q, i)'
            BY <1>5, <3>1, <3>2, <3>3 DEF Owns
        <3>5. QED
            BY <1>6, <3>1, <3>4 DEF Owns
    <2>3. QED
        BY <1>1, <2>1, <2>2
<1>12. UnansweredHasCause'
    <2>1. \A q \in Requests : q # r => PathsOf(q)' = PathsOf(q)
        BY <1>3 DEF PathsOf
    <2>2. QED
        BY <1>1, <1>4, <2>1 DEF StagedInv, UnansweredHasCause
<1>13. QED
    BY <1>8, <1>9, <1>10, <1>11, <1>12 DEF StagedFacts

LEMMA AbortBodyStep ==
    ASSUME StagedInv, NEW r \in Requests, AbortBody(r)
    PROVE  StagedFacts'
<1>1. /\ pc[r] \in {"oversized", "full"} /\ pc'[r] \in {"422", "500"}
      /\ \A q \in Requests : q # r => pc'[q] = pc[q]
      /\ disk' = disk \ UploadedPaths(r)
      /\ UNCHANGED <<body, written, met, unlinked>>
    BY DEF AbortBody, Goto, StagedInv, TypeOK
<1>2. MetPaths' = MetPaths /\ \A q \in Requests : PathsOf(q)' = PathsOf(q)
    BY <1>1 DEF MetPaths, PathsOf
<1>3. \A q \in Requests, i \in Nat : Holds(q, i)' <=> Holds(q, i)
    BY <1>1 DEF Holds
<1>4. \A path \in PathsOf(r) : \E i \in Nat : Holds(r, i) /\ written[r][i] = path
    <2>1. unlinked[r] = 0 /\ written[r] \in Seq(Path)
        BY <1>1 DEF StagedInv, RemovedLast, Before, TypeOK
    <2>2. QED
        BY <2>1 DEF PathsOf, Holds
<1>5. RemovedLast'
    BY <1>1 DEF StagedInv, RemovedLast, Before
<1>6. HeldThere'
    <2> SUFFICES ASSUME NEW q \in Requests, pc'[q] \in Live, NEW i \in Nat,
                        Holds(q, i), written[q][i] \notin MetPaths
                 PROVE  written[q][i] \in disk'
        BY <1>1, <1>2, <1>3 DEF HeldThere
    <2>1. q # r /\ pc[q] \in Live /\ pc[r] \in Live
        BY <1>1 DEF Live, Before
    <2>2. written[q][i] \in disk
        BY <2>1 DEF StagedInv, HeldThere
    <2>3. written[q][i] \notin PathsOf(r)
        BY <1>4, <2>1 DEF StagedInv, HeldOnce
    <2>4. UploadedPaths(r) \subseteq PathsOf(r)
        BY DEF UploadedPaths, PathsOf
    <2>5. QED
        BY <1>1, <2>2, <2>3, <2>4
<1>7. HeldOnce'
    BY <1>1, <1>2, <1>3 DEF StagedInv, HeldOnce, Live, Before
<1>8. DiskOwned'
    <2> SUFFICES ASSUME NEW path \in disk'
                 PROVE  \E q \in Requests : \E i \in Nat : Owns(q, i)' /\ written[q][i] = path
        BY <1>1 DEF DiskOwned
    <2>1. PICK q \in Requests, i \in Nat : Owns(q, i) /\ written[q][i] = path
        BY <1>1 DEF StagedInv, DiskOwned
    <2>2. CASE q # r
        BY <1>1, <1>3, <2>1, <2>2 DEF Owns, Truncated
    <2>3. CASE q = r
        <3>1. Truncated(r, i)
            BY <1>1, <2>1, <2>3 DEF UploadedPaths, Owns, Holds
        <3>2. Truncated(r, i)'
            <4>1. pc[r] = "full" /\ pc'[r] = "500"
                BY <1>1, <3>1 DEF Truncated, AbortBody, Goto, StagedInv, TypeOK
            <4>2. QED
                BY <1>1, <3>1, <4>1 DEF Truncated
        <3>3. QED
            BY <1>3, <2>1, <2>3, <3>2 DEF Owns
    <2>4. QED
        BY <2>2, <2>3
<1>9. UnansweredHasCause'
    BY <1>1, <1>2 DEF StagedInv, UnansweredHasCause
<1>10. QED
    BY <1>5, <1>6, <1>7, <1>8, <1>9 DEF StagedFacts

LEMMA UnlinkFileStep ==
    ASSUME StagedInv, NEW r \in Requests, UnlinkFile(r)
    PROVE  StagedFacts'
<1> DEFINE n == unlinked[r] + 1
           P == written[r][n]
<1>1. /\ pc[r] \in {"dropping", "removing"}
      /\ disk' = disk \ {P}
      /\ UNCHANGED <<body, written, met>>
    BY DEF UnlinkFile
<1>2. n \in Nat /\ unlinked[r] \in Nat /\ Holds(r, n)
    <2>1. unlinked[r] \in Nat /\ Len(written[r]) \in Nat /\ unlinked[r] # Len(written[r])
              /\ unlinked[r] <= Len(written[r])
        BY DEF UnlinkFile, AllUnlinked, StagedInv, TypeOK
    <2>2. written[r] \in Seq(Path)
        BY DEF StagedInv, TypeOK
    <2>3. QED
        BY <2>1, <2>2 DEF Holds
<1>3. MetPaths' = MetPaths /\ \A q \in Requests : PathsOf(q)' = PathsOf(q)
    BY <1>1 DEF MetPaths, PathsOf
<1>4. pc[r] \in Live
    BY <1>1 DEF Live
\* The path is gone: the handler throws.
<1>5. CASE P \notin disk
    <2>1. /\ pc' = [pc EXCEPT ![r] = "ENOENT"]
          /\ UNCHANGED <<body, written, disk, met, unlinked>>
        BY <1>1, <1>5 DEF UnlinkFile
    <2>2. P \in MetPaths
        BY <1>2, <1>4, <1>5 DEF StagedInv, HeldThere
    <2>3. P \in PathsOf(r)
        BY <1>2 DEF PathsOf, Holds
    <2>4. QED
        BY <1>1, <2>1, <2>2, <2>3, PcStep DEF Live, Before, Thrown
\* The path is there, and has been this handler's alone unless it was met.
<1>6. CASE P \in disk
    <2>1. pc' = pc /\ unlinked' = [unlinked EXCEPT ![r] = n]
        BY <1>6 DEF UnlinkFile
    <2> HIDE DEF n, P
    <2>2. unlinked'[r] = n /\ \A q \in Requests : q # r => unlinked'[q] = unlinked[q]
        BY <2>1 DEF StagedInv, TypeOK
    <2>3. \A q \in Requests, i \in Nat :
              Holds(q, i)' <=> Holds(q, i) /\ ~(q = r /\ i = n)
        <3> SUFFICES ASSUME NEW q \in Requests, NEW i \in Nat
                     PROVE  Holds(q, i)' <=> Holds(q, i) /\ ~(q = r /\ i = n)
            OBVIOUS
        <3>1. CASE q = r
            BY <1>1, <1>2, <2>2, <3>1 DEF Holds, n
        <3>2. CASE q # r
            BY <1>1, <2>2, <3>2 DEF Holds
        <3>3. QED
            BY <3>1, <3>2
    <2>4. RemovedLast'
        BY <1>1, <2>1, <2>2 DEF StagedInv, RemovedLast, Before
    <2>5. HeldThere'
        <3> SUFFICES ASSUME NEW q \in Requests, pc[q] \in Live, NEW i \in Nat,
                            Holds(q, i), ~(q = r /\ i = n), written[q][i] \notin MetPaths
                     PROVE  written[q][i] \in disk'
            BY <1>1, <1>3, <2>1, <2>3 DEF HeldThere
        <3>1. written[q][i] \in disk
            BY DEF StagedInv, HeldThere
        <3>2. written[q][i] # P
            BY <1>2, <1>4 DEF StagedInv, HeldOnce, P
        <3>3. QED
            BY <1>1, <3>1, <3>2
    <2>6. HeldOnce'
        BY <1>1, <1>3, <2>1, <2>3 DEF StagedInv, HeldOnce
    <2>7. DiskOwned'
        <3> SUFFICES ASSUME NEW path \in disk'
                     PROVE  \E q \in Requests : \E i \in Nat : Owns(q, i)' /\ written[q][i] = path
            BY <1>1 DEF DiskOwned
        <3>1. PICK q \in Requests, i \in Nat : Owns(q, i) /\ written[q][i] = path
            BY <1>1 DEF StagedInv, DiskOwned
        <3>2. ~(q = r /\ i = n)
            BY <1>1, <3>1 DEF P
        <3>3. QED
            BY <1>1, <2>1, <2>3, <3>1, <3>2 DEF Owns, Truncated
    <2>8. UnansweredHasCause'
        BY <1>1, <1>3, <2>1 DEF StagedInv, UnansweredHasCause
    <2>9. QED
        BY <2>4, <2>5, <2>6, <2>7, <2>8 DEF StagedFacts
<1>7. QED
    BY <1>5, <1>6

LEMMA StagedNext == StagedInv /\ [Next]_vars => StagedInv'
<1>1. ASSUME StagedInv, [Next]_vars
      PROVE  StagedFacts'
    <2>1. CASE \E r \in Requests : Opens(r)
        BY <1>1, <2>1, OpenStep
    <2>2. CASE \E r \in Requests : AbortBody(r)
        BY <1>1, <2>2, AbortBodyStep
    <2>3. CASE \E r \in Requests : UnlinkFile(r)
        BY <1>1, <2>3, UnlinkFileStep
    <2>4. CASE PassTime \/ UNCHANGED vars
        <3>1. UNCHANGED <<pc, body, written, disk, met, unlinked>>
            BY <2>4 DEF PassTime, files, vars
        <3>2. MetPaths' = MetPaths /\ \A q \in Requests : PathsOf(q)' = PathsOf(q)
            BY <3>1 DEF MetPaths, PathsOf
        <3>3. \A q \in Requests, i \in Nat :
                  (Holds(q, i)' <=> Holds(q, i)) /\ (Owns(q, i)' <=> Owns(q, i))
            BY <3>1 DEF Holds, Owns, Truncated
        <3>4. QED
            BY <1>1, <3>1, <3>2, <3>3
            DEF StagedInv, StagedFacts, RemovedLast, HeldThere, HeldOnce, DiskOwned,
                UnansweredHasCause
    <2>5. QED
        BY <1>1, <2>1, <2>2, <2>3, <2>4, QuietStep DEF Next, Receive, Handle, Opens
<1>2. QED
    BY <1>1, TypeStep DEF StagedInv, StagedFacts

LEMMA StagedInvariant == Spec => []StagedInv
BY InitStaged, StagedNext, PTL DEF Spec

(***************************************************************************)
(* A request that is never answered, though nothing rejected and no race   *)
(* was lost, staged a file under a path that was found in the folder, or   *)
(* had no multipart body and a parameter missing (unlinkFiles,             *)
(* diskStorage.filename).                                                  *)
(***************************************************************************)
THEOREM UnansweredExplained == Spec => []UnansweredHasCause
BY StagedInvariant, PTL DEF StagedInv

(***************************************************************************)
(* What lies in the uploads folder belongs to a request that runs on or    *)
(* threw, or is the truncated file of one answered with a 500              *)
(* (unlinkFiles, and multer's removal of the uploaded files).              *)
(***************************************************************************)
THEOREM LeftoversExplained == Spec => []FolderAccounted
<1>1. StagedInv => FolderAccounted
    <2> SUFFICES ASSUME StagedInv, NEW path \in disk
                 PROVE  \E r \in Requests : \E i \in DOMAIN written[r] :
                            /\ written[r][i] = path
                            /\ pc[r] \notin Answered \/ Truncated(r, i)
        BY DEF FolderAccounted
    <2>1. PICK r \in Requests, i \in Nat : Owns(r, i) /\ written[r][i] = path
        BY DEF StagedInv, DiskOwned
    <2>2. i \in DOMAIN written[r]
        BY <2>1 DEF Owns, Holds
    <2>3. pc[r] \notin Answered \/ Truncated(r, i)
        BY <2>1 DEF Owns, Live, Before, Thrown, Answered
    <2>4. QED
        BY <2>1, <2>2, <2>3
<1>2. QED
    BY StagedInvariant, <1>1, PTL

-----------------------------------------------------------------------------
(***************************************************************************)
(* Counting.  A slot is a file of a request.  Under each path no more      *)
(* files were removed by unlinkFiles than were created, and a file that    *)
(* found its path in the folder was not created.                           *)
(***************************************************************************)
Slots == Requests \X (1 .. MaxFiles)
StagedAs(path) ==
    {s \in Slots : s[2] \in DOMAIN written[s[1]] /\ written[s[1]][s[2]] = path}
RemovedAs(path) == {s \in StagedAs(path) : s[2] <= unlinked[s[1]]}
MeetingsOf(path) == {m \in met : m[1] = path}
Present(path) == IF path \in disk THEN 1 ELSE 0

MetStaged == \A m \in met : m[3] <= Len(written[m[2]])
SuccessRemoved == \A r \in Requests : pc[r] = "200" => unlinked[r] = Len(written[r])
Paid ==
    \A path \in Path :
        Cardinality(RemovedAs(path)) + Present(path) + Cardinality(MeetingsOf(path))
            <= Cardinality(StagedAs(path))

CountInv ==
    /\ StagedInv
    /\ IsFiniteSet(met)
    /\ MetStaged
    /\ SuccessRemoved
    /\ Paid

LEMMA SlotsFinite ==
    /\ IsFiniteSet(Slots)
    /\ \A S \in SUBSET Slots : IsFiniteSet(S) /\ Cardinality(S) \in Nat
<1>1. IsFiniteSet(1 .. MaxFiles)
    <2>1. 1 \in Int /\ MaxFiles \in Int
        BY AdmissionAssumption
    <2>2. QED
        BY <2>1, FS_Interval
<1>2. IsFiniteSet(Slots)
    BY <1>1, AdmissionAssumption, FS_Product DEF Slots
<1>3. QED
    BY <1>2, FS_Subset, FS_CardinalityType

LEMMA CountedSets ==
    ASSUME CountInv, NEW path \in Path
    PROVE  /\ StagedAs(path) \subseteq Slots /\ RemovedAs(path) \subseteq Slots
           /\ IsFiniteSet(StagedAs(path)) /\ Cardinality(StagedAs(path)) \in Nat
           /\ IsFiniteSet(RemovedAs(path)) /\ Cardinality(RemovedAs(path)) \in Nat
           /\ IsFiniteSet(MeetingsOf(path)) /\ Cardinality(MeetingsOf(path)) \in Nat
           /\ Present(path) \in {0, 1}
<1>1. StagedAs(path) \subseteq Slots /\ RemovedAs(path) \subseteq Slots
    BY DEF StagedAs, RemovedAs
<1>2. MeetingsOf(path) \subseteq met /\ IsFiniteSet(met)
    BY DEF MeetingsOf, CountInv
<1>3. IsFiniteSet(MeetingsOf(path)) /\ Cardinality(MeetingsOf(path)) \in Nat
    BY <1>2, FS_Subset, FS_CardinalityType
<1>4. QED
    BY <1>1, <1>3, SlotsFinite DEF Present

LEMMA InitCount == Init => CountInv
<1> SUFFICES ASSUME Init PROVE CountInv
    OBVIOUS
<1>1. StagedInv
    BY InitStaged
<1>2. IsFiniteSet(met) /\ MetStaged /\ SuccessRemoved
    BY FS_EmptySet DEF Init, MetStaged, SuccessRemoved
<1>3. Paid
    <2> SUFFICES ASSUME NEW path \in Path
                 PROVE  Cardinality(RemovedAs(path)) + Present(path)
                          + Cardinality(MeetingsOf(path)) <= Cardinality(StagedAs(path))
        BY DEF Paid
    <2>1. StagedAs(path) = {}
        BY DEF Init, StagedAs, Slots
    <2>2. RemovedAs(path) = {} /\ MeetingsOf(path) = {} /\ Present(path) = 0
        BY <2>1 DEF Init, RemovedAs, MeetingsOf, Present
    <2>3. QED
        BY <2>1, <2>2, FS_EmptySet
<1>4. QED
    BY <1>1, <1>2, <1>3 DEF CountInv

\* What the staging of a file does to the lists of files.
LEMMA WrittenNext ==
    ASSUME TypeOK, NEW r \in Requests, Opens(r)
    PROVE  /\ Len(written[r]) + 1 \in 1 .. MaxFiles
           /\ Len(written[r]) + 1 \notin DOMAIN written[r]
           /\ DOMAIN written'[r] = DOMAIN written[r] \cup {Len(written[r]) + 1}
           /\ \A i \in DOMAIN written[r] : written'[r][i] = written[r][i]
           /\ written'[r][Len(written[r]) + 1] = NextPath(r)
           /\ Len(written'[r]) = Len(written[r]) + 1
           /\ NextPath(r) \in Path
           /\ \A q \in Requests : q # r => written'[q] = written[q]
<1> DEFINE P == NextPath(r)
<1>1. written[r] \in Seq(Path) /\ P \in Path /\ written \in [Requests -> Seq(Path)]
        /\ Len(written[r]) + 1 \in 1 .. MaxFiles
    BY NextStaged DEF Opens, StageFile, DiskFull, TypeOK
<1>2. written' = [written EXCEPT ![r] = Append(written[r], P)]
    BY DEF Opens, StageFile, DiskFull
<1> HIDE DEF P
<1>3. QED
    BY <1>1, <1>2 DEF P

\* Nothing is staged, and no removal is counted: at most paths disappear.
LEMMA FramePaid ==
    ASSUME CountInv, UNCHANGED <<written, met, unlinked>>, disk' \subseteq disk
    PROVE  Paid'
<1> SUFFICES ASSUME NEW path \in Path
             PROVE  Cardinality(RemovedAs(path)') + Present(path)'
                      + Cardinality(MeetingsOf(path)') <= Cardinality(StagedAs(path)')
    BY DEF Paid
<1>1. /\ StagedAs(path)' = StagedAs(path)
      /\ RemovedAs(path)' = RemovedAs(path)
      /\ MeetingsOf(path)' = MeetingsOf(path)
    BY DEF StagedAs, RemovedAs, MeetingsOf
<1>2. Present(path)' \in {0, 1} /\ Present(path)' <= Present(path)
    BY DEF Present
<1>3. Cardinality(RemovedAs(path)) + Present(path) + Cardinality(MeetingsOf(path))
        <= Cardinality(StagedAs(path))
    BY DEF CountInv, Paid
<1>4. QED
    BY <1>1, <1>2, <1>3, CountedSets

\* One slot more under the path of the file; it is either the first file there
\* or one more meeting.
LEMMA StagePaid ==
    ASSUME CountInv, NEW r \in Requests, Opens(r)
    PROVE  Paid'
<1> SUFFICES ASSUME NEW path \in Path
             PROVE  Cardinality(RemovedAs(path)') + Present(path)'
                      + Cardinality(MeetingsOf(path)') <= Cardinality(StagedAs(path)')
    BY DEF Paid
<1> DEFINE n == Len(written[r]) + 1
           P == NextPath(r)
<1>1. /\ n \in 1 .. MaxFiles /\ n \notin DOMAIN written[r]
      /\ DOMAIN written'[r] = DOMAIN written[r] \cup {n}
      /\ \A i \in DOMAIN written[r] : written'[r][i] = written[r][i]
      /\ written'[r][n] = P
      /\ \A q \in Requests : q # r => written'[q] = written[q]
    BY WrittenNext DEF CountInv, StagedInv
<1>2. /\ disk' = disk \cup {P}
      /\ unlinked' = unlinked
      /\ P \in disk => met' = met \cup {<<P, r, n>>}
      /\ P \notin disk => met' = met
    BY DEF Opens, StageFile, DiskFull
<1>3. n > unlinked[r] /\ <<P, r, n>> \notin met
    <2>1. unlinked[r] \in Nat /\ unlinked[r] <= Len(written[r]) /\ Len(written[r]) \in Nat
        BY DEF CountInv, StagedInv, TypeOK
    <2>2. \A m \in met : m[2] = r => m[3] <= Len(written[r])
        BY DEF CountInv, MetStaged
    <2>3. <<P, r, n>>[2] = r /\ <<P, r, n>>[3] = n
        OBVIOUS
    <2>4. QED
        BY <2>1, <2>2, <2>3
<1> HIDE DEF n, P
<1>4. /\ Cardinality(RemovedAs(path)) + Present(path) + Cardinality(MeetingsOf(path))
           <= Cardinality(StagedAs(path))
      /\ Cardinality(RemovedAs(path)) \in Nat /\ Present(path) \in {0, 1}
      /\ Cardinality(MeetingsOf(path)) \in Nat /\ Cardinality(StagedAs(path)) \in Nat
      /\ IsFiniteSet(MeetingsOf(path)) /\ IsFiniteSet(StagedAs(path))
    BY CountedSets DEF CountInv, Paid
<1>5. \A s \in Slots : s \in StagedAs(path)'
                          <=> s \in StagedAs(path) \/ (s = <<r, n>> /\ path = P)
    <2> SUFFICES ASSUME NEW q \in Requests, NEW i \in 1 .. MaxFiles
                 PROVE  i \in DOMAIN written'[q] /\ written'[q][i] = path
                          <=> \/ i \in DOMAIN written[q] /\ written[q][i] = path
                              \/ q = r /\ i = n /\ path = P
        BY DEF Slots, StagedAs
    <2>1. CASE q = r
        BY <1>1, <2>1
    <2>2. CASE q # r
        BY <1>1, <2>2
    <2>3. QED
        BY <2>1, <2>2
<1>6. <<r, n>> \in Slots /\ <<r, n>> \notin StagedAs(path)
    BY <1>1 DEF Slots, StagedAs
<1>7. RemovedAs(path)' = RemovedAs(path)
    <2>1. RemovedAs(path)' = {s \in StagedAs(path)' : s[2] <= unlinked[s[1]]}
        BY <1>2 DEF RemovedAs
    <2>2. \A s \in StagedAs(path)' : s[2] <= unlinked[s[1]] => s \in StagedAs(path)
        <3>1. StagedAs(path)' \subseteq Slots
            BY DEF StagedAs
        <3>2. n \in Nat /\ unlinked[r] \in Nat /\ ~(n <= unlinked[r])
            BY <1>1, <1>3 DEF CountInv, StagedInv, TypeOK
        <3>3. \A s \in Slots : s = <<r, n>> => ~(s[2] <= unlinked[s[1]])
            BY <3>2
        <3>4. QED
            BY <1>5, <3>1, <3>3
    <2>3. StagedAs(path) \subseteq StagedAs(path)'
        <3>1. StagedAs(path) \subseteq Slots
            BY DEF StagedAs
        <3>2. QED
            BY <1>5, <3>1
    <2>4. QED
        BY <2>1, <2>2, <2>3 DEF RemovedAs
<1>8. CASE path # P
    <2>1. StagedAs(path)' = StagedAs(path)
        <3>1. StagedAs(path) \subseteq Slots /\ StagedAs(path)' \subseteq Slots
            BY DEF StagedAs
        <3>2. QED
            BY <1>5, <1>8, <3>1
    <2>2. MeetingsOf(path)' = MeetingsOf(path) /\ Present(path)' = Present(path)
        <3>1. <<P, r, n>>[1] # path
            BY <1>8
        <3>2. \A m \in met' : m[1] = path => m \in met
            BY <1>2, <3>1
        <3>3. met \subseteq met'
            BY <1>2
        <3>4. MeetingsOf(path)' = MeetingsOf(path)
            BY <3>2, <3>3 DEF MeetingsOf
        <3>5. Present(path)' = Present(path)
            BY <1>2, <1>8 DEF Present
        <3>6. QED
            BY <3>4, <3>5
    <2>3. QED
        BY <1>4, <1>7, <2>1, <2>2
<1>9. CASE path = P
    <2>1. StagedAs(path)' = StagedAs(path) \cup {<<r, n>>}
        <3>1. StagedAs(path) \subseteq Slots /\ StagedAs(path)' \subseteq Slots
            BY DEF StagedAs
        <3>2. QED
            BY <1>5, <1>6, <1>9, <3>1
    <2>2. Cardinality(StagedAs(path)') = Cardinality(StagedAs(path)) + 1
        BY <1>4, <1>6, <2>1, FS_AddElement
    <2>3. Present(path)' = 1
        BY <1>2, <1>9 DEF Present
    <2>4. CASE path \in disk
        <3>1. MeetingsOf(path)' = MeetingsOf(path) \cup {<<P, r, n>>}
            <4>1. met' = met \cup {<<P, r, n>>} /\ <<P, r, n>>[1] = path
                BY <1>2, <1>9, <2>4
            <4>2. QED
                BY <4>1 DEF MeetingsOf
        <3>2. <<P, r, n>> \notin MeetingsOf(path)
            BY <1>3 DEF MeetingsOf
        <3>3. Cardinality(MeetingsOf(path)') = Cardinality(MeetingsOf(path)) + 1
            BY <1>4, <3>1, <3>2, FS_AddElement
        <3>4. Present(path) = 1
            BY <2>4 DEF Present
        <3>5. QED
            BY <1>4, <1>7, <2>2, <2>3, <3>3, <3>4
    <2>5. CASE path \notin disk
        <3>1. MeetingsOf(path)' = MeetingsOf(path) /\ Present(path) = 0
            BY <1>2, <1>9, <2>5 DEF MeetingsOf, Present
        <3>2. QED
            BY <1>4, <1>7, <2>2, <2>3, <3>1
    <2>6. QED
        BY <2>4, <2>5
<1>10. QED
    BY <1>8, <1>9

LEMMA AddAtMost ==
    ASSUME NEW S, IsFiniteSet(S), NEW x
    PROVE  IsFiniteSet(S \cup {x}) /\ Cardinality(S \cup {x}) <= Cardinality(S) + 1
<1>1. CASE x \in S
    <2>1. S \cup {x} = S
        BY <1>1
    <2>2. Cardinality(S) \in Nat
        BY FS_CardinalityType
    <2>3. Cardinality(S) <= Cardinality(S) + 1
        BY <2>2
    <2>4. QED
        BY <2>1, <2>3
<1>2. CASE x \notin S
    <2>1. IsFiniteSet(S \cup {x}) /\ Cardinality(S \cup {x}) = Cardinality(S) + 1
        BY <1>2, FS_AddElement
    <2>2. Cardinality(S) \in Nat
        BY FS_CardinalityType
    <2>3. QED
        BY <2>1, <2>2
<1>3. QED
    BY <1>1, <1>2

\* One removal more under the path of the file, which is there no longer.
LEMMA UnlinkPaid ==
    ASSUME CountInv, NEW r \in Requests, UnlinkFile(r)
    PROVE  Paid'
<1> DEFINE n == unlinked[r] + 1
           P == written[r][n]
<1>1. UNCHANGED <<written, met>> /\ disk' = disk \ {P}
    BY DEF UnlinkFile
<1>2. CASE P \notin disk
    <2>1. unlinked' = unlinked
        BY <1>2 DEF UnlinkFile
    <2>2. QED
        BY <1>1, <2>1, FramePaid
<1>3. CASE P \in disk
    <2> SUFFICES ASSUME NEW path \in Path
                 PROVE  Cardinality(RemovedAs(path)') + Present(path)'
                          + Cardinality(MeetingsOf(path)') <= Cardinality(StagedAs(path)')
        BY DEF Paid
    <2>1. /\ unlinked' = [unlinked EXCEPT ![r] = n]
          /\ unlinked \in [Requests -> Nat]
        BY <1>3 DEF UnlinkFile, CountInv, StagedInv, TypeOK
    <2>2. n \in Nat /\ unlinked[r] = n - 1
        BY <2>1
    <2> HIDE DEF n, P
    <2>3. unlinked'[r] = n /\ \A q \in Requests : q # r => unlinked'[q] = unlinked[q]
        BY <2>1
    <2>4. StagedAs(path)' = StagedAs(path) /\ MeetingsOf(path)' = MeetingsOf(path)
        BY <1>1 DEF StagedAs, MeetingsOf
    <2>5. /\ Cardinality(RemovedAs(path)) + Present(path) + Cardinality(MeetingsOf(path))
               <= Cardinality(StagedAs(path))
          /\ Cardinality(RemovedAs(path)) \in Nat /\ Present(path) \in {0, 1}
          /\ Cardinality(MeetingsOf(path)) \in Nat /\ Cardinality(StagedAs(path)) \in Nat
          /\ IsFiniteSet(RemovedAs(path)) /\ StagedAs(path) \subseteq Slots
        BY CountedSets DEF CountInv, Paid
    <2>6. \A s \in StagedAs(path) :
              s[2] <= unlinked'[s[1]] <=> s[2] <= unlinked[s[1]] \/ s = <<r, n>>
        <3> SUFFICES ASSUME NEW q \in Requests, NEW i \in 1 .. MaxFiles
                     PROVE  i <= unlinked'[q] <=> i <= unlinked[q] \/ (q = r /\ i = n)
            BY <2>5 DEF Slots
        <3>1. i \in Int
            OBVIOUS
        <3>2. CASE q = r
            BY <2>2, <2>3, <3>1, <3>2
        <3>3. CASE q # r
            BY <2>3, <3>3
        <3>4. QED
            BY <3>2, <3>3
    <2>7. RemovedAs(path)' = {s \in StagedAs(path) : s[2] <= unlinked'[s[1]]}
        BY <2>4 DEF RemovedAs
    <2>8. CASE path # P
        <3>1. <<r, n>> \notin StagedAs(path)
            BY <2>8 DEF StagedAs, P
        <3>2. RemovedAs(path)' = RemovedAs(path)
            BY <2>6, <2>7, <3>1 DEF RemovedAs
        <3>3. Present(path)' = Present(path)
            BY <1>1, <2>8 DEF Present
        <3>4. QED
            BY <2>4, <2>5, <3>2, <3>3
    <2>9. CASE path = P
        <3>1. RemovedAs(path)' \subseteq RemovedAs(path) \cup {<<r, n>>}
            BY <2>6, <2>7 DEF RemovedAs
        <3>2. /\ IsFiniteSet(RemovedAs(path) \cup {<<r, n>>})
              /\ Cardinality(RemovedAs(path) \cup {<<r, n>>}) <= Cardinality(RemovedAs(path)) + 1
            BY <2>5, AddAtMost
        <3>3. /\ Cardinality(RemovedAs(path)')
                   <= Cardinality(RemovedAs(path) \cup {<<r, n>>})
              /\ IsFiniteSet(RemovedAs(path)')
            BY <3>1, <3>2, FS_Subset
        <3>4. Present(path) = 1 /\ Present(path)' = 0
            BY <1>1, <1>3, <2>9 DEF Present
        <3>5. Cardinality(RemovedAs(path)') \in Nat
                /\ Cardinality(RemovedAs(path) \cup {<<r, n>>}) \in Nat
            BY <3>2, <3>3, FS_CardinalityType
        <3>6. QED
            BY <2>4, <2>5, <3>2, <3>3, <3>4, <3>5
    <2>10. QED
        BY <2>8, <2>9
<1>4. QED
    BY <1>2, <1>3

LEMMA CountStep == CountInv /\ [Next]_vars => CountInv'
<1> SUFFICES ASSUME CountInv, [Next]_vars PROVE CountInv'
    OBVIOUS
<1>1. StagedInv /\ StagedInv'
    BY StagedNext DEF CountInv
<1>2. TypeOK
    BY <1>1 DEF StagedInv
<1>3. IsFiniteSet(met)'
    <2>1. CASE \E r \in Requests : Opens(r)
        <3>1. PICK r \in Requests : Opens(r)
            BY <2>1
        <3>2. IsFiniteSet(met)
            BY DEF CountInv
        <3>3. IsFiniteSet(met \cup {<<NextPath(r), r, Len(written[r]) + 1>>})
            BY <3>2, AddAtMost
        <3>4. QED
            BY <3>1, <3>2, <3>3 DEF Opens, StageFile, DiskFull, Goto
    <2>2. CASE ~\E r \in Requests : Opens(r)
        <3>1. met' = met
            BY <2>2 DEF Next, Receive, Handle, Arrive, Refuse, Admit, NoSpace, Opens,
                        AbortBody, MissingParams, NoFiles, BodyAccepted, Counted, CountRejects,
                        CountFails, AddFiles, AddRejects, FinishRejects, UnlinkFile, Dropped,
                        Uploaded, PassTime, files, vars
        <3>2. QED
            BY <3>1 DEF CountInv
    <2>3. QED
        BY <2>1, <2>2
<1>4. MetStaged'
    <2>1. ASSUME NEW r \in Requests, Opens(r)
          PROVE  MetStaged'
        <3>1. /\ Len(written'[r]) = Len(written[r]) + 1
              /\ \A q \in Requests : q # r => written'[q] = written[q]
            BY <1>2, <2>1, WrittenNext
        <3>2. met' \subseteq met \cup {<<NextPath(r), r, Len(written[r]) + 1>>}
            BY <2>1 DEF Opens, StageFile, DiskFull, Goto
        <3> SUFFICES ASSUME NEW m \in met' PROVE m[3] <= Len(written'[m[2]])
            BY DEF MetStaged
        <3>3. CASE m \in met
            <4>1. m[2] \in Requests /\ m[3] \in Nat /\ m[3] <= Len(written[m[2]])
                BY <1>2, <3>3 DEF TypeOK, CountInv, MetStaged
            <4>2. Len(written[m[2]]) \in Nat
                BY <1>2, <4>1 DEF TypeOK
            <4>3. QED
                BY <3>1, <4>1, <4>2
        <3>4. CASE m = <<NextPath(r), r, Len(written[r]) + 1>>
            <4>1. m[2] = r /\ m[3] = Len(written[r]) + 1 /\ Len(written[r]) \in Nat
                BY <1>2, <3>4 DEF TypeOK
            <4>2. QED
                BY <3>1, <4>1
        <3>5. QED
            BY <3>2, <3>3, <3>4
    <2>2. CASE ~\E r \in Requests : Opens(r)
        <3>1. met' = met /\ written' = written
            BY <2>2 DEF Next, Receive, Handle, Arrive, Refuse, Admit, NoSpace, Opens,
                        AbortBody, MissingParams, NoFiles, BodyAccepted, Counted, CountRejects,
                        CountFails, AddFiles, AddRejects, FinishRejects, UnlinkFile, Dropped,
                        Uploaded, PassTime, files, vars
        <3>2. QED
            BY <3>1 DEF CountInv, MetStaged
    <2>3. QED
        BY <2>1, <2>2
<1>5. SuccessRemoved'
    <2> SUFFICES ASSUME NEW q \in Requests, pc'[q] = "200"
                 PROVE  unlinked'[q] = Len(written'[q])
        BY DEF SuccessRemoved
    <2>1. ASSUME NEW r \in Requests, Uploaded(r)
          PROVE  unlinked'[q] = Len(written'[q])
        <3>1. unlinked' = unlinked /\ written' = written /\ AllUnlinked(r)
            BY <2>1 DEF Uploaded, files
        <3>2. q # r => pc[q] = "200"
            BY <1>2, <2>1 DEF Uploaded, Goto, TypeOK
        <3>3. QED
            BY <3>1, <3>2 DEF AllUnlinked, CountInv, SuccessRemoved
    <2>2. ASSUME NEW r \in Requests, Opens(r)
          PROVE  unlinked'[q] = Len(written'[q])
        <3>1. q # r /\ pc[q] = "200"
            BY <1>2, <2>2 DEF Opens, StageFile, DiskFull, Goto, TypeOK
        <3>2. unlinked' = unlinked /\ written'[q] = written[q]
            BY <1>2, <2>2, <3>1, WrittenNext DEF Opens, StageFile, DiskFull, Goto
        <3>3. QED
            BY <3>1, <3>2 DEF CountInv, SuccessRemoved
    <2>3. ASSUME NEW r \in Requests, UnlinkFile(r)
          PROVE  unlinked'[q] = Len(written'[q])
        <3>1. /\ pc[r] \in {"dropping", "removing"} /\ written' = written
              /\ pc' = pc \/ pc' = [pc EXCEPT ![r] = "ENOENT"]
              /\ unlinked' = unlinked \/ unlinked' = [unlinked EXCEPT ![r] = @ + 1]
            BY <2>3 DEF UnlinkFile
        <3>2. q # r /\ pc[q] = "200"
            BY <1>2, <3>1 DEF TypeOK
        <3>3. QED
            BY <1>2, <3>1, <3>2 DEF TypeOK, CountInv, SuccessRemoved
    <2>4. CASE ~\E r \in Requests : Uploaded(r) \/ Opens(r) \/ UnlinkFile(r)
        <3>1. unlinked' = unlinked /\ written' = written
            BY <2>4 DEF Next, Receive, Handle, Arrive, Refuse, Admit, NoSpace, Opens,
                        AbortBody, MissingParams, NoFiles, BodyAccepted, Counted, CountRejects,
                        CountFails, AddFiles, AddRejects, FinishRejects, Dropped, PassTime,
                        files, vars
        <3>2. pc[q] = "200"
            BY <1>2, <2>4 DEF TypeOK, Next, Receive, Handle, Arrive, Refuse, Admit, NoSpace,
                              Opens, AbortBody, MissingParams, NoFiles, BodyAccepted, Counted,
                              CountRejects, CountFails, AddFiles, AddRejects, FinishRejects,
                              Dropped, PassTime, files, vars, Goto
        <3>3. QED
            BY <3>1, <3>2 DEF CountInv, SuccessRemoved
    <2>5. QED
        BY <2>1, <2>2, <2>3, <2>4
<1>6. Paid'
    <2>1. CASE \E r \in Requests : Opens(r)
        BY <2>1, StagePaid
    <2>2. CASE \E r \in Requests : UnlinkFile(r)
        BY <2>2, UnlinkPaid
    <2>3. CASE ~\E r \in Requests : Opens(r) \/ UnlinkFile(r)
        <3>1. UNCHANGED <<written, met, unlinked>> /\ disk' \subseteq disk
            BY <2>3 DEF Next, Receive, Handle, Arrive, Refuse, Admit, NoSpace, Opens,
                        AbortBody, MissingParams, NoFiles, BodyAccepted, Counted, CountRejects,
                        CountFails, AddFiles, AddRejects, FinishRejects, Dropped, Uploaded,
                        PassTime, files, vars
        <3>2. QED
            BY <3>1, FramePaid
    <2>4. QED
        BY <2>1, <2>2, <2>3
<1>7. QED
    BY <1>1, <1>3, <1>4, <1>5, <1>6 DEF CountInv

(***************************************************************************)
(* For each staging that finds its path in the folder one staging under    *)
(* that path does not come to success (diskStorage.filename, unlinkFiles). *)
(***************************************************************************)
THEOREM MeetingsPaid == Spec => []MeetingCosts
<1>1. CountInv => MeetingCosts
    <2> SUFFICES ASSUME CountInv, NEW path \in MetPaths
                 PROVE  Cardinality(MeetingsOf(path)) <=
                            Cardinality({s \in Slots :
                                            /\ s[2] \in DOMAIN written[s[1]]
                                            /\ written[s[1]][s[2]] = path
                                            /\ pc[s[1]] # "200"})
        BY DEF MeetingCosts, MeetingsOf, Slots
    <2> DEFINE Open == {s \in Slots : /\ s[2] \in DOMAIN written[s[1]]
                                      /\ written[s[1]][s[2]] = path
                                      /\ pc[s[1]] # "200"}
    <2>1. path \in Path
        BY DEF MetPaths, CountInv, StagedInv, TypeOK
    <2>2. StagedAs(path) \subseteq Open \cup RemovedAs(path)
        <3> SUFFICES ASSUME NEW s \in StagedAs(path), pc[s[1]] = "200"
                     PROVE  s[2] <= unlinked[s[1]]
            BY DEF StagedAs, RemovedAs
        <3>1. s[1] \in Requests /\ s[2] \in DOMAIN written[s[1]]
            BY DEF StagedAs, Slots
        <3>2. written[s[1]] \in Seq(Path)
            BY <3>1 DEF CountInv, StagedInv, TypeOK
        <3>3. s[2] <= Len(written[s[1]])
            BY <3>1, <3>2
        <3>4. QED
            BY <3>1, <3>3 DEF CountInv, SuccessRemoved
    <2>3. IsFiniteSet(Open) /\ Cardinality(Open) \in Nat
        <3>1. Open \subseteq Slots
            OBVIOUS
        <3>2. QED
            BY <3>1, SlotsFinite
    <2> HIDE DEF Open
    <2>4. /\ IsFiniteSet(RemovedAs(path)) /\ Cardinality(RemovedAs(path)) \in Nat
          /\ Cardinality(StagedAs(path)) \in Nat /\ Cardinality(MeetingsOf(path)) \in Nat
          /\ Present(path) \in {0, 1}
        BY <2>1, CountedSets
    <2>5. /\ IsFiniteSet(Open \cup RemovedAs(path))
          /\ Cardinality(Open \cup RemovedAs(path)) <= Cardinality(Open) + Cardinality(RemovedAs(path))
          /\ Cardinality(Open \cup RemovedAs(path)) \in Nat
        <3>1. IsFiniteSet(Open \cap RemovedAs(path)) /\ Cardinality(Open \cap RemovedAs(path)) \in Nat
            <4>1. Open \cap RemovedAs(path) \subseteq Open
                OBVIOUS
            <4>2. QED
                BY <2>3, <4>1, FS_Subset, FS_CardinalityType
        <3>2. /\ IsFiniteSet(Open \cup RemovedAs(path))
              /\ Cardinality(Open \cup RemovedAs(path))
                   = Cardinality(Open) + Cardinality(RemovedAs(path))
                       - Cardinality(Open \cap RemovedAs(path))
            BY <2>3, <2>4, FS_Union
        <3>3. QED
            BY <2>3, <2>4, <3>1, <3>2, FS_CardinalityType
    <2>6. Cardinality(StagedAs(path)) <= Cardinality(Open \cup RemovedAs(path))
        BY <2>2, <2>5, FS_Subset
    <2>7. Cardinality(RemovedAs(path)) + Present(path) + Cardinality(MeetingsOf(path))
            <= Cardinality(StagedAs(path))
        BY <2>1 DEF CountInv, Paid
    <2>8. QED
        BY <2>3, <2>4, <2>5, <2>6, <2>7 DEF Open
<1>2. Spec => []CountInv
    BY InitCount, CountStep, PTL DEF Spec
<1>3. QED
    BY <1>1, <1>2, PTL

-----------------------------------------------------------------------------
(***************************************************************************)
(* The reserve.  A request that still receives its body was counted at the *)
(* last admission, and each file that takes space since then is one of a   *)
(* counted request.                                                        *)
(***************************************************************************)
Charged == {s \in Slots : s[1] \in exposed /\ s[2] \in DOMAIN written[s[1]]}

WritersExposed == \A r \in Requests : pc[r] \in Writing => r \in exposed
SpaceKept ==
    exposed # {} => Cardinality(disk) + 1 + Reserve <= Capacity + Cardinality(Charged)

SpaceInv ==
    /\ TypeOK
    /\ IsFiniteSet(disk)
    /\ WritersExposed
    /\ SpaceKept

LEMMA ChargedFinite == IsFiniteSet(Charged) /\ Cardinality(Charged) \in Nat
<1>1. Charged \subseteq Slots
    BY DEF Charged
<1>2. QED
    BY <1>1, SlotsFinite

LEMMA StageSpace ==
    ASSUME SpaceInv, NEW r \in Requests, Opens(r)
    PROVE  IsFiniteSet(disk)' /\ WritersExposed' /\ SpaceKept'
<1> DEFINE n == Len(written[r]) + 1
           P == NextPath(r)
<1>1. /\ n \in 1 .. MaxFiles /\ n \notin DOMAIN written[r]
      /\ DOMAIN written'[r] = DOMAIN written[r] \cup {n}
      /\ \A q \in Requests : q # r => written'[q] = written[q]
    BY WrittenNext DEF SpaceInv
<1>2. /\ disk' = disk \cup {P} /\ exposed' = exposed
      /\ pc[r] = "staging" /\ \A q \in Requests : q # r => pc'[q] = pc[q]
    BY DEF Opens, StageFile, DiskFull, Goto, SpaceInv, TypeOK
<1>3. r \in exposed
    BY <1>2 DEF SpaceInv, WritersExposed, Writing
<1> HIDE DEF n, P
<1>4. WritersExposed'
    BY <1>2, <1>3 DEF SpaceInv, WritersExposed
<1>5. /\ IsFiniteSet(disk') /\ Cardinality(disk') \in Nat
      /\ IsFiniteSet(disk) /\ Cardinality(disk) \in Nat
      /\ Cardinality(disk') <= Cardinality(disk) + 1
    <2>1. IsFiniteSet(disk)
        BY DEF SpaceInv
    <2>2. QED
        BY <1>2, <2>1, AddAtMost, FS_CardinalityType
<1>6. Cardinality(Charged') = Cardinality(Charged) + 1
    <2>1. \A s \in Slots : s \in Charged' <=> s \in Charged \/ s = <<r, n>>
        <3> SUFFICES ASSUME NEW q \in Requests, NEW i \in 1 .. MaxFiles
                     PROVE  q \in exposed' /\ i \in DOMAIN written'[q]
                              <=> \/ q \in exposed /\ i \in DOMAIN written[q]
                                  \/ q = r /\ i = n
            BY DEF Slots, Charged
        <3>1. CASE q = r
            BY <1>1, <1>2, <1>3, <3>1
        <3>2. CASE q # r
            BY <1>1, <1>2, <3>2
        <3>3. QED
            BY <3>1, <3>2
    <2>2. <<r, n>> \in Slots /\ <<r, n>> \notin Charged
        BY <1>1 DEF Slots, Charged
    <2>3. Charged \subseteq Slots /\ Charged' \subseteq Slots
        BY DEF Charged
    <2>4. Charged' = Charged \cup {<<r, n>>}
        BY <2>1, <2>2, <2>3
    <2>5. QED
        BY <2>2, <2>4, ChargedFinite, FS_AddElement
<1>7. SpaceKept'
    <2>1. Cardinality(disk) + 1 + Reserve <= Capacity + Cardinality(Charged)
        BY <1>3 DEF SpaceInv, SpaceKept
    <2>2. QED
        BY <1>5, <1>6, <2>1, ChargedFinite, AdmissionAssumption DEF SpaceKept
<1>8. QED
    BY <1>4, <1>5, <1>7

LEMMA AdmitSpace ==
    ASSUME SpaceInv, NEW r \in Requests, Admit(r)
    PROVE  IsFiniteSet(disk)' /\ WritersExposed' /\ SpaceKept'
<1>1. disk' = disk /\ IsFiniteSet(disk) /\ Cardinality(disk) \in Nat
    BY FS_CardinalityType DEF Admit, files, SpaceInv
<1>2. WritersExposed'
    BY DEF Admit, Goto, SpaceInv, TypeOK, WritersExposed
<1>3. Charged' \subseteq Slots
    BY DEF Charged
<1>4. Cardinality(Charged') \in Nat
    BY <1>3, SlotsFinite
<1>5. Cardinality(disk) + 1 + Reserve <= Capacity
    BY <1>1, AdmissionAssumption DEF Admit, Free
<1>6. QED
    BY <1>1, <1>2, <1>4, <1>5, AdmissionAssumption DEF SpaceKept

\* No step but the two above writes a file or counts requests.
LEMMA OtherSpace ==
    ASSUME SpaceInv, [Next]_vars, ~\E r \in Requests : Opens(r) \/ Admit(r)
    PROVE  IsFiniteSet(disk)' /\ WritersExposed' /\ SpaceKept'
<1>1. disk' \subseteq disk /\ written' = written /\ exposed' = exposed
    BY DEF Next, Receive, Handle, Arrive, Refuse, NoSpace, Opens, AbortBody, MissingParams,
           NoFiles, BodyAccepted, Counted, CountRejects, CountFails, AddFiles, AddRejects,
           FinishRejects, UnlinkFile, Dropped, Uploaded, PassTime, files, vars
<1>2. \A q \in Requests : pc'[q] \in Writing => pc[q] \in Writing
    <2>1. ASSUME NEW r \in Requests, NEW to, pc' = [pc EXCEPT ![r] = to],
                 to \in Writing => pc[r] \in Writing
          PROVE  \A q \in Requests : pc'[q] \in Writing => pc[q] \in Writing
        BY <2>1 DEF SpaceInv, TypeOK
    <2>2. ASSUME NEW r \in Requests,
                 Arrive(r) \/ Refuse(r) \/ NoSpace(r) \/ AbortBody(r) \/ MissingParams(r)
                   \/ NoFiles(r) \/ BodyAccepted(r) \/ Counted(r) \/ CountRejects(r)
                   \/ CountFails(r) \/ AddFiles(r) \/ AddRejects(r) \/ Dropped(r)
                   \/ Uploaded(r) \/ FinishRejects(r)
          PROVE  \E to : /\ pc' = [pc EXCEPT ![r] = to]
                         /\ to \in Writing => pc[r] \in Writing
        <3>1. CASE Arrive(r) \/ Refuse(r) \/ NoSpace(r) \/ AbortBody(r)
            BY <3>1 DEF Arrive, Refuse, NoSpace, AbortBody, Goto, Writing
        <3>2. CASE CountRejects(r) \/ AddRejects(r) \/ FinishRejects(r)
            BY <3>2 DEF CountRejects, AddRejects, FinishRejects, Goto, Writing
        <3>3. CASE MissingParams(r) \/ NoFiles(r) \/ BodyAccepted(r)
            BY <3>3 DEF MissingParams, NoFiles, BodyAccepted, Goto, Writing
        <3>4. CASE Counted(r) \/ CountFails(r) \/ AddFiles(r) \/ Dropped(r) \/ Uploaded(r)
            BY <3>4 DEF Counted, CountFails, AddFiles, Dropped, Uploaded, Goto, Writing
        <3>5. QED
            BY <2>2, <3>1, <3>2, <3>3, <3>4
    <2>3. ASSUME NEW r \in Requests, UnlinkFile(r)
          PROVE  pc' = pc \/ pc' = [pc EXCEPT ![r] = "ENOENT"]
        BY <2>3 DEF UnlinkFile
    <2>4. CASE PassTime \/ UNCHANGED vars
        BY <2>4 DEF PassTime, vars
    <2>5. QED
        BY <2>1, <2>2, <2>3, <2>4 DEF Next, Receive, Handle, Writing, Opens
<1>3. WritersExposed'
    BY <1>1, <1>2 DEF SpaceInv, WritersExposed
<1>4. Charged' = Charged
    BY <1>1 DEF Charged
<1>5. /\ IsFiniteSet(disk') /\ Cardinality(disk') \in Nat /\ Cardinality(disk) \in Nat
      /\ Cardinality(disk') <= Cardinality(disk)
    BY <1>1, FS_Subset, FS_CardinalityType DEF SpaceInv
<1>6. SpaceKept'
    BY <1>1, <1>4, <1>5, ChargedFinite, AdmissionAssumption DEF SpaceInv, SpaceKept
<1>7. QED
    BY <1>3, <1>5, <1>6

(***************************************************************************)
(* From an admission on, the disk loses at most the files of the requests  *)
(* that were receiving their bodies then (isEnoughSpace).                  *)
(***************************************************************************)
THEOREM ReserveLost == Spec => []ReserveBound
<1>1. Init => SpaceInv
    BY InitStaged, FS_EmptySet DEF Init, StagedInv, SpaceInv, WritersExposed, SpaceKept, Writing
<1>2. SpaceInv /\ [Next]_vars => SpaceInv'
    BY TypeStep, StageSpace, AdmitSpace, OtherSpace DEF SpaceInv
<1>3. SpaceInv => ReserveBound
    <2> SUFFICES ASSUME SpaceInv, exposed # {}
                 PROVE  Free >= 1 + Reserve
                          - Cardinality({s \in exposed \X (1 .. MaxFiles) :
                                             s[2] \in DOMAIN body[s[1]].files})
        BY DEF ReserveBound
    <2> DEFINE Due == {s \in exposed \X (1 .. MaxFiles) : s[2] \in DOMAIN body[s[1]].files}
    <2>1. Due \subseteq Slots
        BY DEF Slots, SpaceInv, TypeOK
    <2>2. Charged \subseteq Due
        <3> SUFFICES ASSUME NEW q \in Requests, NEW i \in 1 .. MaxFiles,
                            q \in exposed, i \in DOMAIN written[q]
                     PROVE  i \in DOMAIN body[q].files
            BY DEF Charged, Slots
        <3>1. written[q] \in Seq(Path) /\ Len(written[q]) <= Len(body[q].files)
            BY DEF SpaceInv, TypeOK
        <3>2. body[q].files \in Seq(File) /\ Len(body[q].files) \in Nat
            BY BodyFiles DEF SpaceInv, TypeOK
        <3>3. QED
            BY <3>1, <3>2
    <2> HIDE DEF Due
    <2>3. /\ IsFiniteSet(Due) /\ Cardinality(Due) \in Nat
          /\ Cardinality(Charged) <= Cardinality(Due)
        BY <2>1, <2>2, SlotsFinite, FS_Subset
    <2>4. Cardinality(disk) \in Nat
        BY FS_CardinalityType DEF SpaceInv
    <2>5. QED
        BY <2>3, <2>4, ChargedFinite, AdmissionAssumption DEF SpaceInv, SpaceKept, Free, Due
<1>4. QED
    BY <1>1, <1>2, <1>3, PTL DEF Spec
=============================================================================
