------------------------ MODULE RecoveryRecordProofs ------------------------
(***************************************************************************)
(* What Recovery promises about records, for any number of keys, bases,    *)
(* records in a blob and crashes: a key none of whose operations a crash   *)
(* cut short, and whose record was in no window the code does not survive, *)
(* reads as it was acknowledged (RecordsSurvive).                          *)
(*                                                                         *)
(* The invariant is Safe, on top of Inv.  An acknowledged record has one   *)
(* live entry in all files (Recorded).  Its slot holds it, all entries     *)
(* before its own are within the data file and all behind have later slots *)
(* (Holds), so that a repair, which stops at the first invalid entry,      *)
(* keeps it and lets the next append begin behind it.  Writes in flight    *)
(* have slots of their own (InLine).  During a merge the record is in the  *)
(* result too (Carried), which gets the first name of the group once the   *)
(* files of all its bases are gone (Landing).                              *)
(***************************************************************************)
EXTENDS RecoveryProofs

(* The entries of a base: those in use, and those the next start will use. *)
Used(b) == IF sorted[b] # NoFile THEN sorted[b] ELSE Created(index[b])

(* The slots that are not being reserved.                                  *)
Filled(b) == IF Holding(b) THEN dataOffset[b] - 1 ELSE dataOffset[b]

(* The writes in flight are in line: slots ascend with the entries, and    *)
(* what comes before an entry is within the data file, or will be together *)
(* with its record.                                                        *)
InLine(k, b, o) ==
    /\ o.ver # 0
    /\ mutex # k => o.pos <= Filled(b)
    /\ o.pc # "index" => index[b][o.at].pos = o.pos
    /\ \A j \in DOMAIN index[b] :
          /\ j < o.at => Within(b, index[b][j]) \/ index[b][j].pos < o.pos
          /\ j > o.at /\ index[b][j].key # 0 => o.pos < index[b][j].pos
Tidy(b) ==
    /\ Len(index[b]) <= Settled(b) + 1
    /\ \A j \in DOMAIN index[b] :
          j <= Settled(b) => Within(b, index[b][j]) \/ index[b][j].pos <= Filled(b)
Lined(b) == Tidy(b) /\ \A k \in Keys : \A o \in {op[k]} : o.base = b => InLine(k, b, o)
Flights == phase = "up" => \A b \in Unsorted : Lined(b)

(* An entry that answers for k: live, settled, not the one being written.  *)
Answers(k, b, i) ==
    /\ b \in Found /\ i \in DOMAIN Used(b) /\ Mine(k, Used(b)[i])
    /\ phase = "up" /\ b \in Unsorted => i <= Settled(b)
    /\ op[k].base = b => op[k].at # i

(* Its record is the acknowledged one, and the appends to come are behind. *)
Holds(k, b, i) ==
    \A s \in {Used(b)} : \A p \in {s[i].pos} :
    /\ p \in DOMAIN data[b] /\ data[b][p].ver = acked[k] /\ Within(b, s[i])
    /\ phase = "up" /\ b \in Unsorted => p <= Filled(b)
    /\ sorted[b] = NoFile =>
          \A j \in DOMAIN s : /\ j < i => Within(b, s[j])
                              /\ j > i /\ s[j].key # 0 => p < s[j].pos

(* The repair of the next start does not cut it off.                       *)
Spared(k, b) ==
    \A s \in {Used(b)} :
    phase # "up" /\ sorted[b] = NoFile /\ Len(s) < RecordsInBlob /\ (\A c \in Found : c <= b) =>
        \A m \in DOMAIN s :
            /\ m + 1 \in DOMAIN s /\ ~Within(b, s[m + 1])
            /\ \A j \in DOMAIN s : j <= m => Within(b, s[j])
            => s[m].key \notin {0, k}

(* The hash has it as long as its base is not sorted.                      *)
Loc(b, i) == [base |-> b, at |-> i, pos |-> Used(b)[i].pos]
Known(k, b, i) ==
    phase = "up" => /\ op[k] # Idle => op[k].old = Loc(b, i)
                    /\ b \in Unsorted => cache[k] = Loc(b, i)
                    /\ b \notin Unsorted => cache[k] = NoLoc

Alone(k, b, i) == \A c \in Bases : \A j \in Nat : Answers(k, c, j) => c = b /\ j = i
Recorded(k, b, i) ==
    Answers(k, b, i) /\ Holds(k, b, i) /\ Spared(k, b) /\ Known(k, b, i) /\ Alone(k, b, i)

(* Until its old record is marked, and again after its commit.             *)
Steady(k) == op[k].pc \notin {"markdata", "payload"}
Absent(k) ==
    /\ \A c \in Bases : \A j \in Nat : ~Answers(k, c, j)
    /\ Steady(k) => cache[k] = NoLoc /\ op[k].old = NoLoc
Survives(k) ==
    IF acked[k] # 0 /\ Steady(k) THEN \E b \in Bases : \E i \in Nat : Recorded(k, b, i)
    ELSE Absent(k)

(* A merge: what is live in its bases is in its result, which has the      *)
(* acknowledged record.                                                    *)
Merges == job.todo # <<>> /\ chunk # NoFile
Merged(k) == Merges /\ Live(chunk.entries, k) # {}
Moved(k) == Merged(k) /\ job.todo[1] # <<"unlink data", Min(job.group)>>
Carries(k) ==
    \E i \in DOMAIN chunk.entries :
          /\ \A j \in Live(chunk.entries, k) : j = i
          /\ chunk.entries[i].pos \in DOMAIN chunk.cells
          /\ chunk.cells[chunk.entries[i].pos].ver = acked[k]
Carried(k) ==
    /\ op[k] = Idle /\ cache[k] = NoLoc /\ acked[k] # 0
    /\ \A c \in Bases : \A j \in Nat : Answers(k, c, j) => c \in job.group
    /\ Carries(k)
Taking ==
    \A c \in job.group \cap Found : \A i \in DOMAIN Used(c) : \A k \in Keys :
        Mine(k, Used(c)[i]) => Merged(k)
Landing ==
    Merges => \A b \in Bases :
        /\ job.todo[1] \in {<<"rename index", b>>, <<"link", b>>} =>
              data[b] = chunk.cells /\ whole[b]
        /\ job.todo[1] = <<"link", b>> => sorted[b] = chunk.entries

Safe ==
    phase # "failed" =>
      /\ Flights /\ Taking /\ Landing
      /\ \A k \in Keys \ unsure : (~Moved(k) => Survives(k)) /\ (Merged(k) => Carried(k))


(* The entries of a base are a file of entries.                            *)
LEMMA UsedIs ==
  ASSUME Types, LinkedIs, NEW b \in Bases, NEW s, s = Used(b)
  PROVE /\ s \in Seq(SoundEntry) /\ Len(s) \in Nat /\ DOMAIN s = 1 .. Len(s)
        /\ \A i \in DOMAIN s : s[i] \in SoundEntry /\ s[i].pos \in Nat /\ s[i].key \in Nat
<1>1. s \in Seq(SoundEntry)
  <2>1. CASE sorted[b] # NoFile
    BY <2>1, FileIs DEF Used
  <2>2. CASE sorted[b] = NoFile /\ index[b] = NoFile
    BY <2>2 DEF Used, Created
  <2>3. CASE sorted[b] = NoFile /\ index[b] # NoFile
    BY <2>3, FileIs DEF Used, Created, LinkedIs
  <2> QED BY <2>1, <2>2, <2>3
<1>2. Len(s) \in Nat /\ DOMAIN s = 1 .. Len(s) /\ \A i \in DOMAIN s : s[i] \in SoundEntry
  BY <1>1, SeqIs
<1> QED BY <1>1, <1>2, EntryIs

(* The bases an operation sees have their data, and the others that have   *)
(* are the sorter's.                                                       *)
LEMMA SeenIs ==
  ASSUME Inv, phase = "up"
  PROVE /\ Visible \subseteq Found /\ Found \subseteq Visible \cup job.group
        /\ Found \subseteq Bases
        /\ Unsorted \subseteq Visible /\ Unsorted \subseteq Bases
        /\ \A b \in Visible : b \in open /\ b \notin job.group /\ b \in Bases
        /\ \A b \in Visible : (b \in Unsorted <=> b \notin sortFd)
        /\ \A b \in Unsorted : b \notin job.group /\ b \notin sortFd /\ b \in open
<1>1. Types /\ OpenFiles /\ JobIs
  BY DEF Inv
<1>2. ASSUME NEW b \in open, b \in job.group PROVE b \in sortFd
  <2>1. job.todo # <<>>
    <3>1. NoJob.group = {}
      BY DEF NoJob
    <3> QED BY <1>1, <1>2, <3>1 DEF JobIs
  <2>2. CASE Removing
    BY <1>2, <2>2 DEF Removing
  <2>3. ASSUME NEW f, Merging(f) PROVE b \in sortFd
    BY <1>2, <2>3 DEF Merging
  <2> HIDE DEF Removing, Merging
  <2> QED BY <1>1, <2>1, <2>2, <2>3 DEF JobIs
<1>3. ASSUME NEW b \in Visible PROVE b \in Found /\ b \in open /\ b \notin job.group /\ b \in Bases
  BY <1>1, <1>3, VisibleIs, FilesDiffer DEF Visible, Found
<1>4. Found \subseteq Visible \cup job.group /\ Found \subseteq Bases
  BY <1>1 DEF OpenFiles, Serving, Visible, Found
<1>5. ASSUME NEW b \in Unsorted PROVE b \in Visible /\ b \notin sortFd
  BY <1>2, <1>5 DEF Unsorted, Visible
<1>6. ASSUME NEW b \in Visible PROVE b \in Unsorted <=> b \notin sortFd
  BY <1>3, <1>6 DEF Unsorted
<1> QED BY <1>3, <1>4, <1>5, <1>6

(* The file an operation uses.                                             *)
LEMMA UsedBy ==
  ASSUME Inv, phase = "up", NEW b \in Visible
  PROVE /\ b \in sortFd => Used(b) = sorted[b] /\ sorted[b] # NoFile
        /\ b \notin sortFd => Used(b) = index[b] /\ sorted[b] = NoFile
                              /\ index[b] \in Seq(SoundEntry)
<1>1. Types /\ OpenFiles
  BY DEF Inv
<1>2. /\ b \in sortFd => sorted[b] \in Seq(SoundEntry)
      /\ b \notin sortFd => index[b] \in Seq(SoundEntry) /\ sorted[b] = NoFile
  BY <1>1, VisibleIs
<1> QED BY <1>2, FilesDiffer DEF Used, Created

(* The slots that are not being reserved.                                  *)
LEMMA FilledIs ==
  ASSUME Types, OpsAre, NEW b \in Bases
  PROVE /\ Filled(b) \in Nat
        /\ mutex \notin Keys => Filled(b) = dataOffset[b]
        /\ \A k \in Keys : mutex = k /\ op[k].base = b =>
              Filled(b) = dataOffset[b] - 1 /\ op[k].pos = Filled(b) + 1
        /\ \A k \in Keys : mutex = k /\ op[k].base # b => Filled(b) = dataOffset[b]
<1>1. dataOffset[b] \in Nat
  BY FileIs
<1>2. ASSUME NEW k \in Keys, mutex = k, op[k].base = b
      PROVE Filled(b) = dataOffset[b] - 1 /\ op[k].pos = dataOffset[b] /\ op[k].pos # 0
  <2>1. Filled(b) = dataOffset[b] - 1
    BY <1>2 DEF Filled, Holding
  <2>2. OpIs(k, op[k]) /\ b # 0
    BY BaseIs DEF OpsAre
  <2> QED BY <1>2, <2>1, <2>2 DEF OpIs
<1>3. ASSUME NEW k \in Keys, mutex = k, op[k].base # b
      PROVE Filled(b) = dataOffset[b]
  BY <1>3 DEF Filled, Holding
<1>4. mutex \notin Keys => Filled(b) = dataOffset[b]
  BY DEF Filled, Holding
<1>5. Filled(b) \in Nat
  <2>1. CASE mutex \in Keys
    BY <1>1, <1>2, <1>3, <2>1
  <2>2. CASE mutex \notin Keys
    BY <1>1, <1>4, <2>2
  <2> QED BY <2>1, <2>2
<1>6. ASSUME NEW k \in Keys, mutex = k, op[k].base = b
      PROVE Filled(b) = dataOffset[b] - 1 /\ op[k].pos = Filled(b) + 1
  BY <1>1, <1>2, <1>6
<1> QED BY <1>3, <1>4, <1>5, <1>6

(* What a write in flight has of the index of its base.                    *)
Flight(k, b, o) ==
    /\ b \in Bases /\ b \in Visible /\ b \in Unsorted /\ b \notin sortFd
    /\ index[b] \in Seq(SoundEntry) /\ Used(b) = index[b] /\ sorted[b] = NoFile
    /\ o.at \in Nat \ {0} /\ o.pos \in Nat \ {0} /\ o.ver \in Nat /\ o.ver # 0
    /\ Settled(b) \in Nat /\ Filled(b) \in Nat
    /\ InLine(k, b, o) /\ Lined(b)
    /\ mutex = k => o.at = Settled(b) + 1 /\ o.pos = Filled(b) + 1
    /\ mutex # k => o.at <= Settled(b) /\ o.pos <= Filled(b)
    /\ o.pc # "index" => /\ o.at \in DOMAIN index[b] /\ Mine(k, index[b][o.at])
                         /\ index[b][o.at].pos = o.pos
    /\ o.pc = "index" => mutex = k

(* Every write in flight has it.                                           *)
LEMMA FlightIs ==
  ASSUME Inv, phase = "up", Flights, NEW k \in Keys, NEW o, o = op[k], NEW b, b = o.base, b # 0
  PROVE Flight(k, b, o)
<1>1. Types /\ OpsAre /\ OpenFiles
  BY DEF Inv
<1>2. OpIs(k, o)
  BY <1>1 DEF OpsAre
<1>3. b \in open /\ b \notin sortFd /\ b \notin job.group
  BY <1>2 DEF OpIs
<1>4. b \in Visible /\ b \in Unsorted /\ b \in Bases
  BY <1>3, SeenIs DEF Visible, Unsorted
<1>5. index[b] \in Seq(SoundEntry) /\ Used(b) = index[b] /\ sorted[b] = NoFile
  BY <1>3, <1>4, UsedBy
<1>6. o.at \in Nat \ {0} /\ o.pos \in Nat \ {0} /\ o.ver \in Nat
  BY <1>1, <1>2, OpFields DEF OpIs
<1>7. /\ Settled(b) \in Nat /\ Filled(b) \in Nat
      /\ mutex = k => o.at = Settled(b) + 1 /\ o.pos = Filled(b) + 1
  BY <1>1, <1>4, SettledIs, FilledIs
<1>8. Lined(b)
  BY <1>4 DEF Flights
<1>9. InLine(k, b, o)
  BY <1>8 DEF Lined
<1>10. mutex # k => o.at <= Settled(b)
  BY <1>2 DEF OpIs
<1>11. o.pc # "index" => o.at <= Len(index[b]) /\ Mine(k, index[b][o.at])
  BY <1>2 DEF OpIs
<1>12. o.pc = "index" => mutex = k
  BY <1>2 DEF OpIs
<1>13. o.at <= Len(index[b]) => o.at \in DOMAIN index[b]
  BY <1>5, <1>6, SeqIs
<1>14. /\ o.ver # 0 /\ (mutex # k => o.pos <= Filled(b))
       /\ (o.pc # "index" => index[b][o.at].pos = o.pos)
  BY <1>9 DEF InLine
<1> HIDE DEF Settled, Filled, Lined, InLine, OpIs, Mine
<1> QED BY <1>3, <1>4, <1>5, <1>6, <1>7, <1>8, <1>9, <1>10, <1>11, <1>12, <1>13, <1>14 DEF Flight

(* No write in flight has the slot of a record that answers.               *)
LEMMA Apart ==
  ASSUME Inv, phase = "up", Flights, NEW j \in Keys, NEW b \in Bases, NEW i \in Nat,
         Answers(j, b, i), Holds(j, b, i), NEW k \in Keys, op[k].base = b
  PROVE op[k].pos # Used(b)[i].pos
<1>1. PICK o : o = op[k]
  OBVIOUS
<1>2. PICK s : s = index[b]
  OBVIOUS
<1>3. b # 0 /\ o.base = b
  BY <1>1, BaseIs
<1>4. /\ b \in Unsorted /\ s \in Seq(SoundEntry) /\ Used(b) = s /\ sorted[b] = NoFile
      /\ o.at \in Nat /\ o.pos \in Nat /\ InLine(k, b, o)
      /\ Settled(b) \in Nat /\ Filled(b) \in Nat
      /\ mutex = k => o.at = Settled(b) + 1 /\ o.pos = Filled(b) + 1
      /\ o.pc # "index" => o.at \in DOMAIN s /\ Mine(k, s[o.at]) /\ s[o.at].pos = o.pos
      /\ o.pc = "index" => mutex = k
  <2>1. Flight(k, b, o)
    BY <1>1, <1>3, FlightIs
  <2> HIDE DEF Settled, Filled, InLine, Mine
  <2> QED BY <1>2, <2>1 DEF Flight
<1>5. i \in DOMAIN s /\ Mine(j, s[i]) /\ i <= Settled(b) /\ (op[j].base = b => op[j].at # i)
  BY <1>4 DEF Answers
<1>6. /\ s[i].pos <= Filled(b) /\ s[i].pos \in Nat
      /\ \A m \in DOMAIN s : m > i /\ s[m].key # 0 => s[i].pos < s[m].pos
  <2>1. s[i].pos \in Nat
    BY <1>4, <1>5, SeqIs, EntryIs
  <2>2. /\ s[i].pos <= Filled(b)
        /\ \A m \in DOMAIN s : m > i /\ s[m].key # 0 => s[i].pos < s[m].pos
    BY <1>4 DEF Holds
  <2> QED BY <2>1, <2>2
<1>7. \A m \in DOMAIN s : m > o.at /\ s[m].key # 0 => o.pos < s[m].pos
  BY <1>2, <1>4 DEF InLine
<1>8. s[i].key = j /\ j # 0 /\ k # 0
  BY <1>5, KeysAssumption DEF Mine
<1>9. CASE o.pc = "index"
  BY <1>1, <1>4, <1>6, <1>9
<1>10. CASE o.pc # "index"
  <2>1. o.at \in DOMAIN s /\ s[o.at].key = k /\ s[o.at].pos = o.pos
    BY <1>4, <1>10 DEF Mine
  <2>2. o.at # i
    BY <1>1, <1>3, <1>5, <1>8, <2>1
  <2>3. CASE o.at > i
    BY <1>1, <1>4, <1>6, <1>8, <2>1, <2>3
  <2>4. CASE o.at < i
    BY <1>1, <1>4, <1>5, <1>6, <1>7, <1>8, <2>4
  <2> QED BY <1>4, <2>2, <2>3, <2>4
<1> QED BY <1>9, <1>10


(* What holds of the files and sizes of every state.                       *)
Frames ==
    /\ \A b \in Bases : /\ Settled(b) \in Nat /\ Filled(b) \in Nat /\ b \in Nat \ {0}
                        /\ Used(b) \in Seq(SoundEntry)
    /\ \A k \in Keys : \A b \in {op[k].base} : b # 0 =>
          /\ phase = "up" /\ b \in Unsorted
          /\ mutex = k => op[k].at = Settled(b) + 1 /\ op[k].pos = Filled(b) + 1
          /\ mutex # k => op[k].at <= Settled(b)
    /\ phase = "up" =>
          /\ Visible \subseteq Found /\ Found \subseteq Visible \cup job.group
          /\ Found \subseteq Bases /\ Unsorted \subseteq Visible
          /\ \A b \in Visible :
                /\ b \in open /\ b \notin job.group /\ b \in Bases
                /\ b \in Unsorted <=> b \notin sortFd
                /\ data[b] \in Seq(Cell)
                /\ b \in sortFd => Used(b) = sorted[b] /\ sorted[b] # NoFile
                /\ b \notin sortFd => Used(b) = index[b] /\ sorted[b] = NoFile

(* It follows from the invariant, before a step and after it.              *)
LEMMA NowFrames == Inv => Frames
<1> SUFFICES ASSUME Inv PROVE Frames
  OBVIOUS
<1>1. Types /\ LinkedIs /\ OpsAre /\ OpenFiles /\ Resting
  BY DEF Inv
<1>2. ASSUME NEW b \in Bases
      PROVE  Settled(b) \in Nat /\ Filled(b) \in Nat /\ b \in Nat \ {0} /\ Used(b) \in Seq(SoundEntry)
  BY <1>1, <1>2, SettledIs, FilledIs, BaseIs, UsedIs
<1>3. ASSUME NEW k \in Keys, NEW b, b = op[k].base, b # 0
      PROVE  /\ phase = "up" /\ b \in Unsorted
             /\ mutex = k => op[k].at = Settled(b) + 1 /\ op[k].pos = Filled(b) + 1
             /\ mutex # k => op[k].at <= Settled(b)
  <2>1. OpIs(k, op[k])
    BY <1>1 DEF OpsAre
  <2>2. phase = "up"
    BY <1>1, <1>3, IdleFields DEF Resting
  <2>3. b \in open /\ b \notin sortFd /\ (mutex # k => op[k].at <= Settled(b))
    BY <1>3, <2>1 DEF OpIs
  <2>4. b \in Bases /\ b \in Unsorted
    BY <1>1, <2>3 DEF Types, Unsorted
  <2>5. mutex = k => op[k].at = Settled(b) + 1 /\ op[k].pos = Filled(b) + 1
    BY <1>1, <1>3, <2>4, SettledIs, FilledIs
  <2> QED BY <2>2, <2>3, <2>4, <2>5
<1>4. ASSUME phase = "up", NEW b \in Visible
      PROVE  /\ data[b] \in Seq(Cell)
             /\ b \in sortFd => Used(b) = sorted[b] /\ sorted[b] # NoFile
             /\ b \notin sortFd => Used(b) = index[b] /\ sorted[b] = NoFile
  BY <1>1, <1>4, VisibleIs, UsedBy
<1> HIDE DEF Settled, Filled
<1> QED BY <1>2, <1>3, <1>4, SeenIs DEF Frames

(* The same of the next state.                                             *)
LEMMA NextFrames == (Inv => Frames)'
BY NowFrames, PTL

-----------------------------------------------------------------------------
(* Steps of an operation, which leave the entries of the keys in Q alone.  *)

(* An unsorted index: entries keep their key and slot, missing ones become *)
(* holes, and the next one may be written by the one that has reserved it. *)
Entered(k, b, Q) ==
    /\ index'[b] \in Seq(SoundEntry) /\ Len(index'[b]) >= Len(index[b])
    /\ \A i \in DOMAIN index'[b] :
          \/ /\ i \in DOMAIN index[b]
             /\ index'[b][i].key = index[b][i].key /\ index'[b][i].pos = index[b][i].pos
             /\ index[b][i].key \in Q => index'[b][i] = index[b][i]
          \/ /\ i <= Settled(b) /\ i \notin DOMAIN index[b]
             /\ index'[b][i].key = 0 /\ index'[b][i].pos = 0
          \/ /\ i = Settled(b) + 1 /\ mutex = k /\ op[k].base = b
             /\ index'[b][i].key = k /\ index'[b][i].pos = op[k].pos

(* Its sizes, which grow when b->lock is given up.                         *)
Sized(k, b) ==
    \/ Settled(b)' = Settled(b) /\ Filled(b)' = Filled(b)
    \/ /\ mutex = k /\ op[k].base = b /\ op[k].pc # "index" /\ index'[b] = index[b]
       /\ Settled(b)' = Settled(b) + 1 /\ Filled(b)' = Filled(b) + 1
       /\ op'[k].base = b /\ op'[k].at = op[k].at

(* A sorted index.                                                         *)
Flagged(b, Q) ==
    /\ Len(sorted'[b]) = Len(sorted[b])
    /\ \A i \in DOMAIN sorted[b] :
          /\ sorted'[b][i].key = sorted[b][i].key
          /\ sorted[b][i].key \in Q => sorted'[b][i] = sorted[b][i]

(* The data file: only the slot of the write gets another record.          *)
Versions(k, b) ==
    /\ Longer(b)
    /\ \A p \in DOMAIN data[b] :
          /\ p \in DOMAIN data'[b]
          /\ ~(op[k].base = b /\ op[k].pos = p) => data'[b][p].ver = data[b][p].ver

Gentle(k, Q) ==
    /\ phase = "up" /\ phase' = "up" /\ sortFd' = sortFd /\ job' = job /\ chunk' = chunk
    /\ open \subseteq open' /\ unsure \subseteq unsure'
    /\ \A j \in Keys : j # k => op'[j] = op[j] /\ cache'[j] = cache[j] /\ acked'[j] = acked[j]
                                /\ (mutex' = j <=> mutex = j)
    /\ \A b \in Visible : Versions(k, b)
    /\ \A b \in Visible \cap sortFd : Flagged(b, Q)
    /\ \A b \in Visible \ sortFd : Entered(k, b, Q) /\ Sized(k, b)
    /\ \A b \in job.group : data'[b] = data[b] /\ whole'[b] = whole[b]
                            /\ index'[b] = index[b] /\ sorted'[b] = sorted[b]
    /\ \A b \in open' \ open : b \in Visible' /\ b \notin Found /\ index'[b] = <<>>

(* The operation on j has no other entry than before among the settled.    *)
Places(j) ==
    \A b \in Bases : \A i \in Nat : i <= Settled(b) =>
        (op'[j].base = b /\ op'[j].at = i <=> op[j].base = b /\ op[j].at = i)

(* What answers for j still does, and nothing else.                        *)
LEMMA AnswersStay ==
  ASSUME Inv, Inv', Flights, NEW k \in Keys, NEW Q, Gentle(k, Q), NEW j \in Q, j \in Keys,
         Places(j), NEW b \in Bases, NEW i \in Nat
  PROVE /\ Answers(j, b, i)' <=> Answers(j, b, i)
        /\ Answers(j, b, i) => /\ Used(b)'[i] = Used(b)[i]
                               /\ b \in Unsorted' <=> b \in Unsorted
                               /\ b \in Visible \cup job.group
<1>1. Frames /\ Frames'
  BY NowFrames, NextFrames
<1>2. /\ phase = "up" /\ phase' = "up" /\ sortFd' = sortFd /\ job' = job /\ open \subseteq open'
  BY DEF Gentle
<1>3. b \in Nat \ {0}
  BY <1>1 DEF Frames
<1>4. CASE b \in job.group
  <2>1. data'[b] = data[b] /\ index'[b] = index[b] /\ sorted'[b] = sorted[b]
    BY <1>4 DEF Gentle
  <2>2. Used(b)' = Used(b) /\ (b \in Found' <=> b \in Found)
    BY <2>1 DEF Used, Created, Found
  <2>3. b \notin Unsorted /\ b \notin Unsorted'
    BY <1>1, <1>2, <1>4 DEF Frames
  <2>4. op[j].base # b /\ op'[j].base # b
    BY <1>1, <1>3, <2>3 DEF Frames
  <2> QED BY <1>4, <2>2, <2>3, <2>4 DEF Answers, Mine
<1>5. CASE b \in Visible
  <2>1. b \in open /\ b \notin job.group /\ b \in Found
    BY <1>1, <1>2, <1>5 DEF Frames
  <2>2. b \in Visible' /\ b \in Found'
    <3>1. b \in Visible'
      BY <1>2, <2>1 DEF Visible
    <3> QED BY <1>1, <1>2, <3>1 DEF Frames
  <2>3. b \in Unsorted <=> b \notin sortFd
    BY <1>1, <1>2, <1>5 DEF Frames
  <2>4. b \in Unsorted' <=> b \notin sortFd
    BY <1>1, <1>2, <2>2 DEF Frames
  <2>5. CASE b \in sortFd
    <3>1. PICK s \in Seq(SoundEntry) : s = Used(b)
      BY <1>1 DEF Frames
    <3>2. PICK t \in Seq(SoundEntry) : t = Used(b)'
      BY <1>1 DEF Frames
    <3>3. s = sorted[b] /\ t = sorted'[b]
      BY <1>1, <1>2, <1>5, <2>2, <2>5, <3>1, <3>2 DEF Frames
    <3>4. /\ Len(t) = Len(s)
          /\ \A m \in DOMAIN s : t[m].key = s[m].key /\ (s[m].key \in Q => t[m] = s[m])
      BY <1>5, <2>5, <3>3 DEF Gentle, Flagged
    <3>5. DOMAIN t = DOMAIN s
      BY <3>4, SeqIs
    <3>6. op[j].base # b /\ op'[j].base # b
      <4>1. b \notin Unsorted /\ b \notin Unsorted'
        BY <2>3, <2>4, <2>5
      <4>2. op[j].base # b
        BY <1>1, <1>3, <4>1 DEF Frames
      <4>3. op'[j].base # b
        BY <1>1, <1>3, <4>1 DEF Frames
      <4> QED BY <4>2, <4>3
    <3>7. ASSUME i \in DOMAIN s, s[i].key = j \/ t[i].key = j PROVE t[i] = s[i]
      BY <3>4, <3>7
    <3>8. Answers(j, b, i) <=> i \in DOMAIN s /\ Mine(j, s[i])
      BY <2>1, <2>3, <2>5, <3>1, <3>6 DEF Answers
    <3>9. Answers(j, b, i)' <=> i \in DOMAIN t /\ Mine(j, t[i])
      BY <1>2, <2>2, <2>4, <2>5, <3>2, <3>6 DEF Answers, Mine
    <3> QED BY <1>5, <2>3, <2>4, <3>1, <3>2, <3>5, <3>7, <3>8, <3>9 DEF Mine
  <2>6. CASE b \notin sortFd
    <3>1. PICK s \in Seq(SoundEntry) : s = Used(b)
      BY <1>1 DEF Frames
    <3>2. PICK t \in Seq(SoundEntry) : t = Used(b)'
      BY <1>1 DEF Frames
    <3>3. s = index[b] /\ t = index'[b]
      BY <1>1, <1>2, <1>5, <2>2, <2>6, <3>1, <3>2 DEF Frames
    <3>4. Settled(b) \in Nat /\ Settled(b)' \in Nat
      BY <1>1 DEF Frames
    <3>5. Entered(k, b, Q) /\ Sized(k, b)
      BY <1>5, <2>6 DEF Gentle
    <3> HIDE DEF Settled, Filled
    <3>6. /\ DOMAIN s \subseteq DOMAIN t
          /\ \A m \in DOMAIN t :
               \/ m \in DOMAIN s /\ t[m].key = s[m].key /\ (s[m].key \in Q => t[m] = s[m])
               \/ m <= Settled(b) /\ m \notin DOMAIN s /\ t[m].key = 0
               \/ m = Settled(b) + 1
      <4>1. Len(t) >= Len(s)
        BY <3>3, <3>5 DEF Entered
      <4>2. DOMAIN s \subseteq DOMAIN t
        BY <4>1, SeqIs
      <4> QED BY <3>3, <3>5, <4>2 DEF Entered
    <3>7. Answers(j, b, i) <=> /\ i \in DOMAIN s /\ Mine(j, s[i]) /\ i <= Settled(b)
                               /\ (op[j].base = b => op[j].at # i)
      BY <1>2, <2>1, <2>3, <2>6, <3>1 DEF Answers
    <3>8. Answers(j, b, i)' <=> /\ i \in DOMAIN t /\ Mine(j, t[i]) /\ i <= Settled(b)'
                                /\ (op'[j].base = b => op'[j].at # i)
      BY <1>2, <2>2, <2>4, <2>6, <3>2 DEF Answers, Mine
    <3>9. j # 0
      BY KeysAssumption
    <3>10. ASSUME i <= Settled(b)
           PROVE  /\ i \in DOMAIN t /\ Mine(j, t[i]) <=> i \in DOMAIN s /\ Mine(j, s[i])
                  /\ i \in DOMAIN s /\ Mine(j, s[i]) => t[i] = s[i]
      BY <3>4, <3>6, <3>9, <3>10 DEF Mine
    <3>11. ASSUME i > Settled(b), Answers(j, b, i)' PROVE FALSE
      <4>1. /\ mutex = k /\ op[k].base = b /\ op[k].pc # "index" /\ t = s
            /\ op'[k].base = b /\ op'[k].at = op[k].at /\ i = Settled(b) + 1
        BY <3>3, <3>4, <3>5, <3>8, <3>11 DEF Sized
      <4>2. op[k].at = i /\ Mine(k, s[i])
        <5>1. Flight(k, b, op[k])
          BY <1>2, <1>3, <4>1, FlightIs
        <5> QED BY <3>3, <4>1, <5>1 DEF Flight
      <4>3. j = k
        BY <3>8, <3>11, <4>1, <4>2 DEF Mine
      <4> QED BY <3>8, <3>11, <4>1, <4>2, <4>3
    <3>12. i <= Settled(b) => (op'[j].base = b /\ op'[j].at = i <=> op[j].base = b /\ op[j].at = i)
      BY DEF Places
    <3>13. i <= Settled(b) => i <= Settled(b)'
      BY <3>4, <3>5 DEF Sized
    <3>14. Answers(j, b, i)' <=> Answers(j, b, i)
      <4> HIDE DEF Answers
      <4> QED BY <3>4, <3>7, <3>8, <3>10, <3>11, <3>12, <3>13
    <3> QED BY <1>5, <2>3, <2>4, <3>1, <3>2, <3>7, <3>10, <3>14
  <2> QED BY <2>5, <2>6
<1>6. CASE b \notin Visible /\ b \notin job.group
  <2>1. b \notin Found
    BY <1>1, <1>2, <1>6 DEF Frames
  <2>2. ~Answers(j, b, i)
    BY <2>1 DEF Answers
  <2>3. CASE b \in open' \ open
    <3>1. index'[b] = <<>> /\ b \in Visible'
      BY <2>3 DEF Gentle
    <3>2. b \notin sortFd
      BY <2>3 DEF Inv, Types
    <3>3. Used(b)' = <<>>
      BY <1>1, <1>2, <3>1, <3>2 DEF Frames
    <3>4. ~Answers(j, b, i)'
      BY <3>3 DEF Answers
    <3> QED BY <2>2, <3>4
  <2>4. CASE b \notin open' \ open
    <3>1. b \notin Visible' /\ b \notin job'.group
      BY <1>2, <1>6, <2>4 DEF Visible
    <3>2. b \notin Found'
      BY <1>1, <1>2, <3>1 DEF Frames
    <3> QED BY <2>2, <3>2 DEF Answers
  <2> QED BY <2>3, <2>4
<1> QED BY <1>4, <1>5, <1>6


(* The record of an entry that answers stays the acknowledged one.         *)
LEMMA HoldsStay ==
  ASSUME Inv, Inv', Flights, NEW k \in Keys, NEW Q, Gentle(k, Q), NEW j \in Q, j \in Keys,
         Places(j), NEW b \in Bases, NEW i \in Nat, acked'[j] = acked[j],
         Answers(j, b, i), Holds(j, b, i)
  PROVE Holds(j, b, i)'
<1>1. Frames /\ Frames'
  BY NowFrames, NextFrames
<1>2. phase = "up" /\ phase' = "up" /\ sortFd' = sortFd /\ job' = job /\ open \subseteq open'
  BY DEF Gentle
<1>3. PICK s \in Seq(SoundEntry) : s = Used(b)
  BY <1>1 DEF Frames
<1>4. PICK t \in Seq(SoundEntry) : t = Used(b)'
  BY <1>1 DEF Frames
<1>5. /\ t[i] = s[i] /\ (b \in Unsorted' <=> b \in Unsorted) /\ b \in Visible \cup job.group
      /\ i \in DOMAIN s /\ i \in DOMAIN t
  <2>1. Answers(j, b, i)' /\ Used(b)'[i] = Used(b)[i] /\ b \in Visible \cup job.group
        /\ (b \in Unsorted' <=> b \in Unsorted)
    BY AnswersStay
  <2>2. i \in DOMAIN s /\ i \in DOMAIN t
    BY <1>3, <1>4, <2>1 DEF Answers
  <2> QED BY <1>3, <1>4, <2>1, <2>2
<1>6. PICK p : p = s[i].pos
  OBVIOUS
<1>7. /\ p \in DOMAIN data[b] /\ data[b][p].ver = acked[j] /\ Within(b, s[i]) /\ p \in Nat
      /\ b \in Unsorted => p <= Filled(b)
      /\ sorted[b] = NoFile =>
           \A m \in DOMAIN s : /\ m < i => Within(b, s[m])
                               /\ m > i /\ s[m].key # 0 => p < s[m].pos
  <2>1. p \in Nat
    BY <1>5, <1>6, SeqIs, EntryIs
  <2>2. /\ p \in DOMAIN data[b] /\ data[b][p].ver = acked[j] /\ Within(b, s[i])
        /\ b \in Unsorted => p <= Filled(b)
        /\ sorted[b] = NoFile =>
             \A m \in DOMAIN s : /\ m < i => Within(b, s[m])
                                 /\ m > i /\ s[m].key # 0 => p < s[m].pos
    BY <1>2, <1>3, <1>6 DEF Holds
  <2> QED BY <2>1, <2>2
<1>8. Longer(b)
  <2>1. CASE b \in job.group
    <3>1. data'[b] = data[b] /\ whole'[b] = whole[b]
      BY <2>1 DEF Gentle
    <3> QED BY <3>1 DEF Longer, Within
  <2>2. CASE b \in Visible
    BY <2>2 DEF Gentle, Versions
  <2> QED BY <1>5, <2>1, <2>2
<1>9. p \in DOMAIN data'[b] /\ data'[b][p].ver = acked[j]
  <2>1. CASE b \in job.group
    BY <1>7, <2>1 DEF Gentle
  <2>2. CASE b \in Visible
    <3>1. ~(op[k].base = b /\ op[k].pos = p)
      BY <1>2, <1>3, <1>6, Apart
    <3>2. Versions(k, b)
      BY <2>2 DEF Gentle
    <3> QED BY <1>7, <3>1, <3>2 DEF Versions
  <2> QED BY <1>5, <2>1, <2>2
<1>10. \A e \in SoundEntry : Within(b, e) => Within(b, e)'
  BY <1>8 DEF Longer
<1>11. Within(b, t[i])'
  <2>1. PICK e \in SoundEntry : e = t[i]
    BY <1>5, SeqIs
  <2>2. Within(b, e)
    BY <1>5, <1>7, <2>1
  <2>3. Within(b, e)'
    BY <1>10, <2>2
  <2> QED BY <2>1, <2>3 DEF Within
<1> HIDE DEF Settled, Filled
<1>12. Settled(b) \in Nat /\ Filled(b) \in Nat /\ Filled(b)' \in Nat /\ Settled(b)' \in Nat
  BY <1>1 DEF Frames
<1>13. ASSUME b \in Unsorted PROVE p <= Filled(b)'
  <2>1. b \in Visible \ sortFd
    BY <1>1, <1>2, <1>13 DEF Frames
  <2>2. Sized(k, b)
    BY <2>1 DEF Gentle
  <2> QED BY <1>7, <1>12, <1>13, <2>2 DEF Sized
<1>14. ASSUME sorted'[b] = NoFile, NEW m \in DOMAIN t
       PROVE  /\ m < i => Within(b, t[m])'
              /\ m > i /\ t[m].key # 0 => p < t[m].pos
  <2>1. CASE b \in job.group
    <3>1. t = s /\ sorted[b] = NoFile
      BY <1>3, <1>4, <1>14, <2>1 DEF Gentle, Used, Created
    <3>2. PICK e \in SoundEntry : e = t[m]
      BY <1>14, SeqIs
    <3>3. Within(b, e) => Within(b, e)'
      BY <1>10
    <3>4. Within(b, e)' => Within(b, t[m])'
      BY <3>2 DEF Within
    <3>5. m < i => Within(b, e)
      BY <1>7, <1>14, <3>1, <3>2
    <3>6. m > i /\ t[m].key # 0 => p < t[m].pos
      BY <1>7, <1>14, <3>1
    <3> HIDE DEF Within
    <3> QED BY <3>3, <3>4, <3>5, <3>6
  <2>2. CASE b \in Visible
    <3>1. b \in Visible' /\ b \in Bases
      BY <1>1, <1>2, <2>2 DEF Frames, Visible
    <3>2. b \notin sortFd
      BY <1>1, <1>2, <1>14, <3>1 DEF Frames
    <3>3. s = index[b] /\ t = index'[b] /\ sorted[b] = NoFile /\ b \in Unsorted
      BY <1>1, <1>2, <1>3, <1>4, <2>2, <3>1, <3>2 DEF Frames
    <3>4. \/ m \in DOMAIN s /\ t[m].key = s[m].key /\ t[m].pos = s[m].pos
          \/ m <= Settled(b) /\ m \notin DOMAIN s /\ t[m].key = 0
          \/ /\ m = Settled(b) + 1 /\ mutex = k /\ op[k].base = b
             /\ t[m].pos = op[k].pos
      <4>1. Entered(k, b, Q)
        BY <2>2, <3>2 DEF Gentle
      <4> QED BY <1>14, <3>3, <4>1 DEF Entered
    <3>5. i <= Settled(b)
      BY <1>2, <3>3 DEF Answers
    <3>6. mutex = k /\ op[k].base = b => op[k].pos = Filled(b) + 1
      <4>1. b # 0
        BY BaseIs
      <4> QED BY <1>1, <4>1 DEF Frames
    <3>7. m \in Nat /\ (m < i => m \in DOMAIN s)
      BY <1>5, <1>14, SeqIs
    <3>8. ASSUME m < i PROVE Within(b, t[m])'
      <4>1. m \in DOMAIN s /\ t[m].pos = s[m].pos
        BY <1>12, <3>4, <3>5, <3>7, <3>8
      <4>2. PICK e \in SoundEntry : e = s[m]
        BY <4>1, SeqIs
      <4>3. Within(b, e)
        BY <1>7, <3>3, <3>8, <4>1, <4>2
      <4>4. Within(b, e)'
        BY <1>10, <4>3
      <4> QED BY <4>1, <4>2, <4>4 DEF Within
    <3>9. ASSUME m > i, t[m].key # 0 PROVE p < t[m].pos
      <4>1. CASE m \in DOMAIN s /\ t[m].key = s[m].key /\ t[m].pos = s[m].pos
        BY <1>7, <3>3, <3>9, <4>1
      <4>2. CASE m = Settled(b) + 1 /\ mutex = k /\ op[k].base = b /\ t[m].pos = op[k].pos
        BY <1>7, <1>12, <3>3, <3>6, <4>2
      <4> QED BY <3>4, <3>9, <4>1, <4>2
    <3> QED BY <3>8, <3>9
  <2> QED BY <1>5, <2>1, <2>2
<1>15. Used(b)' = t /\ t[i].pos = p
  BY <1>4, <1>5, <1>6
<1>16. ASSUME NEW u \in {Used(b)'}, NEW q \in {u[i].pos}
       PROVE  /\ q \in DOMAIN data'[b] /\ data'[b][q].ver = acked'[j] /\ Within(b, u[i])'
              /\ phase' = "up" /\ b \in Unsorted' => q <= Filled(b)'
              /\ sorted'[b] = NoFile =>
                   \A m \in DOMAIN u : /\ m < i => Within(b, u[m])'
                                       /\ m > i /\ u[m].key # 0 => q < u[m].pos
  <2>1. u = t /\ q = p
    BY <1>15, <1>16
  <2>2. Within(b, u[i])'
    BY <1>11, <2>1 DEF Within
  <2>3. sorted'[b] = NoFile => \A m \in DOMAIN u : m < i => Within(b, u[m])'
    BY <1>14, <2>1 DEF Within
  <2>4. sorted'[b] = NoFile => \A m \in DOMAIN u : m > i /\ u[m].key # 0 => q < u[m].pos
    BY <1>14, <2>1
  <2> HIDE DEF Within
  <2> QED BY <1>5, <1>9, <1>13, <2>1, <2>2, <2>3, <2>4
<1> QED BY <1>16 DEF Holds, Within

(* So the key has it where it was.                                         *)
LEMMA RecordStays ==
  ASSUME Inv, Inv', Flights, NEW k \in Keys, NEW Q, Gentle(k, Q), NEW j \in Q, j \in Keys,
         Places(j), NEW b \in Bases, NEW i \in Nat, acked'[j] = acked[j], Recorded(j, b, i),
         op'[j] # Idle => op'[j].old = Loc(b, i),
         cache'[j] = cache[j]
  PROVE Recorded(j, b, i)'
<1>1. /\ Answers(j, b, i) /\ Holds(j, b, i) /\ Known(j, b, i) /\ Alone(j, b, i)
  BY DEF Recorded
<1>2. phase = "up" /\ phase' = "up"
  BY DEF Gentle
<1>3. \A c \in Bases : \A m \in Nat : Answers(j, c, m)' <=> Answers(j, c, m)
  BY AnswersStay
<1>4. /\ Answers(j, b, i)' /\ Used(b)'[i] = Used(b)[i]
      /\ (b \in Unsorted' <=> b \in Unsorted)
  BY <1>1, AnswersStay
<1>5. Holds(j, b, i)'
  BY <1>1, HoldsStay
<1>6. Spared(j, b)'
  BY <1>2 DEF Spared
<1>7. Loc(b, i)' = Loc(b, i)
  BY <1>4 DEF Loc
<1>8. Known(j, b, i)'
  <2> HIDE DEF Loc, Idle
  <2> QED BY <1>1, <1>2, <1>4, <1>7 DEF Known
<1>9. Alone(j, b, i)'
  <2> HIDE DEF Answers
  <2> QED BY <1>1, <1>3 DEF Alone
<1> HIDE DEF Answers, Holds, Spared, Known, Alone
<1> QED BY <1>4, <1>5, <1>6, <1>8, <1>9 DEF Recorded

(* The keys of other operations.                                           *)
LEMMA OtherSurvives ==
  ASSUME Inv, Inv', Flights, NEW k \in Keys, NEW Q, Gentle(k, Q), NEW j \in Q, j \in Keys,
         j # k, Survives(j)
  PROVE Survives(j)'
<1>1. op'[j] = op[j] /\ cache'[j] = cache[j] /\ acked'[j] = acked[j]
  BY DEF Gentle
<1>2. Places(j)
  BY <1>1 DEF Places
<1>3. Steady(j)' <=> Steady(j)
  BY <1>1 DEF Steady
<1>4. CASE acked[j] # 0 /\ Steady(j)
  <2>1. PICK b \in Bases, i \in Nat : Recorded(j, b, i)
    BY <1>4 DEF Survives
  <2>2. op'[j] # Idle => op'[j].old = Loc(b, i)
    <3>1. Known(j, b, i) /\ phase = "up"
      BY <2>1 DEF Recorded, Gentle
    <3> HIDE DEF Loc, Idle
    <3> QED BY <1>1, <3>1 DEF Known
  <2>3. Recorded(j, b, i)'
    <3> HIDE DEF Recorded, Loc, Idle, Gentle, Places
    <3> QED BY <1>1, <1>2, <2>1, <2>2, RecordStays
  <2> HIDE DEF Recorded
  <2> QED BY <1>1, <1>3, <1>4, <2>3 DEF Survives
<1>5. CASE ~(acked[j] # 0 /\ Steady(j))
  <2>1. Absent(j)
    BY <1>5 DEF Survives
  <2>2. \A c \in Bases : \A m \in Nat : Answers(j, c, m)' <=> Answers(j, c, m)
    BY <1>2, AnswersStay
  <2>3. Absent(j)'
    <3> HIDE DEF Answers
    <3> QED BY <1>1, <1>3, <2>1, <2>2 DEF Absent
  <2> HIDE DEF Absent
  <2> QED BY <1>1, <1>3, <1>5, <2>3 DEF Survives
<1> QED BY <1>4, <1>5


(* The writes in flight stay in line, if the one that makes the step does. *)
LEMMA LinedStays ==
  ASSUME Inv, Inv', Flights, NEW k \in Keys, NEW Q, Gentle(k, Q), NEW b \in Unsorted',
         op'[k].base = b => InLine(k, b, op[k])'
  PROVE Lined(b)'
<1>1. Frames /\ Frames'
  BY NowFrames, NextFrames
<1>2. phase = "up" /\ phase' = "up" /\ sortFd' = sortFd /\ job' = job /\ open \subseteq open'
  BY DEF Gentle
<1>3. b \in Visible' /\ b \in Bases /\ b \in open' /\ b \notin sortFd /\ b \notin job.group
  BY <1>1, <1>2 DEF Frames
<1>4. b \in Nat \ {0} /\ Settled(b)' \in Nat /\ Filled(b)' \in Nat
      /\ Settled(b) \in Nat /\ Filled(b) \in Nat
  BY <1>1, <1>3 DEF Frames
<1>5. PICK t \in Seq(SoundEntry) : t = index'[b]
  <2>1. Used(b)' \in Seq(SoundEntry) /\ Used(b)' = index'[b]
    BY <1>1, <1>2, <1>3 DEF Frames
  <2> QED BY <2>1
<1>6. Len(t) \in Nat /\ DOMAIN t = 1 .. Len(t) /\ \A m \in DOMAIN t : t[m] \in SoundEntry
  BY SeqIs
<1>7. \A j \in Keys : j # k => op'[j] = op[j] /\ (mutex' = j <=> mutex = j)
  BY DEF Gentle
<1> HIDE DEF Settled, Filled
<1>8. CASE b \notin open
  <2>1. t = <<>>
    BY <1>3, <1>5, <1>8 DEF Gentle
  <2>2. DOMAIN t = {} /\ Len(t) = 0
    BY <2>1
  <2>3. Tidy(b)'
    BY <1>4, <1>5, <2>2 DEF Tidy
  <2>4. ASSUME NEW j \in Keys, j # k PROVE op'[j].base # b
    <3>1. b \notin Unsorted /\ op'[j] = op[j]
      BY <1>7, <1>8, <2>4 DEF Unsorted
    <3>2. op[j].base # b
      BY <1>1, <1>4, <3>1 DEF Frames
    <3> QED BY <3>1, <3>2
  <2> HIDE DEF Tidy, InLine
  <2> QED BY <2>3, <2>4 DEF Lined
<1>9. CASE b \in open
  <2>1. b \in Visible /\ b \in Unsorted
    BY <1>3, <1>9 DEF Visible, Unsorted
  <2>2. PICK s \in Seq(SoundEntry) : s = index[b]
    <3>1. Used(b) \in Seq(SoundEntry) /\ Used(b) = index[b]
      BY <1>1, <1>2, <1>3, <2>1 DEF Frames
    <3> QED BY <3>1
  <2>3. Len(s) \in Nat /\ DOMAIN s = 1 .. Len(s) /\ \A m \in DOMAIN s : s[m] \in SoundEntry
    BY SeqIs
  <2>4. Lined(b) /\ Entered(k, b, Q) /\ Sized(k, b) /\ Longer(b)
    BY <1>2, <1>3, <2>1 DEF Flights, Gentle, Versions
  <2>5. ASSUME NEW m \in DOMAIN t
        PROVE \/ /\ m \in DOMAIN s /\ t[m].key = s[m].key /\ t[m].pos = s[m].pos
              \/ m <= Settled(b) /\ m \notin DOMAIN s /\ t[m].key = 0 /\ t[m].pos = 0
              \/ /\ m = Settled(b) + 1 /\ mutex = k /\ op[k].base = b
                 /\ t[m].key = k /\ t[m].pos = op[k].pos
    BY <1>5, <2>2, <2>4, <2>5 DEF Entered
  <2>6. /\ Len(s) <= Settled(b) + 1
        /\ \A m \in DOMAIN s : m <= Settled(b) => Within(b, s[m]) \/ s[m].pos <= Filled(b)
    BY <2>2, <2>4 DEF Lined, Tidy
  <2>7. mutex = k /\ op[k].base = b => op[k].pos = Filled(b) + 1 /\ op[k].at = Settled(b) + 1
    BY <1>1, <1>4 DEF Frames
  <2>8. Settled(b)' >= Settled(b) /\ Filled(b)' >= Filled(b)
    BY <1>4, <2>4 DEF Sized
  <2>9. ASSUME NEW m \in DOMAIN s, m \in DOMAIN t, t[m].pos = s[m].pos, Within(b, s[m])
        PROVE Within(b, t[m])'
    <3>1. PICK e \in SoundEntry : e = s[m]
      BY <2>3
    <3>2. Within(b, e)'
      BY <2>4, <2>9, <3>1 DEF Longer
    <3> QED BY <2>9, <3>1, <3>2 DEF Within
  <2>10. ASSUME NEW m \in DOMAIN t PROVE t[m].pos \in Nat /\ m \in Nat
    <3>1. PICK e \in SoundEntry : e = t[m]
      BY <1>6, <2>10
    <3>2. e.pos \in Nat
      BY EntryIs
    <3>3. m \in Nat
      BY <1>6, <2>10
    <3> QED BY <3>1, <3>2, <3>3
  <2> HIDE DEF Within
  <2>11. Len(t) <= Settled(b)' + 1
    <3>1. CASE Len(t) = 0
      BY <1>4, <3>1
    <3>2. CASE Len(t) # 0
      <4>1. Len(t) \in DOMAIN t
        BY <1>6, <3>2
      <4> QED BY <1>4, <2>3, <2>5, <2>6, <2>8, <4>1
    <3> QED BY <3>1, <3>2
  <2>12. ASSUME NEW m \in DOMAIN t, m <= Settled(b)'
         PROVE  Within(b, t[m])' \/ t[m].pos <= Filled(b)'
    <3>1. CASE m <= Settled(b)
      <4>1. (m \in DOMAIN s /\ t[m].pos = s[m].pos) \/ t[m].pos = 0
        BY <1>4, <2>5, <2>10, <3>1
      <4>2. CASE t[m].pos = 0
        BY <1>4, <4>2
      <4>3. CASE m \in DOMAIN s /\ t[m].pos = s[m].pos
        BY <1>4, <2>6, <2>8, <2>9, <2>10, <3>1, <4>3
      <4> QED BY <4>1, <4>2, <4>3
    <3>2. CASE m > Settled(b)
      <4>1. /\ mutex = k /\ op[k].base = b /\ op[k].pc # "index" /\ t = s
            /\ Filled(b)' = Filled(b) + 1 /\ m = Settled(b) + 1
        BY <1>4, <1>5, <2>2, <2>4, <2>10, <2>12, <3>2 DEF Sized
      <4>2. s[m].pos = op[k].pos
        <5>1. Flight(k, b, op[k])
          BY <1>2, <1>4, <4>1, FlightIs
        <5>2. op[k].at = m /\ index[b][op[k].at].pos = op[k].pos
          BY <4>1, <5>1 DEF Flight
        <5> QED BY <2>2, <5>2
      <4> QED BY <1>4, <2>7, <4>1, <4>2
    <3> QED BY <1>4, <2>10, <3>1, <3>2
  <2>13. ASSUME NEW j \in Keys, j # k, NEW o, o = op[j], o.base = b
         PROVE  InLine(j, b, o)'
    <3>1. /\ o.at \in Nat /\ o.pos \in Nat \ {0} /\ o.ver # 0 /\ InLine(j, b, o)
          /\ mutex # j => o.at <= Settled(b) /\ o.pos <= Filled(b)
          /\ o.pc # "index" => o.at \in DOMAIN s /\ s[o.at].pos = o.pos /\ s[o.at].key = j
          /\ o.pc = "index" => mutex = j
      <4>1. /\ o.at \in Nat /\ o.pos \in Nat \ {0} /\ o.ver # 0 /\ InLine(j, b, o)
            /\ mutex # j => o.at <= Settled(b) /\ o.pos <= Filled(b)
            /\ o.pc # "index" => /\ o.at \in DOMAIN index[b] /\ index[b][o.at].pos = o.pos
                                 /\ Mine(j, index[b][o.at])
            /\ o.pc = "index" => mutex = j
        <5>1. b # 0 /\ o = op[j] /\ b = o.base
          BY <1>4, <2>13
        <5>2. Flight(j, b, o)
          BY <1>2, <5>1, FlightIs
        <5> QED BY <5>2 DEF Flight
      <4> HIDE DEF InLine
      <4> QED BY <2>2, <4>1 DEF Mine
    <3>2. \A m \in DOMAIN s :
            /\ m < o.at => Within(b, s[m]) \/ s[m].pos < o.pos
            /\ m > o.at /\ s[m].key # 0 => o.pos < s[m].pos
      BY <2>2, <3>1 DEF InLine
    <3>3. mutex' # j => o.pos <= Filled(b)'
      BY <1>4, <1>7, <2>8, <2>13, <3>1
    <3>4. mutex = k => mutex # j
      BY <2>13
    <3>5. ASSUME o.pc # "index" PROVE t[o.at].pos = o.pos
      <4>1. o.at \in DOMAIN t
        <5>1. Len(t) >= Len(s)
          BY <1>5, <2>2, <2>4 DEF Entered
        <5> QED BY <1>6, <2>3, <3>1, <3>5, <5>1
      <4>2. ~(o.at = Settled(b) + 1 /\ mutex = k)
        BY <1>4, <3>1, <3>4
      <4> QED BY <2>5, <3>1, <3>5, <4>1, <4>2
    <3>6. ASSUME NEW m \in DOMAIN t, m < o.at
          PROVE  Within(b, t[m])' \/ t[m].pos < o.pos
      <4>1. (m \in DOMAIN s /\ t[m].pos = s[m].pos) \/ t[m].pos = 0
        BY <1>4, <2>5, <2>10, <3>1, <3>4, <3>6
      <4>2. CASE t[m].pos = 0
        BY <3>1, <4>2
      <4>3. CASE m \in DOMAIN s /\ t[m].pos = s[m].pos
        BY <2>9, <3>2, <3>6, <4>3
      <4> QED BY <4>1, <4>2, <4>3
    <3>7. ASSUME NEW m \in DOMAIN t, m > o.at, t[m].key # 0
          PROVE  o.pos < t[m].pos
      <4>1. CASE m \in DOMAIN s /\ t[m].key = s[m].key /\ t[m].pos = s[m].pos
        BY <3>2, <3>7, <4>1
      <4>2. CASE m = Settled(b) + 1 /\ mutex = k /\ op[k].base = b /\ t[m].pos = op[k].pos
        BY <1>4, <2>7, <3>1, <3>4, <4>2
      <4> QED BY <2>5, <3>7, <4>1, <4>2
    <3> QED BY <1>5, <3>1, <3>3, <3>5, <3>6, <3>7 DEF InLine, Within
  <2>14. Tidy(b)'
    BY <1>5, <2>11, <2>12 DEF Tidy, Within
  <2>15. ASSUME NEW j \in Keys, NEW o \in {op'[j]}, o.base = b PROVE InLine(j, b, o)'
    <3>1. CASE j = k
      <4>1. o = op'[k] /\ InLine(k, b, op[k])'
        BY <2>15, <3>1
      <4> QED BY <3>1, <4>1 DEF InLine
    <3>2. CASE j # k
      <4>1. o = op[j]
        BY <1>7, <2>15, <3>2
      <4> HIDE DEF InLine
      <4> QED BY <2>13, <2>15, <3>2, <4>1
    <3> QED BY <3>1, <3>2
  <2> HIDE DEF Tidy, InLine
  <2> QED BY <2>14, <2>15 DEF Lined
<1> QED BY <1>8, <1>9

(* A step of an operation, with what is left to show of its own key.       *)
LEMMA GentleSafe ==
  ASSUME Inv, Inv', Safe, NEW k \in Keys, NEW Q, Gentle(k, Q), Keys \ (unsure' \cup {k}) \subseteq Q,
         \A b \in Bases : op'[k].base = b => InLine(k, b, op[k])',
         k \notin unsure' => Survives(k)' /\ ~Merged(k)
  PROVE Safe'
<1>1. phase = "up" /\ phase' = "up" /\ job' = job /\ chunk' = chunk /\ unsure \subseteq unsure'
  BY DEF Gentle
<1>2. /\ Flights /\ Taking /\ Landing
      /\ \A j \in Keys \ unsure : (~Moved(j) => Survives(j)) /\ (Merged(j) => Carried(j))
  BY <1>1 DEF Safe
<1>3. Flights'
  <2> SUFFICES ASSUME NEW b \in Unsorted' PROVE Lined(b)'
    BY DEF Flights
  <2>1. b \in Bases
    BY NextFrames, <1>1 DEF Frames
  <2>2. op'[k].base = b => InLine(k, b, op[k])'
    <3> HIDE DEF InLine
    <3> QED BY <2>1
  <2> HIDE DEF Lined, Gentle, InLine, Flights
  <2> QED BY <1>2, <2>2, LinedStays
<1>4. \A j : (Merged(j)' <=> Merged(j)) /\ (Moved(j)' <=> Moved(j))
  BY <1>1 DEF Merged, Moved, Merges, Live
<1>5. Taking'
  <2> SUFFICES ASSUME NEW c \in job.group \cap Found', NEW i \in DOMAIN Used(c)', NEW j \in Keys,
                      Mine(j, Used(c)[i])'
               PROVE  Merged(j)
    BY <1>1, <1>4 DEF Taking
  <2>1. data'[c] = data[c] /\ index'[c] = index[c] /\ sorted'[c] = sorted[c]
    BY DEF Gentle
  <2>2. c \in Found /\ Used(c)' = Used(c)
    BY <2>1 DEF Found, Used, Created
  <2>3. Mine(j, Used(c)[i])
    BY <2>2 DEF Mine
  <2> HIDE DEF Mine
  <2> QED BY <1>2, <2>2, <2>3 DEF Taking
<1>6. Landing'
  <2>1. Merges' <=> Merges
    BY <1>1 DEF Merges
  <2>2. ASSUME Merges, NEW b \in Bases,
               job.todo[1] \in {<<"rename index", b>>, <<"link", b>>}
        PROVE  data'[b] = data[b] /\ whole'[b] = whole[b] /\ sorted'[b] = sorted[b]
    <3>1. job.todo[1][2] = b /\ job.todo # <<>>
      <4>1. job.todo[1] = <<"rename index", b>> \/ job.todo[1] = <<"link", b>>
        BY <2>2
      <4>2. job.todo[1][2] = b
        <5>1. <<"rename index", b>>[2] = b /\ <<"link", b>>[2] = b
          OBVIOUS
        <5> QED BY <4>1, <5>1, Zenon
      <4>3. job.todo # <<>>
        BY <2>2 DEF Merges
      <4> QED BY <4>2, <4>3
    <3>2. b \in job.group
      BY <3>1, InJob
    <3> QED BY <3>2 DEF Gentle
  <2> QED BY <1>1, <1>2, <2>1, <2>2 DEF Landing
<1>7. ASSUME NEW j \in Keys \ unsure'
      PROVE  (~Moved(j)' => Survives(j)') /\ (Merged(j)' => Carried(j)')
  <2>1. CASE j = k
    <3> HIDE DEF Merged, Survives
    <3> QED BY <1>4, <1>7, <2>1 DEF Moved
  <2>2. CASE j # k
    <3>1. j \in Q /\ j \in Keys \ unsure
      BY <1>1, <1>7, <2>2
    <3>2. ~Moved(j)' => Survives(j)'
      <4> HIDE DEF Survives, Gentle, Flights, Moved
      <4> QED BY <1>2, <1>4, <2>2, <3>1, OtherSurvives
    <3>3. ASSUME Merged(j) PROVE Carried(j)'
      <4>1. Carried(j)
        BY <1>2, <3>1, <3>3
      <4>2. op'[j] = op[j] /\ cache'[j] = cache[j] /\ acked'[j] = acked[j]
        BY <2>2 DEF Gentle
      <4>3. Places(j)
        BY <4>2 DEF Places
      <4>4. \A c \in Bases : \A m \in Nat : Answers(j, c, m)' <=> Answers(j, c, m)
        BY <1>2, <3>1, <4>3, AnswersStay
      <4>5. Carries(j)' <=> Carries(j)
        BY <1>1, <4>2 DEF Carries, Live
      <4> HIDE DEF Answers, Carries
      <4> QED BY <1>1, <4>1, <4>2, <4>4, <4>5 DEF Carried
    <3> HIDE DEF Survives, Carried, Moved, Merged
    <3> QED BY <1>4, <3>2, <3>3
  <2> QED BY <2>1, <2>2
<1> HIDE DEF Survives, Carried, Moved, Merged, Flights, Taking, Landing
<1> QED BY <1>3, <1>5, <1>6, <1>7 DEF Safe


(* A step of an operation that changes files of the bases in C only.       *)
LEMMA GentleIs ==
  ASSUME Inv, NEW k \in Keys, NEW Q, NEW C \in SUBSET Visible,
         phase = "up", phase' = "up", sortFd' = sortFd, job' = job, chunk' = chunk, open' = open,
         unsure \subseteq unsure',
         \A j \in Keys : j # k => op'[j] = op[j] /\ cache'[j] = cache[j] /\ acked'[j] = acked[j]
                                  /\ (mutex' = j <=> mutex = j),
         \A b \in Bases \ C : /\ data'[b] = data[b] /\ whole'[b] = whole[b]
                              /\ index'[b] = index[b] /\ sorted'[b] = sorted[b],
         \A b \in C : /\ Versions(k, b) /\ (b \in sortFd => Flagged(b, Q))
                      /\ (b \notin sortFd => Entered(k, b, Q)),
         \A b \in Visible \ sortFd : Sized(k, b)
  PROVE Gentle(k, Q)
<1>1. Frames
  BY NowFrames
<1>2. \A b \in Visible : b \in open /\ b \notin job.group /\ b \in Bases
  BY <1>1 DEF Frames
<1>3. job.group \subseteq Bases
  BY DEF Inv, Types
<1>4. ASSUME NEW b \in Visible, b \notin C
      PROVE  Versions(k, b) /\ (b \in sortFd => Flagged(b, Q)) /\ (b \notin sortFd => Entered(k, b, Q))
  <2>1. data'[b] = data[b] /\ whole'[b] = whole[b] /\ index'[b] = index[b] /\ sorted'[b] = sorted[b]
    BY <1>2, <1>4
  <2>2. Versions(k, b)
    BY <2>1 DEF Versions, Longer, Within
  <2>3. Flagged(b, Q)
    BY <2>1 DEF Flagged
  <2>4. ASSUME b \notin sortFd PROVE Entered(k, b, Q)
    <3>1. Used(b) \in Seq(SoundEntry) /\ Used(b) = index[b]
      BY <1>1, <1>2, <2>4 DEF Frames
    <3>2. index[b] \in Seq(SoundEntry) /\ Len(index[b]) \in Nat
      BY <3>1, SeqIs
    <3> QED BY <2>1, <3>2 DEF Entered
  <2> QED BY <2>2, <2>3, <2>4
<1> HIDE DEF Versions, Flagged, Entered, Sized
<1>5. ASSUME NEW b \in job.group
      PROVE  /\ data'[b] = data[b] /\ whole'[b] = whole[b]
             /\ index'[b] = index[b] /\ sorted'[b] = sorted[b]
  BY <1>2, <1>3, <1>5
<1>6. \A b \in Visible : Versions(k, b) /\ (b \in sortFd => Flagged(b, Q))
                         /\ (b \notin sortFd => Entered(k, b, Q))
  BY <1>4
<1> QED BY <1>5, <1>6 DEF Gentle

(* Reserved slots stay reserved.                                           *)
LEMMA FilledSame ==
  ASSUME NEW b, mutex' = mutex, dataOffset' = dataOffset,
         \A j \in Keys : mutex = j => op'[j].base = op[j].base
  PROVE Filled(b)' = Filled(b)
BY DEF Filled, Holding

(* A write gives b->lock up: the slot it has reserved is filled.           *)
LEMMA ReleasedSized ==
  ASSUME Inv, NEW k \in Keys, Released(k), dataOffset' = dataOffset, NEW q, q = op'[k],
         q.base = op[k].base, q.at = op[k].at
  PROVE /\ \A b \in Visible \ sortFd : Sized(k, b)
        /\ \A b \in Bases : q.base = b /\ q.pos = op[k].pos => q.pos <= Filled(b)'
<1>1. Types /\ OpsAre
  BY DEF Inv
<1>2. PICK o : o = op[k]
  OBVIOUS
<1>3. PICK c : c = o.base
  OBVIOUS
<1>4. mutex = k /\ o.pc # "index" /\ mutex' = Nobody /\ indexSize' = indexSize /\ index' = index
  BY <1>2 DEF Released
<1>5. \A b \in Bases : Settled(b)' = indexSize[b] /\ Filled(b)' = dataOffset[b]
  BY <1>4, NamesAssumption DEF Settled, Filled, Holding
<1>6. \A b \in Bases : indexSize[b] \in Nat /\ dataOffset[b] \in Nat
  BY <1>1, FileIs
<1>7. ASSUME NEW b \in Bases
      PROVE /\ b = c => Settled(b) = indexSize[b] - 1 /\ Filled(b) = dataOffset[b] - 1
                        /\ o.pos = dataOffset[b]
            /\ b # c => Settled(b) = indexSize[b] /\ Filled(b) = dataOffset[b]
  <2>1. /\ b = c => Settled(b) = indexSize[b] - 1
        /\ b # c => Settled(b) = indexSize[b]
    BY <1>1, <1>2, <1>3, <1>4, SettledIs
  <2>2. /\ b = c => Filled(b) = dataOffset[b] - 1 /\ o.pos = Filled(b) + 1
        /\ b # c => Filled(b) = dataOffset[b]
    BY <1>1, <1>2, <1>3, <1>4, FilledIs
  <2> HIDE DEF Settled, Filled
  <2> QED BY <1>6, <2>1, <2>2
<1> HIDE DEF Settled, Filled
<1>8. ASSUME NEW b \in Visible \ sortFd PROVE Sized(k, b)
  <2>1. b \in Bases
    BY <1>1 DEF Visible, Types
  <2>2. CASE b = c
    BY <1>2, <1>3, <1>4, <1>5, <1>6, <1>7, <2>1, <2>2 DEF Sized
  <2>3. CASE b # c
    BY <1>5, <1>7, <2>1, <2>3 DEF Sized
  <2> QED BY <2>2, <2>3
<1>9. ASSUME NEW b \in Bases, q.base = b, q.pos = op[k].pos PROVE q.pos <= Filled(b)'
  BY <1>2, <1>3, <1>5, <1>6, <1>7, <1>9
<1> QED BY <1>8, <1>9

(* The write of the step itself stays in line.                             *)
LEMMA InLineStays ==
  ASSUME Inv, Inv', Flights, NEW k \in Keys, NEW Q, Gentle(k, Q), NEW o, o = op[k], NEW q, q = op'[k],
         NEW b \in Bases, o.base = b, q.base = b, q.at = o.at, q.pos = o.pos, q.ver = o.ver,
         o.pc = "index" => o.at \in DOMAIN index'[b] /\ index'[b][o.at].pos = o.pos,
         mutex' = k \/ q.pos <= Filled(b)'
  PROVE InLine(k, b, op[k])'
<1>1. Frames /\ Frames'
  BY NowFrames, NextFrames
<1>2. phase = "up" /\ phase' = "up"
  BY DEF Gentle
<1>3. b # 0
  BY BaseIs
<1>4. /\ b \in Visible /\ b \notin sortFd /\ o.at \in Nat /\ o.pos \in Nat \ {0} /\ o.ver # 0
      /\ InLine(k, b, o) /\ Settled(b) \in Nat /\ index[b] \in Seq(SoundEntry)
      /\ mutex = k => o.at = Settled(b) + 1
      /\ o.pc # "index" => o.at \in DOMAIN index[b] /\ index[b][o.at].pos = o.pos
  <2>1. Flight(k, b, o)
    BY <1>2, <1>3, FlightIs
  <2> QED BY <2>1 DEF Flight
<1>5. PICK s \in Seq(SoundEntry) : s = index[b]
  BY <1>4
<1>6. PICK t \in Seq(SoundEntry) : t = index'[b]
  BY <1>4 DEF Gentle, Entered
<1>7. Longer(b) /\ Entered(k, b, Q)
  BY <1>4 DEF Gentle, Versions
<1>8. \A m \in DOMAIN t :
        \/ m \in DOMAIN s /\ t[m].key = s[m].key /\ t[m].pos = s[m].pos
        \/ m \notin DOMAIN s /\ t[m].key = 0 /\ t[m].pos = 0
        \/ m = o.at /\ t[m].pos = o.pos
  BY <1>4, <1>5, <1>6, <1>7 DEF Entered
<1>9. \A m \in DOMAIN s : /\ m < o.at => Within(b, s[m]) \/ s[m].pos < o.pos
                          /\ m > o.at /\ s[m].key # 0 => o.pos < s[m].pos
  BY <1>4, <1>5 DEF InLine
<1>10. DOMAIN s \subseteq DOMAIN t /\ \A m \in DOMAIN t : m \in Nat
  <2>1. Len(t) >= Len(s)
    BY <1>5, <1>6, <1>7 DEF Entered
  <2> QED BY <2>1, SeqIs
<1>11. t[o.at].pos = o.pos
  <2>1. CASE o.pc = "index"
    BY <1>6, <2>1
  <2>2. CASE o.pc # "index"
    BY <1>4, <1>5, <1>8, <1>10, <2>2
  <2> QED BY <2>1, <2>2
<1>12. ASSUME NEW m \in DOMAIN t, m < o.at PROVE Within(b, t[m])' \/ t[m].pos < o.pos
  <2>1. CASE m \in DOMAIN s /\ t[m].pos = s[m].pos
    <3>1. PICK e \in SoundEntry : e = s[m]
      BY <2>1, SeqIs
    <3>2. Within(b, e) \/ e.pos < o.pos
      BY <1>9, <1>12, <2>1, <3>1
    <3>3. Within(b, e) => Within(b, e)'
      BY <1>7 DEF Longer
    <3>4. Within(b, e)' => Within(b, t[m])'
      BY <2>1, <3>1 DEF Within
    <3> HIDE DEF Within
    <3> QED BY <2>1, <3>1, <3>2, <3>3, <3>4
  <2>2. CASE t[m].pos = 0
    BY <1>4, <2>2
  <2>3. m # o.at
    BY <1>4, <1>10, <1>12
  <2> QED BY <1>8, <1>12, <2>1, <2>2, <2>3
<1>13. ASSUME NEW m \in DOMAIN t, m > o.at, t[m].key # 0 PROVE o.pos < t[m].pos
  <2>1. m # o.at
    BY <1>4, <1>10, <1>13
  <2> QED BY <1>8, <1>9, <1>13, <2>1
<1> HIDE DEF Filled
<1> QED BY <1>4, <1>6, <1>11, <1>12, <1>13 DEF InLine, Within

(* What an operation finds stays, as long as it has not marked it.         *)
LEMMA OwnSurvives ==
  ASSUME Inv, Inv', Flights, NEW k \in Keys, NEW Q, Gentle(k, Q), k \in Q, Places(k),
         acked'[k] = acked[k], cache'[k] = cache[k], Steady(k)' <=> Steady(k),
         \A b \in Bases : \A i \in Nat :
             Recorded(k, b, i) /\ op'[k] # Idle => op'[k].old = Loc(b, i),
         Absent(k) /\ Steady(k) => op'[k].old = NoLoc,
         Survives(k)
  PROVE Survives(k)'
<1>1. CASE acked[k] # 0 /\ Steady(k)
  <2>1. PICK b \in Bases, i \in Nat : Recorded(k, b, i)
    BY <1>1 DEF Survives
  <2>2. Recorded(k, b, i)'
    <3> HIDE DEF Recorded, Loc, Idle, Gentle, Places
    <3> QED BY <2>1, RecordStays
  <2> HIDE DEF Recorded, Steady
  <2> QED BY <1>1, <2>2 DEF Survives
<1>2. CASE ~(acked[k] # 0 /\ Steady(k))
  <2>1. Absent(k)
    BY <1>2 DEF Survives
  <2>2. \A c \in Bases : \A m \in Nat : Answers(k, c, m)' <=> Answers(k, c, m)
    BY AnswersStay
  <2>3. Absent(k)'
    <3> HIDE DEF Answers, Steady
    <3> QED BY <2>1, <2>2 DEF Absent
  <2> HIDE DEF Absent, Steady
  <2> QED BY <1>2, <2>3 DEF Survives
<1> QED BY <1>1, <1>2

(* What it has marked does not come back.                                  *)
LEMMA OwnAbsent ==
  ASSUME Inv, Inv', Flights, NEW k \in Keys, NEW Q, Gentle(k, Q), k \in Q, Places(k), Absent(k),
         Steady(k)' => acked'[k] = 0 /\ cache'[k] = NoLoc /\ op'[k].old = NoLoc
  PROVE Survives(k)'
<1>1. \A c \in Bases : \A m \in Nat : Answers(k, c, m)' <=> Answers(k, c, m)
  BY AnswersStay
<1>2. Absent(k)'
  <2> HIDE DEF Answers, Steady
  <2> QED BY <1>1 DEF Absent
<1> HIDE DEF Absent, Steady
<1> QED BY <1>2 DEF Survives

(* A step that writes no file.                                             *)
LEMMA GentleQuiet ==
  ASSUME Inv, NEW k \in Keys, phase = "up", phase' = "up", sortFd' = sortFd, job' = job, chunk' = chunk,
         open' = open, unsure \subseteq unsure',
         \A j \in Keys : j # k => op'[j] = op[j] /\ cache'[j] = cache[j] /\ acked'[j] = acked[j]
                                  /\ (mutex' = j <=> mutex = j),
         data' = data, whole' = whole, index' = index, sorted' = sorted,
         \A b \in Visible \ sortFd : Sized(k, b)
  PROVE Gentle(k, Keys)
<1>1. PICK C \in SUBSET Visible : C = {}
  OBVIOUS
<1>2. \A b \in C : /\ Versions(k, b) /\ (b \in sortFd => Flagged(b, Keys))
                   /\ (b \notin sortFd => Entered(k, b, Keys))
  BY <1>1
<1> HIDE DEF Sized, Versions, Flagged, Entered, Gentle
<1> QED BY <1>2, GentleIs


-----------------------------------------------------------------------------
(* What a lookup finds of a key that nothing has gone wrong with.          *)

(* The place of a record is a location.                                    *)
LEMMA LocOf ==
  ASSUME Inv, NEW k \in Keys, NEW b \in Bases, NEW i, Answers(k, b, i)
  PROVE /\ Loc(b, i) \in Location /\ Loc(b, i) # NoLoc /\ i \in Nat \ {0} /\ i \in DOMAIN Used(b)
        /\ Loc(b, i).base = b /\ Loc(b, i).at = i /\ Used(b)[i].pos \in Nat \ {0}
        /\ Loc(b, i).pos = Used(b)[i].pos
<1>1. PICK s \in Seq(SoundEntry) : s = Used(b)
  BY NowFrames DEF Frames
<1>2. i \in DOMAIN s /\ s[i].key = k /\ k # 0
  BY <1>1, KeysAssumption DEF Answers, Mine
<1>3. i \in Nat \ {0} /\ s[i] \in SoundEntry
  BY <1>2, SeqIs
<1>4. s[i].pos \in Nat \ {0}
  BY <1>2, <1>3, EntryIs
<1>5. Loc(b, i) = [base |-> b, at |-> i, pos |-> s[i].pos]
  BY <1>1 DEF Loc
<1>6. Loc(b, i) \in Location
  BY <1>3, <1>4, <1>5 DEF Location
<1> QED BY <1>1, <1>2, <1>3, <1>4, <1>5, <1>6, NamesAssumption

(* The sorted bases: what is found there answers, and a record is found.   *)
LEMMA LookupIs ==
  ASSUME Inv, phase = "up", NEW k \in Keys, op[k] = Idle, cache[k] = NoLoc
  PROVE /\ \A l \in Locations(k) : /\ l.base \in Bases /\ l.base \notin job.group /\ l.at \in Nat
                                   /\ Answers(k, l.base, l.at) /\ l = Loc(l.base, l.at)
        /\ \A b \in sortFd \ job.group : \A i :
              Answers(k, b, i) /\ Within(b, Used(b)[i]) => Locations(k) # {}
<1>1. Types /\ OpenFiles /\ Frames
  BY NowFrames DEF Inv
<1>2. ASSUME NEW l \in Locations(k)
      PROVE  /\ l.base \in Bases /\ l.base \notin job.group /\ l.at \in Nat
             /\ Answers(k, l.base, l.at) /\ l = Loc(l.base, l.at)
  <2> DEFINE b == Max(OnDisk(k))
  <2>1. PICK i \in Live(sorted[b], k) : l = [base |-> b, at |-> i, pos |-> sorted[b][i].pos]
    BY <1>2 DEF Locations
  <2> HIDE DEF b
  <2>2. l.base = b /\ l.at = i
    BY <2>1
  <2>3. l \in Location /\ l # NoLoc
    BY <1>1, <1>2, LocationsAre, LocFields
  <2>4. b \in sortFd \ job.group /\ b \in Bases /\ i \in Nat
    BY <1>1, <1>2, <2>2, <2>3, LocationsAre, LocFields
  <2>5. b \in Visible
    BY <1>1, <2>4 DEF Visible, Types
  <2>6. Used(b) = sorted[b] /\ b \in Found /\ b \notin Unsorted
    BY <1>1, <2>4, <2>5 DEF Frames
  <2>7. i \in DOMAIN sorted[b] /\ Mine(k, sorted[b][i])
    BY <2>1 DEF Live, Mine
  <2>8. op[k].base # b
    BY <2>4, IdleFields, BaseIs
  <2>9. Answers(k, b, i)
    BY <2>6, <2>7, <2>8 DEF Answers
  <2>10. l = Loc(b, i)
    BY <2>1, <2>6 DEF Loc
  <2> HIDE DEF Answers, Loc
  <2> QED BY <2>2, <2>4, <2>9, <2>10
<1>3. ASSUME NEW b \in sortFd \ job.group, NEW i, Answers(k, b, i), Within(b, Used(b)[i])
      PROVE  Locations(k) # {}
  <2>1. b \in Visible
    BY <1>1 DEF Visible, Types
  <2>2. Used(b) = sorted[b]
    BY <1>1, <2>1 DEF Frames
  <2>3. i \in Live(sorted[b], k) /\ Within(b, sorted[b][i])
    BY <1>3, <2>2 DEF Answers, Mine, Live
  <2>4. b \in OnDisk(k)
    BY <2>3 DEF OnDisk
  <2>5. OnDisk(k) \subseteq Bases
    BY <1>1 DEF OnDisk, Types
  <2>6. Max(OnDisk(k)) \in OnDisk(k)
    <3>1. OnDisk(k) \subseteq Nat /\ MaxBases \in Nat /\ \A c \in OnDisk(k) : c <= MaxBases
      BY <2>5, BaseIs
    <3> QED BY <2>4, <3>1, MaxOf
  <2>7. PICK j : j \in Live(sorted[Max(OnDisk(k))], k)
    BY <2>6 DEF OnDisk
  <2> QED BY <2>4, <2>7 DEF Locations
<1> QED BY <1>2, <1>3

(* An operation finds the acknowledged record, and nothing if there is     *)
(* none.                                                                   *)
LEMMA WhereIs ==
  ASSUME Inv, Safe, phase = "up", NEW k \in Keys \ unsure, op[k] = Idle
  PROVE /\ \A l \in Locations(k) :
              /\ ~Merged(k) /\ Survives(k)
              /\ \E b \in Bases : \E i \in Nat : Recorded(k, b, i) /\ l = Loc(b, i)
        /\ job.todo = <<>> => /\ Survives(k) /\ ~Merged(k)
                              /\ acked[k] # 0 => Locations(k) # {}
<1>1. Frames
  BY NowFrames
<1>2. (~Moved(k) => Survives(k)) /\ (Merged(k) => Carried(k)) /\ (Moved(k) => Merged(k))
  BY DEF Safe, Moved
<1>3. Steady(k)
  BY IdleFields DEF Steady
<1>4. acked[k] # 0 /\ Survives(k) => \E b \in Bases : \E i \in Nat : Recorded(k, b, i)
  BY <1>3 DEF Survives
<1>5. acked[k] = 0 /\ Survives(k) => Absent(k)
  BY DEF Survives
<1>6. Absent(k) => cache[k] = NoLoc /\ \A c \in Bases : \A j \in Nat : ~Answers(k, c, j)
  BY <1>3 DEF Absent
<1>7. ASSUME NEW b \in Bases, NEW i \in Nat, Recorded(k, b, i)
      PROVE  /\ Answers(k, b, i) /\ b \in Found /\ Within(b, Used(b)[i])
             /\ b \in Unsorted => cache[k] = Loc(b, i)
             /\ b \notin Unsorted => cache[k] = NoLoc
             /\ \A c \in Bases : \A j \in Nat : Answers(k, c, j) => c = b /\ j = i
  <2>1. Answers(k, b, i) /\ Holds(k, b, i) /\ Known(k, b, i) /\ Alone(k, b, i)
    BY <1>7 DEF Recorded
  <2>2. Within(b, Used(b)[i])
    BY <2>1 DEF Holds
  <2>3. b \in Found
    BY <2>1 DEF Answers
  <2> HIDE DEF Answers, Within, Loc
  <2> QED BY <2>1, <2>2, <2>3 DEF Known, Alone
<1>8. Merged(k) => cache[k] = NoLoc /\ \A c \in Bases : \A j \in Nat : Answers(k, c, j) => c \in job.group
  BY <1>2 DEF Carried
<1> HIDE DEF Merged, Moved, Survives, Absent, Recorded, Answers, Loc, Within
<1>9. ASSUME NEW l \in Locations(k)
      PROVE  /\ ~Merged(k) /\ Survives(k)
             /\ \E b \in Bases : \E i \in Nat : Recorded(k, b, i) /\ l = Loc(b, i)
  <2>1. CASE cache[k] # NoLoc
    <3>1. ~Merged(k) /\ Survives(k)
      BY <1>2, <1>8, <2>1
    <3>2. acked[k] # 0
      BY <1>5, <1>6, <2>1, <3>1
    <3>3. PICK b \in Bases, i \in Nat : Recorded(k, b, i)
      BY <1>4, <3>1, <3>2
    <3>4. l = cache[k]
      BY <1>9, <2>1 DEF Locations
    <3> QED BY <1>7, <2>1, <3>1, <3>3, <3>4
  <2>2. CASE cache[k] = NoLoc
    <3>1. /\ l.base \in Bases /\ l.base \notin job.group /\ l.at \in Nat
          /\ Answers(k, l.base, l.at) /\ l = Loc(l.base, l.at)
      BY <1>9, <2>2, LookupIs
    <3>2. ~Merged(k) /\ Survives(k)
      BY <1>2, <1>8, <3>1
    <3>3. acked[k] # 0
      BY <1>5, <1>6, <3>1, <3>2
    <3>4. PICK b \in Bases, i \in Nat : Recorded(k, b, i)
      BY <1>4, <3>2, <3>3
    <3>5. l.base = b /\ l.at = i
      BY <1>7, <3>1, <3>4
    <3> QED BY <3>1, <3>2, <3>4, <3>5
  <2> QED BY <2>1, <2>2
<1>10. ASSUME job.todo = <<>>
       PROVE  Survives(k) /\ ~Merged(k) /\ (acked[k] # 0 => Locations(k) # {})
  <2>1. ~Merged(k) /\ Survives(k)
    BY <1>2, <1>10 DEF Merged, Merges
  <2>2. ASSUME acked[k] # 0 PROVE Locations(k) # {}
    <3>1. PICK b \in Bases, i \in Nat : Recorded(k, b, i)
      BY <1>4, <2>1, <2>2
    <3>2. CASE b \in Unsorted
      <4>1. cache[k] # NoLoc
        BY <1>7, <3>1, <3>2, LocOf
      <4> QED BY <4>1 DEF Locations
    <3>3. CASE b \notin Unsorted
      <4>1. cache[k] = NoLoc /\ b \in Found
        BY <1>7, <3>1, <3>3
      <4>2. job.group = {}
        BY <1>10 DEF Inv, JobIs, NoJob
      <4>3. b \in sortFd \ job.group
        BY <1>1, <3>3, <4>1, <4>2 DEF Frames
      <4> QED BY <1>7, <3>1, <4>1, <4>3, LookupIs
    <3> QED BY <3>2, <3>3
  <2> QED BY <2>1, <2>2
<1> QED BY <1>9, <1>10

(* Between its steps an operation knows the record, until it marks it.     *)
LEMMA OwnIs ==
  ASSUME Inv, Safe, phase = "up", NEW k \in Keys \ unsure, op[k] # Idle
  PROVE /\ ~Merged(k) /\ Survives(k)
        /\ \A b \in Bases : \A i \in Nat : Recorded(k, b, i) => op[k].old = Loc(b, i)
        /\ Absent(k) /\ Steady(k) => op[k].old = NoLoc
        /\ ~Steady(k) => Absent(k)
        /\ Steady(k) /\ op[k].old # NoLoc =>
              \E b \in Bases : \E i \in Nat : Recorded(k, b, i) /\ op[k].old = Loc(b, i)
        /\ Steady(k) /\ op[k].old = NoLoc => Absent(k)
<1>1. (~Moved(k) => Survives(k)) /\ (Merged(k) => Carried(k)) /\ (Moved(k) => Merged(k))
  BY DEF Safe, Moved
<1>2. ~Merged(k)
  BY <1>1 DEF Carried
<1>3. ASSUME NEW b \in Bases, NEW i \in Nat, Recorded(k, b, i)
      PROVE op[k].old = Loc(b, i) /\ Loc(b, i) # NoLoc
  <2>1. Known(k, b, i) /\ Answers(k, b, i)
    BY <1>3 DEF Recorded
  <2>2. op[k].old = Loc(b, i)
    <3> HIDE DEF Loc, Idle
    <3> QED BY <2>1 DEF Known
  <2> QED BY <2>1, <2>2, LocOf
<1>4. Absent(k) /\ Steady(k) => op[k].old = NoLoc
  BY DEF Absent
<1>5. Survives(k) => IF acked[k] # 0 /\ Steady(k)
                     THEN \E b \in Bases : \E i \in Nat : Recorded(k, b, i) ELSE Absent(k)
  BY DEF Survives
<1> HIDE DEF Merged, Moved, Carried, Survives, Recorded, Absent, Steady, Loc, Idle
<1> QED BY <1>1, <1>2, <1>3, <1>4, <1>5


-----------------------------------------------------------------------------
(* The steps of a write and of a remove *)

(* A key has one record.                                                   *)
LEMMA RecordedOnce ==
  ASSUME NEW k, NEW b \in Bases, NEW i \in Nat, Recorded(k, b, i)
  PROVE /\ \A c \in Bases : \A j \in Nat : Recorded(k, c, j) => c = b /\ j = i
        /\ ~Absent(k)
<1>1. Answers(k, b, i) /\ Alone(k, b, i)
  BY DEF Recorded
<1>2. \A c \in Bases : \A j \in Nat : Recorded(k, c, j) => Answers(k, c, j)
  BY DEF Recorded
<1> HIDE DEF Answers, Recorded
<1> QED BY <1>1, <1>2 DEF Alone, Absent

(* eblob_remove has found the record.                                      *)
LEMMA RemoveBeginSafe ==
  ASSUME Inv, Inv', Safe, NEW k \in Keys, RemoveBegin(k)
  PROVE Safe'
<1>1. PICK l \in Locations(k) : op' = [op EXCEPT ![k] = [Idle EXCEPT !.pc = "mark", !.old = l]]
  BY DEF RemoveBegin
<1>2. /\ phase = "up" /\ op[k] = Idle
      /\ UNCHANGED <<files, phase, open, sortFd, cache, dataOffset, indexSize, mutex,
                     job, faults, observers>>
  BY DEF RemoveBegin
<1>3. /\ phase' = "up" /\ data' = data /\ whole' = whole /\ index' = index /\ sorted' = sorted
      /\ chunk' = chunk /\ sortFd' = sortFd /\ job' = job /\ open' = open /\ cache' = cache
      /\ dataOffset' = dataOffset /\ indexSize' = indexSize /\ mutex' = mutex
      /\ acked' = acked /\ unsure' = unsure
  BY <1>2 DEF files, observers
<1>4. PICK q : q = [Idle EXCEPT !.pc = "mark", !.old = l]
  OBVIOUS
<1>5. q.pc = "mark" /\ q.base = 0 /\ q.old = l /\ q # Idle
  BY <1>4 DEF Idle
<1>6. op'[k] = q /\ \A j \in Keys : j # k => op'[j] = op[j]
  BY <1>1, <1>4 DEF Inv, Types
<1>7. \A j \in Keys : op'[j].base = op[j].base
  BY <1>2, <1>5, <1>6, IdleFields
<1>8. \A b : Settled(b)' = Settled(b) /\ Filled(b)' = Filled(b)
  BY <1>3, <1>7, SettledSame, FilledSame
<1>9. Gentle(k, Keys)
  <2>1. \A b \in Visible \ sortFd : Sized(k, b)
    BY <1>8 DEF Sized
  <2> QED BY <1>2, <1>3, <1>6, <2>1, GentleQuiet
<1>10. \A b \in Bases : op'[k].base = b => InLine(k, b, op[k])'
  BY <1>5, <1>6, BaseIs
<1>11. ASSUME k \notin unsure' PROVE Survives(k)' /\ ~Merged(k)
  <2>1. Flights
    BY <1>2 DEF Safe
  <2>2. Places(k)
    BY <1>2, <1>5, <1>6, IdleFields, BaseIs DEF Places
  <2>3. Steady(k) /\ Steady(k)'
    BY <1>2, <1>5, <1>6, IdleFields DEF Steady
  <2>4. /\ ~Merged(k) /\ Survives(k)
        /\ \E b \in Bases : \E i \in Nat : Recorded(k, b, i) /\ l = Loc(b, i)
    BY <1>1, <1>2, <1>3, <1>11, WhereIs
  <2>5. PICK b \in Bases, i \in Nat : Recorded(k, b, i) /\ l = Loc(b, i)
    BY <2>4
  <2>6. /\ \A c \in Bases : \A j \in Nat : Recorded(k, c, j) => op'[k].old = Loc(c, j)
        /\ ~Absent(k)
    BY <1>5, <1>6, <2>5, RecordedOnce
  <2> HIDE DEF Recorded, Absent, Survives, Steady, Places, Gentle, Flights, Merged, Loc, Idle
  <2>7. Survives(k)'
    BY <1>3, <1>9, <2>1, <2>2, <2>3, <2>4, <2>6, OwnSurvives
  <2> QED BY <2>4, <2>7
<1> HIDE DEF Survives, Gentle, Merged, Safe, InLine
<1> QED BY <1>9, <1>10, <1>11, GentleSafe

(* A failed reservation gives back what it has reserved.                   *)
LEMMA RollbackSafe ==
  ASSUME Inv, Inv', Safe, NEW k \in Keys, Rollback(k)
  PROVE Safe'
<1>1. Types /\ OpsAre
  BY DEF Inv
<1>2. PICK o : o = op[k]
  OBVIOUS
<1>3. PICK c : c = o.base
  OBVIOUS
<1>4. /\ mutex = k /\ o.pc \in {"index", "header", "mark"}
      /\ indexSize' = [indexSize EXCEPT ![c] = @ - 1]
      /\ dataOffset' = [dataOffset EXCEPT ![c] = @ - 1]
      /\ op' = [op EXCEPT ![k] = Idle] /\ mutex' = Nobody
      /\ UNCHANGED <<files, phase, open, sortFd, cache, job, ops, observers>>
  BY <1>2, <1>3 DEF Rollback
<1>5. phase = "up" /\ c \in Visible /\ c \in Bases /\ o # Idle
  BY <1>1, <1>2, <1>3, <1>4, InHand, VisibleIs DEF Inv
<1>6. /\ phase' = "up" /\ data' = data /\ whole' = whole /\ index' = index /\ sorted' = sorted
      /\ chunk' = chunk /\ sortFd' = sortFd /\ job' = job /\ open' = open /\ cache' = cache
      /\ acked' = acked /\ unsure' = unsure
  BY <1>4, <1>5 DEF files, observers
<1>7. op'[k] = Idle /\ \A j \in Keys : j # k => op'[j] = op[j]
  BY <1>1, <1>4 DEF Types
<1>8. ASSUME NEW b \in Bases
      PROVE  /\ Settled(b)' = Settled(b) /\ Filled(b)' = Filled(b)
             /\ Settled(b) \in Nat /\ (b = c => o.at = Settled(b) + 1)
  <2>1. Settled(b)' = indexSize'[b] /\ Filled(b)' = dataOffset'[b]
    BY <1>4, NamesAssumption DEF Settled, Filled, Holding
  <2>2. /\ b = c => indexSize'[b] = indexSize[b] - 1 /\ dataOffset'[b] = dataOffset[b] - 1
        /\ b # c => indexSize'[b] = indexSize[b] /\ dataOffset'[b] = dataOffset[b]
    BY <1>1, <1>4, <1>5 DEF Types
  <2>3. /\ b = c => Settled(b) = indexSize[b] - 1 /\ o.at = Settled(b) + 1
        /\ b # c => Settled(b) = indexSize[b]
        /\ Settled(b) \in Nat
    BY <1>1, <1>2, <1>3, <1>4, SettledIs
  <2>4. /\ b = c => Filled(b) = dataOffset[b] - 1
        /\ b # c => Filled(b) = dataOffset[b]
    BY <1>1, <1>2, <1>3, <1>4, FilledIs
  <2> HIDE DEF Settled, Filled
  <2> QED BY <2>1, <2>2, <2>3, <2>4
<1> HIDE DEF Settled, Filled
<1>9. Gentle(k, Keys)
  <2>1. \A b \in Visible \ sortFd : Sized(k, b)
    <3>1. \A b \in Visible : b \in Bases
      BY <1>1 DEF Visible, Types
    <3> QED BY <1>8, <3>1 DEF Sized
  <2>2. \A j \in Keys : j # k => (mutex' = j <=> mutex = j)
    BY <1>4, NamesAssumption
  <2> QED BY <1>5, <1>6, <1>7, <2>1, <2>2, GentleQuiet
<1>10. \A b \in Bases : op'[k].base = b => InLine(k, b, op[k])'
  BY <1>7, IdleFields, BaseIs
<1>11. ASSUME k \notin unsure' PROVE Survives(k)' /\ ~Merged(k)
  <2>1. Flights
    BY <1>5 DEF Safe
  <2>2. Places(k)
    <3>1. ASSUME NEW b \in Bases, NEW i \in Nat, i <= Settled(b)
          PROVE  op'[k].base # b /\ ~(op[k].base = b /\ op[k].at = i)
      BY <1>2, <1>3, <1>7, <1>8, <3>1, IdleFields, BaseIs
    <3> QED BY <3>1 DEF Places
  <2>3. Steady(k) /\ Steady(k)'
    BY <1>2, <1>4, <1>7, IdleFields DEF Steady
  <2>4. ~Merged(k) /\ Survives(k)
    BY <1>2, <1>5, <1>6, <1>11, OwnIs
  <2>5. op'[k].old = NoLoc
    BY <1>7, IdleFields
  <2> HIDE DEF Recorded, Absent, Survives, Steady, Places, Gentle, Flights, Merged, Loc, Idle
  <2>6. Survives(k)'
    BY <1>6, <1>7, <1>9, <2>1, <2>2, <2>3, <2>4, <2>5, OwnSurvives
  <2> QED BY <2>4, <2>6
<1> HIDE DEF Survives, Gentle, Merged, Safe, InLine
<1> QED BY <1>9, <1>10, <1>11, GentleSafe

(* A write of a new key has nothing to mark.                               *)
LEMMA NothingToMarkSafe ==
  ASSUME Inv, Inv', Safe, NEW k \in Keys, NothingToMark(k)
  PROVE Safe'
<1>1. Types /\ OpsAre
  BY DEF Inv
<1>2. PICK o : o = op[k]
  OBVIOUS
<1>3. PICK q : q = [o EXCEPT !.pc = "payload"]
  OBVIOUS
<1>4. /\ o.pc = "mark" /\ o.old = NoLoc /\ op' = [op EXCEPT ![k] = q] /\ mutex' = Nobody
      /\ UNCHANGED <<files, phase, open, sortFd, cache, dataOffset, indexSize, job,
                     ops, faults, observers>>
  BY <1>2, <1>3 DEF NothingToMark
<1>5. phase = "up" /\ OpIs(k, o) /\ o \in Ops /\ o # Idle
  BY <1>2, <1>4, InHand
<1>6. mutex = k
  BY <1>4, <1>5 DEF OpIs
<1>7. /\ phase' = "up" /\ data' = data /\ whole' = whole /\ index' = index /\ sorted' = sorted
      /\ chunk' = chunk /\ sortFd' = sortFd /\ job' = job /\ open' = open /\ cache' = cache
      /\ dataOffset' = dataOffset /\ indexSize' = indexSize /\ acked' = acked /\ unsure' = unsure
  BY <1>4, <1>5 DEF files, observers
<1>8. /\ q.base = o.base /\ q.at = o.at /\ q.pos = o.pos /\ q.ver = o.ver /\ q.old = o.old
      /\ q.pc = "payload"
  BY <1>3, <1>5 DEF Ops
<1>9. op'[k] = q /\ \A j \in Keys : j # k => op'[j] = op[j]
  BY <1>1, <1>4 DEF Types
<1>10. Released(k)
  BY <1>2, <1>4, <1>5, <1>6, <1>7 DEF Released
<1>11. /\ \A b \in Visible \ sortFd : Sized(k, b)
       /\ \A b \in Bases : q.base = b /\ q.pos = op[k].pos => q.pos <= Filled(b)'
  BY <1>2, <1>7, <1>8, <1>9, <1>10, ReleasedSized
<1>12. Gentle(k, Keys)
  <2>1. \A j \in Keys : j # k => (mutex' = j <=> mutex = j)
    BY <1>4, <1>6, NamesAssumption
  <2> QED BY <1>5, <1>7, <1>9, <1>11, <2>1, GentleQuiet
<1>13. Flights
  BY <1>5 DEF Safe
<1>14. ASSUME NEW b \in Bases, op'[k].base = b PROVE InLine(k, b, op[k])'
  <2>1. o.base = b /\ q.pos <= Filled(b)' /\ o.pc # "index"
    BY <1>2, <1>4, <1>8, <1>9, <1>11, <1>14
  <2> HIDE DEF Gentle, InLine, Flights, Filled
  <2> QED BY <1>2, <1>8, <1>9, <1>12, <1>13, <2>1, InLineStays
<1>15. ASSUME k \notin unsure' PROVE Survives(k)' /\ ~Merged(k)
  <2>1. Places(k)
    BY <1>2, <1>8, <1>9 DEF Places
  <2>2. Steady(k) /\ ~Steady(k)'
    BY <1>2, <1>4, <1>8, <1>9 DEF Steady
  <2>3. ~Merged(k) /\ Absent(k)
    BY <1>2, <1>4, <1>5, <1>7, <1>15, <2>2, OwnIs
  <2> HIDE DEF Recorded, Absent, Survives, Steady, Places, Gentle, Flights, Merged
  <2>4. Survives(k)'
    BY <1>12, <1>13, <2>1, <2>2, <2>3, OwnAbsent
  <2> QED BY <2>3, <2>4
<1> HIDE DEF Survives, Gentle, Merged, Safe, InLine
<1> QED BY <1>12, <1>14, <1>15, GentleSafe


(* An index that is not written.                                           *)
LEMMA EnteredSame ==
  ASSUME Inv, phase = "up", NEW k, NEW Q, NEW b \in Visible, index'[b] = index[b], sorted'[b] = sorted[b]
  PROVE (b \in sortFd => Flagged(b, Q)) /\ (b \notin sortFd => Entered(k, b, Q))
<1>1. Frames
  BY NowFrames
<1>2. Flagged(b, Q)
  BY DEF Flagged
<1>3. ASSUME b \notin sortFd PROVE Entered(k, b, Q)
  <2>1. index[b] \in Seq(SoundEntry)
    BY <1>1, <1>3 DEF Frames
  <2>2. Len(index[b]) \in Nat
    BY <2>1, SeqIs
  <2> QED BY <2>1, <2>2 DEF Entered
<1> QED BY <1>2, <1>3

(* A data file that is not written.                                        *)
LEMMA VersionsSame ==
  ASSUME NEW k, NEW b, data'[b] = data[b], whole'[b] = whole[b]
  PROVE Versions(k, b)
BY DEF Versions, Longer, Within

(* A write that goes on, its old record not marked yet.                    *)
LEMMA OnwardSurvives ==
  ASSUME Inv, Inv', Safe, NEW k \in Keys, Gentle(k, Keys), k \notin unsure, op[k] # Idle, Places(k),
         acked'[k] = acked[k], cache'[k] = cache[k], op'[k].old = op[k].old, Steady(k), Steady(k)'
  PROVE Survives(k)' /\ ~Merged(k)
<1>1. phase = "up"
  BY DEF Gentle
<1>2. Flights
  BY <1>1 DEF Safe
<1>3. /\ ~Merged(k) /\ Survives(k)
      /\ \A b \in Bases : \A i \in Nat : Recorded(k, b, i) => op[k].old = Loc(b, i)
      /\ Absent(k) /\ Steady(k) => op[k].old = NoLoc
  BY <1>1, OwnIs
<1> HIDE DEF Recorded, Absent, Survives, Steady, Places, Gentle, Flights, Merged, Loc, Idle
<1>4. Survives(k)'
  BY <1>2, <1>3, OwnSurvives
<1> QED BY <1>3, <1>4

(* The header of a new record goes to the slot of the write.               *)
LEMMA WriteHeaderSafe ==
  ASSUME Inv, Inv', Safe, NEW k \in Keys, WriteHeader(k)
  PROVE Safe'
<1>1. Types /\ OpenFiles /\ OpsAre
  BY DEF Inv
<1>2. PICK o : o = op[k]
  OBVIOUS
<1>3. PICK c : c = o.base
  OBVIOUS
<1>4. PICK q : q = [o EXCEPT !.pc = "mark"]
  OBVIOUS
<1>5. PICK x : x = [key |-> k, ver |-> Unwritten, removed |-> FALSE]
  OBVIOUS
<1>6. PICK d : d = WriteAt(data[c], o.pos, x, Blank)
  OBVIOUS
<1>7. /\ o.pc = "header" /\ op' = [op EXCEPT ![k] = q]
      /\ data' = [data EXCEPT ![c] = d]
      /\ whole' = [whole EXCEPT ![c] = @ /\ o.pos <= Len(data[c])]
      /\ UNCHANGED <<index, sorted, chunk, phase, open, sortFd, cache, dataOffset,
                     indexSize, mutex, job, ops, faults, observers>>
  BY <1>2, <1>3, <1>4, <1>5, <1>6 DEF WriteHeader
<1>8. phase = "up" /\ OpIs(k, o) /\ o \in Ops /\ o # Idle
  BY <1>2, <1>7, InHand
<1>9. mutex = k
  BY <1>7, <1>8 DEF OpIs
<1>10. c \in Visible /\ c \notin sortFd /\ c \notin job.group
  BY <1>2, <1>3, <1>7, <1>9, InHand DEF Visible
<1>11. /\ c \in Bases /\ data[c] \in Seq(Cell) /\ o.pos \in Nat \ {0}
  BY <1>1, <1>2, <1>3, <1>8, <1>9, <1>10, VisibleIs, OpFields DEF OpIs
<1>12. d \in Seq(Cell) /\ Written(d, data[c], o.pos, x, Blank)
  BY <1>5, <1>6, <1>11, CellIs, WriteAtIs
<1>13. PICK n \in Nat : n = Len(data[c])
  BY <1>11, SeqIs
<1>14. /\ Len(d) = IF n >= o.pos THEN n ELSE o.pos
       /\ Len(d) \in Nat /\ DOMAIN d = 1 .. Len(d) /\ DOMAIN data[c] = 1 .. n
       /\ \A p \in 1 .. n : p # o.pos => d[p] = data[c][p]
  BY <1>11, <1>12, <1>13, SeqIs DEF Written
<1>15. /\ q.base = o.base /\ q.at = o.at /\ q.pos = o.pos /\ q.ver = o.ver /\ q.old = o.old
       /\ q.pc = "mark"
  BY <1>4, <1>8 DEF Ops
<1>16. op'[k] = q /\ \A j \in Keys : j # k => op'[j] = op[j]
  BY <1>1, <1>7 DEF Types
<1>17. \A j \in Keys : op'[j].base = op[j].base
  BY <1>2, <1>15, <1>16
<1>18. /\ data'[c] = d /\ \A b \in Bases : b # c => data'[b] = data[b] /\ whole'[b] = whole[b]
       /\ whole'[c] = (whole[c] /\ o.pos <= Len(data[c]))
  BY <1>1, <1>7, <1>11 DEF Types
<1>19. Longer(c)
  <2>1. o.pos \in Nat /\ Len(d) >= Len(data[c]) /\ (Len(d) = Len(data[c]) => o.pos <= Len(data[c]))
    BY <1>11, <1>13, <1>14
  <2>2. whole[c] /\ o.pos <= Len(data[c]) => whole'[c]
    BY <1>18, Zenon
  <2>3. Len(data'[c]) = Len(d)
    BY <1>18
  <2> QED BY <1>13, <1>14, <2>1, <2>2, <2>3, LongerIs
<1>20. /\ phase' = "up" /\ index' = index /\ sorted' = sorted
       /\ chunk' = chunk /\ sortFd' = sortFd /\ job' = job /\ open' = open /\ cache' = cache
       /\ dataOffset' = dataOffset /\ indexSize' = indexSize /\ mutex' = mutex
       /\ acked' = acked /\ unsure' = unsure
  BY <1>7, <1>8 DEF observers
<1>21. \A b : Settled(b)' = Settled(b) /\ Filled(b)' = Filled(b)
  BY <1>17, <1>20, SettledSame, FilledSame
<1>22. Versions(k, c)
  <2>1. ASSUME NEW p \in DOMAIN data[c]
        PROVE  p \in DOMAIN d /\ (~(op[k].base = c /\ op[k].pos = p) => d[p] = data[c][p])
    BY <1>2, <1>3, <1>11, <1>14, <2>1
  <2> QED BY <1>18, <1>19, <2>1 DEF Versions
<1>23. Gentle(k, Keys)
  <2>1. \A b \in Visible \ sortFd : Sized(k, b)
    BY <1>21 DEF Sized
  <2>2. PICK C \in SUBSET Visible : C = {c}
    BY <1>10
  <2>3. \A b \in C : /\ Versions(k, b) /\ (b \in sortFd => Flagged(b, Keys))
                     /\ (b \notin sortFd => Entered(k, b, Keys))
    BY <1>8, <1>10, <1>20, <1>22, <2>2, EnteredSame
  <2> HIDE DEF Sized, Versions, Flagged, Entered, Gentle
  <2> QED BY <1>8, <1>16, <1>18, <1>20, <2>1, <2>2, <2>3, GentleIs
<1>24. ASSUME NEW b \in Bases, op'[k].base = b PROVE InLine(k, b, op[k])'
  <2>1. Flights
    BY <1>8 DEF Safe
  <2>2. o.base = b /\ mutex' = k /\ o.pc # "index"
    BY <1>2, <1>7, <1>9, <1>15, <1>16, <1>20, <1>24
  <2> HIDE DEF Gentle, InLine, Flights, Filled
  <2> QED BY <1>2, <1>15, <1>16, <1>23, <2>1, <2>2, InLineStays
<1>25. ASSUME k \notin unsure' PROVE Survives(k)' /\ ~Merged(k)
  <2>1. Places(k)
    BY <1>2, <1>15, <1>16 DEF Places
  <2>2. Steady(k) /\ Steady(k)'
    BY <1>2, <1>7, <1>15, <1>16 DEF Steady
  <2> HIDE DEF Survives, Steady, Places, Gentle, Merged, Safe, Idle
  <2> QED BY <1>2, <1>8, <1>15, <1>16, <1>20, <1>23, <1>25, <2>1, <2>2, OnwardSurvives
<1> HIDE DEF Survives, Gentle, Merged, Safe, InLine
<1> QED BY <1>20, <1>23, <1>24, <1>25, GentleSafe

(* The entry of a new record goes to the place that the write reserved.    *)
LEMMA WriteIndexSafe ==
  ASSUME Inv, Inv', Safe, NEW k \in Keys, WriteIndex(k)
  PROVE Safe'
<1>1. Types /\ OpenFiles /\ OpsAre
  BY DEF Inv
<1>2. PICK o : o = op[k]
  OBVIOUS
<1>3. PICK c : c = o.base
  OBVIOUS
<1>4. PICK q : q = [o EXCEPT !.pc = "header"]
  OBVIOUS
<1>5. PICK x : x = [key |-> k, pos |-> o.pos, removed |-> FALSE]
  OBVIOUS
<1>6. PICK t : t = WriteAt(index[c], o.at, x, Hole)
  OBVIOUS
<1>7. /\ o.pc = "index" /\ op' = [op EXCEPT ![k] = q]
      /\ index' = [index EXCEPT ![c] = t]
      /\ UNCHANGED <<data, whole, sorted, chunk, phase, open, sortFd, cache,
                     dataOffset, indexSize, mutex, job, ops, faults, observers>>
  BY <1>2, <1>3, <1>4, <1>5, <1>6 DEF WriteIndex
<1>8. phase = "up" /\ OpIs(k, o) /\ o \in Ops /\ o # Idle
  BY <1>2, <1>7, InHand
<1>9. mutex = k
  BY <1>7, <1>8 DEF OpIs
<1>10. c \in Visible /\ c \notin sortFd /\ c \notin job.group
  BY <1>2, <1>3, <1>7, <1>9, InHand DEF Visible
<1>11. c \in Bases /\ index[c] \in Seq(SoundEntry)
  BY <1>1, <1>8, <1>10, VisibleIs
<1>12. o.pos \in Nat \ {0} /\ o.at \in Nat \ {0}
  BY <1>1, <1>2, <1>3, <1>8, <1>9, <1>11, OpFields DEF OpIs
<1>13. t \in Seq(SoundEntry) /\ Written(t, index[c], o.at, x, Hole)
  <2>1. x \in SoundEntry /\ Hole \in SoundEntry
    BY <1>5, <1>12, EntryIs
  <2> QED BY <1>6, <1>11, <1>12, <2>1, WriteAtIs
<1>14. PICK n \in Nat : n = Len(index[c])
  BY <1>11, SeqIs
<1>15. PICK a \in Nat \ {0} : a = o.at
  BY <1>12
<1>16. /\ Len(t) \in Nat /\ DOMAIN t = 1 .. Len(t) /\ DOMAIN index[c] = 1 .. n
       /\ Len(t) = IF n >= a THEN n ELSE a
       /\ t[a] = x /\ x.key = k /\ x.pos = o.pos
       /\ \A j \in 1 .. n : j # a => t[j] = index[c][j]
       /\ \A j \in 1 .. a - 1 : j > n => t[j] = Hole
  BY <1>5, <1>11, <1>13, <1>14, <1>15, SeqIs DEF Written
<1>17. /\ q.base = o.base /\ q.at = o.at /\ q.pos = o.pos /\ q.ver = o.ver /\ q.old = o.old
       /\ q.pc = "header"
  BY <1>4, <1>8 DEF Ops
<1>18. op'[k] = q /\ \A j \in Keys : j # k => op'[j] = op[j]
  BY <1>1, <1>7 DEF Types
<1>19. \A j \in Keys : op'[j].base = op[j].base
  BY <1>2, <1>17, <1>18
<1>20. index'[c] = t /\ \A b \in Bases : b # c => index'[b] = index[b]
  BY <1>1, <1>7, <1>11 DEF Types
<1>21. /\ phase' = "up" /\ data' = data /\ whole' = whole /\ sorted' = sorted
       /\ chunk' = chunk /\ sortFd' = sortFd /\ job' = job /\ open' = open /\ cache' = cache
       /\ dataOffset' = dataOffset /\ indexSize' = indexSize /\ mutex' = mutex
       /\ acked' = acked /\ unsure' = unsure
  BY <1>7, <1>8 DEF observers
<1>22. \A b : Settled(b)' = Settled(b) /\ Filled(b)' = Filled(b)
  BY <1>19, <1>21, SettledSame, FilledSame
<1>23. a = Settled(c) + 1 /\ Settled(c) \in Nat
  BY <1>1, <1>2, <1>3, <1>9, <1>11, <1>15, SettledIs
<1>24. Len(index[c]) <= Settled(c) + 1 /\ Flights
  <2>1. Flights
    BY <1>8 DEF Safe
  <2>2. Flight(k, c, o)
    BY <1>2, <1>3, <1>8, <1>10, <1>11, <2>1, BaseIs, FlightIs
  <2> QED BY <2>1, <2>2 DEF Flight, Lined, Tidy
<1> HIDE DEF Settled, Filled
<1>25. Entered(k, c, Keys)
  <2>1. Hole.key = 0 /\ Hole.pos = 0
    BY DEF Hole
  <2>2. ASSUME NEW j \in DOMAIN t
        PROVE  \/ j \in DOMAIN index[c] /\ t[j] = index[c][j]
               \/ j <= Settled(c) /\ j \notin DOMAIN index[c] /\ t[j].key = 0 /\ t[j].pos = 0
               \/ j = a
    BY <1>14, <1>15, <1>16, <1>23, <2>1, <2>2
  <2>3. Len(t) >= Len(index[c])
    BY <1>14, <1>15, <1>16
  <2> QED BY <1>2, <1>3, <1>9, <1>13, <1>16, <1>20, <1>23, <2>2, <2>3 DEF Entered
<1>26. Gentle(k, Keys)
  <2>1. \A b \in Visible \ sortFd : Sized(k, b)
    BY <1>22 DEF Sized
  <2>2. PICK C \in SUBSET Visible : C = {c}
    BY <1>10
  <2>3. Versions(k, c)
    BY <1>21, VersionsSame
  <2> HIDE DEF Sized, Versions, Flagged, Entered, Gentle
  <2> QED BY <1>8, <1>10, <1>18, <1>20, <1>21, <1>25, <2>1, <2>2, <2>3, GentleIs
<1>27. ASSUME NEW b \in Bases, op'[k].base = b PROVE InLine(k, b, op[k])'
  <2>1. /\ o.base = b /\ mutex' = k
        /\ o.at \in DOMAIN index'[b] /\ index'[b][o.at].pos = o.pos
    BY <1>2, <1>3, <1>9, <1>14, <1>15, <1>16, <1>17, <1>18, <1>20, <1>21, <1>27
  <2> HIDE DEF Gentle, InLine, Flights, Filled
  <2> QED BY <1>2, <1>17, <1>18, <1>24, <1>26, <2>1, InLineStays
<1>28. ASSUME k \notin unsure' PROVE Survives(k)' /\ ~Merged(k)
  <2>1. Places(k)
    BY <1>2, <1>17, <1>18 DEF Places
  <2>2. Steady(k) /\ Steady(k)'
    BY <1>2, <1>7, <1>17, <1>18 DEF Steady
  <2> HIDE DEF Survives, Steady, Places, Gentle, Merged, Safe, Idle
  <2> QED BY <1>2, <1>8, <1>17, <1>18, <1>21, <1>26, <1>28, <2>1, <2>2, OnwardSurvives
<1> HIDE DEF Survives, Gentle, Merged, Safe, InLine
<1> QED BY <1>21, <1>26, <1>27, <1>28, GentleSafe


(* eblob_write_prepare_disk_ll: the entry and the slot that are reserved   *)
(* come after all others.                                                  *)
LEMMA WriteBeginSafe ==
  ASSUME Inv, Inv', Safe, NEW k \in Keys, WriteBegin(k)
  PROVE Safe'
<1>1. Types /\ OpenFiles /\ OpsAre
  BY DEF Inv
<1>2. PICK b : b = IF NeedBase THEN NewBase ELSE LastBase
  OBVIOUS
<1>3. PICK fresh \in BOOLEAN : fresh = NeedBase
  BY DEF NeedBase
<1>4. PICK l : /\ l \in IF Locations(k) = {} THEN {NoLoc} ELSE Locations(k)
               /\ op' = [op EXCEPT ![k] = [pc |-> "index", ver |-> ops', base |-> b,
                            at |-> indexSize'[b], pos |-> dataOffset'[b], old |-> l]]
  BY <1>2 DEF WriteBegin
<1>5. /\ phase = "up" /\ op[k] = Idle /\ mutex = Nobody /\ b \in Bases
      /\ data' = [data EXCEPT ![b] = Created(data[b])]
      /\ index' = [index EXCEPT ![b] = Created(index[b])]
      /\ indexSize' = [indexSize EXCEPT ![b] = indexSize[b] + 1]
      /\ dataOffset' = [dataOffset EXCEPT ![b] = dataOffset[b] + 1]
      /\ mutex' = k /\ open' = open \cup {b} /\ ops' = ops + 1
      /\ UNCHANGED <<whole, sorted, chunk, phase, sortFd, cache, job, faults, observers>>
  BY <1>2 DEF WriteBegin
<1>6. Target(b, fresh)
  BY <1>2, <1>3, <1>5, TargetIs
<1>7. job.group = {} /\ Visible = open /\ job.todo = <<>>
  BY <1>5, NoSorter, NamesAssumption
<1>8. /\ \A x \in Bases : x # b => /\ data'[x] = data[x] /\ index'[x] = index[x]
                                   /\ indexSize'[x] = indexSize[x] /\ dataOffset'[x] = dataOffset[x]
      /\ indexSize'[b] = indexSize[b] + 1 /\ dataOffset'[b] = dataOffset[b] + 1
      /\ data'[b] = Created(data[b]) /\ index'[b] = Created(index[b])
  BY <1>1, <1>5 DEF Types
<1>9. PICK q : q = [pc |-> "index", ver |-> ops + 1, base |-> b, at |-> indexSize[b] + 1,
                    pos |-> dataOffset[b] + 1, old |-> l]
  OBVIOUS
<1>10. op'[k] = q /\ \A j \in Keys : j # k => op'[j] = op[j]
  BY <1>1, <1>4, <1>5, <1>8, <1>9 DEF Types
<1>11. /\ q.pc = "index" /\ q.ver = ops + 1 /\ q.base = b /\ q.at = indexSize[b] + 1
       /\ q.pos = dataOffset[b] + 1 /\ q.old = l
  BY <1>9
<1>12. ops \in Nat /\ \A x \in Bases : indexSize[x] \in Nat /\ dataOffset[x] \in Nat
  BY <1>1, FileIs DEF Types
<1>13. ASSUME NEW x \in Bases
       PROVE  /\ Settled(x)' = indexSize[x] /\ Settled(x) = indexSize[x]
              /\ Filled(x)' = dataOffset[x] /\ Filled(x) = dataOffset[x]
  <2>1. Settled(x) = indexSize[x] /\ Filled(x) = dataOffset[x]
    BY <1>1, <1>5, SettledIs, FilledIs, NamesAssumption
  <2>2. Holding(x)' <=> x = b
    BY <1>5, <1>10, <1>11 DEF Holding
  <2>3. Settled(x)' = indexSize[x] /\ Filled(x)' = dataOffset[x]
    BY <1>8, <1>12, <2>2 DEF Settled, Filled
  <2> QED BY <2>1, <2>3
<1>14. /\ phase' = "up" /\ sortFd' = sortFd /\ job' = job /\ chunk' = chunk /\ sorted' = sorted
       /\ whole' = whole /\ cache' = cache /\ acked' = acked /\ unsure' = unsure
  BY <1>5 DEF observers
<1> HIDE DEF Settled, Filled
<1>15. ASSUME NEW x \in Visible
       PROVE  /\ x \in Bases /\ data'[x] = data[x] /\ index'[x] = index[x]
              /\ Versions(k, x) /\ Flagged(x, Keys) /\ Sized(k, x)
              /\ x \notin sortFd => Entered(k, x, Keys)
  <2>1. x \in open /\ x \in Bases
    BY <1>1, <1>7 DEF Types
  <2>2. data'[x] = data[x] /\ index'[x] = index[x]
    <3>1. CASE x = b
      <4>1. ~fresh
        BY <1>6, <2>1, <3>1 DEF Target
      <4>2. data[x] # NoFile /\ index[x] # NoFile
        BY <1>6, <3>1, <4>1, FilesDiffer DEF Target
      <4> QED BY <1>8, <3>1, <4>2 DEF Created
    <3> QED BY <1>8, <2>1, <3>1
  <2>3. Versions(k, x)
    BY <1>14, <2>2, VersionsSame
  <2>4. Flagged(x, Keys)
    BY <1>14 DEF Flagged
  <2>5. Sized(k, x)
    BY <1>13, <2>1 DEF Sized
  <2>6. x \notin sortFd => Entered(k, x, Keys)
    BY <1>5, <1>14, <2>2, EnteredSame
  <2> QED BY <2>1, <2>2, <2>3, <2>4, <2>5, <2>6
<1>16. fresh => b \notin open /\ data[b] = NoFile /\ index'[b] = <<>>
  BY <1>6, <1>8 DEF Target, Created
<1>17. ~fresh => b \in open
  BY <1>6 DEF Target
<1>18. Gentle(k, Keys)
  <2>1. ASSUME NEW x \in open' \ open PROVE x \in Visible' /\ x \notin Found /\ index'[x] = <<>>
    <3>1. x = b /\ fresh
      BY <1>5, <1>17, <2>1
    <3> QED BY <1>7, <1>14, <1>16, <2>1, <3>1 DEF Visible, Found
  <2>2. \A j \in Keys : j # k => (mutex' = j <=> mutex = j)
    BY <1>5, NamesAssumption
  <2> HIDE DEF Versions, Flagged, Sized, Entered
  <2> QED BY <1>5, <1>7, <1>10, <1>14, <1>15, <2>1, <2>2 DEF Gentle
<1>19. Flights
  BY <1>5 DEF Safe
<1>20. InLine(k, b, q)'
  <2>1. PICK t : t = index'[b]
    OBVIOUS
  <2>2. ASSUME ~fresh
        PROVE /\ t = index[b] /\ data'[b] = data[b] /\ t \in Seq(SoundEntry) /\ b \in Unsorted
              /\ Len(t) <= indexSize[b] + 1
              /\ \A j \in DOMAIN t : j <= indexSize[b] => Within(b, t[j]) \/ t[j].pos <= dataOffset[b]
    <3>1. t = index[b] /\ data'[b] = data[b]
      BY <1>7, <1>15, <1>17, <2>1, <2>2
    <3>2. t \in Seq(SoundEntry) /\ b \in Unsorted
      BY <1>6, <1>17, <2>2, <3>1 DEF Target, Unsorted
    <3>3. Tidy(b)
      BY <1>5, <1>19, <3>2 DEF Flights, Lined
    <3> QED BY <1>5, <1>13, <3>1, <3>2, <3>3 DEF Tidy
  <2>3. ASSUME NEW j \in DOMAIN t
        PROVE  /\ j < q.at => Within(b, t[j])' \/ t[j].pos < q.pos
               /\ ~(j > q.at)
    <3>1. CASE fresh
      BY <1>16, <2>1, <2>3, <3>1
    <3>2. CASE ~fresh
      <4>1. Len(t) \in Nat /\ DOMAIN t = 1 .. Len(t) /\ t[j].pos \in Nat /\ j \in Nat
        <5>1. Len(t) \in Nat /\ DOMAIN t = 1 .. Len(t) /\ j \in Nat /\ t[j] \in SoundEntry
          BY <2>2, <2>3, <3>2, SeqIs
        <5> QED BY <5>1, EntryIs
      <4>2. Within(b, t[j]) => Within(b, t[j])'
        BY <1>14, <2>1, <2>2, <3>2 DEF Within
      <4>3. ~(j > q.at)
        BY <1>5, <1>11, <1>12, <2>2, <2>3, <3>2, <4>1
      <4>4. j < q.at => Within(b, t[j]) \/ t[j].pos < q.pos
        <5> HIDE DEF Within
        <5> QED BY <1>5, <1>11, <1>12, <2>2, <2>3, <3>2, <4>1
      <4> QED BY <4>2, <4>3, <4>4
    <3> QED BY <3>1, <3>2
  <2> QED BY <1>5, <1>11, <1>12, <2>1, <2>3 DEF InLine, Within
<1>21. ASSUME NEW x \in Bases, op'[k].base = x PROVE InLine(k, x, op[k])'
  <2>1. x = b
    BY <1>10, <1>11, <1>21
  <2> QED BY <1>10, <1>20, <2>1 DEF InLine, Within, Filled, Holding
<1>22. ASSUME k \notin unsure' PROVE Survives(k)' /\ ~Merged(k)
  <2>1. Places(k)
    <3>1. ASSUME NEW x \in Bases, NEW i \in Nat, i <= Settled(x)
          PROVE  ~(op'[k].base = x /\ op'[k].at = i) /\ op[k].base # x
      BY <1>5, <1>10, <1>11, <1>12, <1>13, <3>1, IdleFields, BaseIs
    <3> QED BY <3>1 DEF Places
  <2>2. Steady(k) /\ Steady(k)'
    BY <1>5, <1>10, <1>11, IdleFields DEF Steady
  <2>3. /\ Survives(k) /\ ~Merged(k) /\ (acked[k] # 0 => Locations(k) # {})
        /\ \A m \in Locations(k) :
             \E c \in Bases : \E i \in Nat : Recorded(k, c, i) /\ m = Loc(c, i)
    BY <1>5, <1>7, <1>14, <1>22, WhereIs
  <2>4. /\ \A c \in Bases : \A j \in Nat : Recorded(k, c, j) => l = Loc(c, j)
        /\ Absent(k) => l = NoLoc
    <3>1. CASE Locations(k) = {}
      <4>1. l = NoLoc /\ Absent(k)
        BY <1>4, <2>3, <3>1 DEF Survives
      <4> QED BY <4>1, RecordedOnce
    <3>2. CASE Locations(k) # {}
      <4>1. PICK c \in Bases, i \in Nat : Recorded(k, c, i) /\ l = Loc(c, i)
        BY <1>4, <2>3, <3>2
      <4> QED BY <4>1, RecordedOnce
    <3> QED BY <3>1, <3>2
  <2> HIDE DEF Recorded, Absent, Survives, Steady, Places, Gentle, Flights, Merged, Loc, Idle
  <2>5. Survives(k)'
    BY <1>10, <1>11, <1>14, <1>18, <1>19, <2>1, <2>2, <2>3, <2>4, OwnSurvives
  <2> QED BY <2>3, <2>5
<1> HIDE DEF Survives, Gentle, Merged, Safe, InLine
<1> QED BY <1>14, <1>18, <1>21, <1>22, GentleSafe

(* The removed flag in the header of the old record.                       *)
LEMMA MarkDataSafe ==
  ASSUME Inv, Inv', Safe, NEW k \in Keys, MarkData(k)
  PROVE Safe'
<1>1. Types /\ OpenFiles /\ OpsAre
  BY DEF Inv
<1>2. PICK o : o = op[k]
  OBVIOUS
<1>3. PICK l : l = o.old
  OBVIOUS
<1>4. PICK q : q = IF mutex = k THEN [o EXCEPT !.pc = "payload"] ELSE Idle
  OBVIOUS
<1>5. PICK c : c = l.base
  OBVIOUS
<1>6. PICK d : d = IF l.pos \in DOMAIN data[c]
                   THEN [data[c] EXCEPT ![l.pos] = [data[c][l.pos] EXCEPT !.removed = TRUE]]
                   ELSE data[c]
  OBVIOUS
<1>7. /\ o.pc = "markdata" /\ op' = [op EXCEPT ![k] = q]
      /\ data' = IF l.pos \in DOMAIN data[c]
                 THEN [data EXCEPT ![c] = [data[c] EXCEPT ![l.pos] =
                                            [data[c][l.pos] EXCEPT !.removed = TRUE]]]
                 ELSE data
      /\ mutex = k => mutex' = Nobody /\ UNCHANGED <<cache, acked>>
      /\ mutex # k => /\ mutex' = mutex /\ cache' = [cache EXCEPT ![k] = NoLoc]
                      /\ acked' = [acked EXCEPT ![k] = 0]
      /\ UNCHANGED <<whole, index, sorted, chunk, phase, open, sortFd, dataOffset,
                     indexSize, job, ops, faults, unsure, damaged>>
  BY <1>2, <1>3, <1>4, <1>5 DEF MarkData
<1>8. phase = "up" /\ OpIs(k, o) /\ o \in Ops /\ o # Idle
  BY <1>2, <1>7, InHand
<1>9. l \in Location /\ LocIs(l)
  BY <1>1, <1>2, <1>3, <1>7, <1>8, OpFields DEF OpIs
<1>10. c \in Visible /\ c \notin job.group
  BY <1>5, <1>9 DEF LocIs, Visible
<1>11. c \in Bases /\ data[c] \in Seq(Cell) /\ Len(data[c]) \in Nat
  BY <1>1, <1>8, <1>10, VisibleIs, SeqIs
<1>12. /\ Len(d) = Len(data[c]) /\ DOMAIN d = DOMAIN data[c]
       /\ \A p \in DOMAIN data[c] : d[p].ver = data[c][p].ver
  <2>1. CASE l.pos \in DOMAIN data[c]
    <3>1. PICK x \in Cell : x = data[c][l.pos]
      BY <1>11, <2>1, SeqIs
    <3>2. PICK y : y = [x EXCEPT !.removed = TRUE]
      OBVIOUS
    <3>3. y.ver = x.ver
      BY <3>1, <3>2 DEF Cell
    <3>4. d = [data[c] EXCEPT ![l.pos] = y]
      BY <1>6, <2>1, <3>1, <3>2
    <3> QED BY <1>11, <3>1, <3>3, <3>4
  <2>2. CASE l.pos \notin DOMAIN data[c]
    BY <1>6, <2>2
  <2> QED BY <2>1, <2>2
<1>13. data'[c] = d /\ \A b \in Bases : b # c => data'[b] = data[b]
  <2>1. data' = [data EXCEPT ![c] = d]
    BY <1>1, <1>6, <1>7, <1>11 DEF Types
  <2> QED BY <1>1, <1>11, <2>1 DEF Types
<1>14. /\ phase' = "up" /\ sortFd' = sortFd /\ job' = job /\ chunk' = chunk
       /\ whole' = whole /\ index' = index /\ sorted' = sorted /\ open' = open
       /\ indexSize' = indexSize /\ dataOffset' = dataOffset /\ unsure' = unsure
  BY <1>7, <1>8
<1>15. /\ op'[k] = q
       /\ \A j \in Keys : j # k => op'[j] = op[j] /\ cache'[j] = cache[j] /\ acked'[j] = acked[j]
                                   /\ (mutex' = j <=> mutex = j)
       /\ mutex # k => cache'[k] = NoLoc /\ acked'[k] = 0
  BY <1>1, <1>7, NamesAssumption DEF Types
<1>16. Versions(k, c)
  <2>1. Longer(c)
    BY <1>11, <1>12, <1>13, <1>14, LongerIs
  <2> QED BY <1>12, <1>13, <2>1 DEF Versions
<1>17. /\ mutex = k => /\ q.base = o.base /\ q.at = o.at /\ q.pos = o.pos /\ q.ver = o.ver
                       /\ q.pc = "payload"
       /\ mutex # k => q = Idle /\ o.base = 0
  BY <1>4, <1>7, <1>8 DEF Ops, OpIs
<1>18. /\ \A b \in Visible \ sortFd : Sized(k, b)
       /\ mutex = k => \A b \in Bases : q.base = b /\ q.pos = op[k].pos => q.pos <= Filled(b)'
  <2>1. CASE mutex = k
    <3>1. Released(k)
      BY <1>2, <1>7, <1>8, <1>14, <2>1 DEF Released
    <3> QED BY <1>2, <1>14, <1>15, <1>17, <2>1, <3>1, ReleasedSized
  <2>2. CASE mutex # k
    <3>1. \A j \in Keys : mutex = j => op'[j].base = op[j].base
      BY <1>15, <2>2
    <3>2. \A b : Settled(b)' = Settled(b) /\ Filled(b)' = Filled(b)
      BY <1>7, <1>14, <2>2, <3>1, SettledSame, FilledSame
    <3> QED BY <2>2, <3>2 DEF Sized
  <2> QED BY <2>1, <2>2
<1>19. Gentle(k, Keys)
  <2>1. PICK C \in SUBSET Visible : C = {c}
    BY <1>10
  <2>2. \A b \in C : /\ Versions(k, b) /\ (b \in sortFd => Flagged(b, Keys))
                     /\ (b \notin sortFd => Entered(k, b, Keys))
    BY <1>8, <1>10, <1>14, <1>16, <2>1, EnteredSame
  <2> HIDE DEF Sized, Versions, Flagged, Entered, Gentle
  <2> QED BY <1>8, <1>13, <1>14, <1>15, <1>18, <2>1, <2>2, GentleIs
<1>20. Flights
  BY <1>8 DEF Safe
<1>21. ASSUME NEW b \in Bases, op'[k].base = b PROVE InLine(k, b, op[k])'
  <2>1. mutex = k
    BY <1>15, <1>17, <1>21, IdleFields, BaseIs
  <2>2. o.base = b /\ q.pos <= Filled(b)' /\ o.pc # "index"
    BY <1>2, <1>7, <1>15, <1>17, <1>18, <1>21, <2>1
  <2> HIDE DEF Gentle, InLine, Flights, Filled
  <2> QED BY <1>2, <1>15, <1>17, <1>19, <1>20, <2>1, <2>2, InLineStays
<1>22. ASSUME k \notin unsure' PROVE Survives(k)' /\ ~Merged(k)
  <2>1. Places(k)
    BY <1>2, <1>15, <1>17, IdleFields, BaseIs DEF Places
  <2>2. ~Steady(k) /\ (mutex = k => ~Steady(k)')
    BY <1>2, <1>7, <1>15, <1>17 DEF Steady
  <2>3. ~Merged(k) /\ Absent(k)
    BY <1>2, <1>8, <1>14, <1>22, <2>2, OwnIs
  <2>4. Steady(k)' => acked'[k] = 0 /\ cache'[k] = NoLoc /\ op'[k].old = NoLoc
    BY <1>15, <1>17, <2>2, IdleFields
  <2> HIDE DEF Recorded, Absent, Survives, Steady, Places, Gentle, Flights, Merged
  <2>5. Survives(k)'
    BY <1>19, <1>20, <2>1, <2>3, <2>4, OwnAbsent
  <2> QED BY <2>3, <2>5
<1> HIDE DEF Survives, Gentle, Merged, Safe, InLine
<1> QED BY <1>14, <1>19, <1>21, <1>22, GentleSafe


(* A removed flag beyond the end of the file leaves holes.                 *)
LEMMA MarkedHoles ==
  ASSUME NEW s \in Seq(SoundEntry), NEW i \in Nat \ {0}, NEW t, t = Marked(s, i)
  PROVE \A j \in 1 .. Len(t) : j > Len(s) => t[j].key = 0 /\ t[j].pos = 0
<1>1. Len(s) \in Nat
  BY SeqIs
<1>2. CASE i <= Len(s)
  BY <1>1, <1>2, MarkedIs
<1>3. CASE ~(i <= Len(s))
  <2>1. PICK x : x = [Hole EXCEPT !.removed = TRUE]
    OBVIOUS
  <2>2. x \in SoundEntry /\ Hole \in SoundEntry /\ x.key = 0 /\ x.pos = 0 /\ Hole.key = 0 /\ Hole.pos = 0
    BY <2>1, EntryIs DEF Hole
  <2>3. t = WriteAt(s, i, x, Hole)
    BY <1>3, <2>1 DEF Marked
  <2>4. Written(t, s, i, x, Hole)
    BY <2>2, <2>3, WriteAtIs
  <2>5. Len(t) = i /\ t[i] = x /\ \A j \in 1 .. i - 1 : j > Len(s) => t[j] = Hole
    BY <1>1, <1>3, <2>4 DEF Written
  <2> QED BY <1>1, <2>2, <2>5
<1> QED BY <1>2, <1>3

(* The removed flag in the index: from here on the key has no record, and  *)
(* if the flag has met the entry of another key, nothing is claimed about  *)
(* that one any more.                                                      *)
LEMMA MarkIndexSafe ==
  ASSUME Inv, Inv', Safe, NEW k \in Keys, MarkIndex(k)
  PROVE Safe'
<1>1. Types /\ OpenFiles /\ OpsAre
  BY DEF Inv
<1>2. PICK o : o = op[k]
  OBVIOUS
<1>3. PICK l : l = o.old
  OBVIOUS
<1>4. PICK c : c = l.base
  OBVIOUS
<1>5. PICK q : q = [o EXCEPT !.pc = "markdata"]
  OBVIOUS
<1>6. PICK s : s = IndexFd(c)
  OBVIOUS
<1>7. PICK t : t = Marked(s, l.at)
  OBVIOUS
<1>8. /\ o.pc = "mark" /\ l # NoLoc /\ op' = [op EXCEPT ![k] = q]
      /\ unsure' = unsure \cup ((IF l.at \in DOMAIN s THEN {s[l.at].key} ELSE {}) \ {0, k})
      /\ UNCHANGED <<data, whole, chunk, phase, open, sortFd, cache, dataOffset,
                     indexSize, mutex, job, ops, faults, acked, damaged>>
  BY <1>2, <1>3, <1>4, <1>5, <1>6 DEF MarkIndex
<1>9. phase = "up" /\ OpIs(k, o) /\ o \in Ops /\ o # Idle
  BY <1>2, <1>8, InHand
<1>10. l \in Location /\ LocIs(l)
  BY <1>1, <1>2, <1>3, <1>8, <1>9, OpFields DEF OpIs
<1>11. c \in Visible /\ c \in Bases /\ c \in open /\ c \notin job.group /\ l.at \in Nat \ {0}
  BY <1>1, <1>4, <1>10, LocFields DEF LocIs, Visible
<1>12. /\ s \in Seq(SoundEntry) /\ Len(s) \in Nat /\ DOMAIN s = 1 .. Len(s)
       /\ c \in sortFd => s = sorted[c]
       /\ c \notin sortFd => s = index[c] /\ sorted[c] = NoFile
  BY <1>1, <1>6, <1>9, <1>11, IndexFdIs, VisibleIs, SeqIs
<1>13. /\ c \in sortFd => sorted' = [sorted EXCEPT ![c] = t] /\ index' = index
       /\ c \notin sortFd => index' = [index EXCEPT ![c] = t] /\ sorted' = sorted
  BY <1>1, <1>2, <1>3, <1>4, <1>7, <1>11, <1>12 DEF MarkIndex, Types
<1>14. /\ \A b \in Bases : b # c => index'[b] = index[b] /\ sorted'[b] = sorted[b]
       /\ c \in sortFd => sorted'[c] = t /\ index'[c] = index[c]
       /\ c \notin sortFd => index'[c] = t /\ sorted'[c] = sorted[c]
  BY <1>1, <1>11, <1>12, <1>13 DEF Types
<1>15. /\ t \in Seq(SoundEntry) /\ Len(t) \in Nat /\ DOMAIN t = 1 .. Len(t)
       /\ Len(t) = IF Len(s) >= l.at THEN Len(s) ELSE l.at
       /\ \A j \in 1 .. Len(s) : /\ t[j].key = s[j].key /\ t[j].pos = s[j].pos
                                 /\ j # l.at => t[j] = s[j]
       /\ \A j \in 1 .. Len(t) : j > Len(s) => t[j].key = 0 /\ t[j].pos = 0
       /\ t[l.at].removed
  BY <1>7, <1>11, <1>12, MarkedIs, MarkedHoles, SeqIs
<1>16. /\ q.base = o.base /\ q.at = o.at /\ q.pos = o.pos /\ q.ver = o.ver /\ q.old = o.old
       /\ q.pc = "markdata"
  BY <1>5, <1>9 DEF Ops
<1>17. op'[k] = q /\ \A j \in Keys : j # k => op'[j] = op[j]
  BY <1>1, <1>8 DEF Types
<1>18. \A j \in Keys : op'[j].base = op[j].base
  BY <1>2, <1>16, <1>17
<1>19. \A b : Settled(b)' = Settled(b) /\ Filled(b)' = Filled(b)
  BY <1>8, <1>18, SettledSame, FilledSame
<1>20. /\ c \in sortFd => l.at <= Len(s)
       /\ c \notin sortFd => l.at <= Settled(c)
  BY <1>4, <1>10, <1>12 DEF LocIs
<1>21. /\ phase' = "up" /\ data' = data /\ whole' = whole /\ sortFd' = sortFd /\ job' = job
       /\ chunk' = chunk /\ open' = open /\ cache' = cache /\ acked' = acked /\ mutex' = mutex
  BY <1>8, <1>9
<1> HIDE DEF Settled, Filled
<1>22. PICK Q : Q = Keys \ (unsure' \cup {k})
  OBVIOUS
<1>23. \A j \in DOMAIN s : s[j].key \in Q => t[j] = s[j]
  <2>1. ASSUME NEW j \in DOMAIN s, j = l.at PROVE s[j].key \notin Q
    <3>1. 0 \notin Keys
      BY KeysAssumption
    <3> QED BY <1>8, <1>22, <2>1, <3>1
  <2> QED BY <1>12, <1>15, <2>1
<1>24. c \in sortFd => Flagged(c, Q)
  <2>1. c \in sortFd => Len(t) = Len(s)
    BY <1>11, <1>12, <1>15, <1>20
  <2> QED BY <1>12, <1>14, <1>15, <1>23, <2>1 DEF Flagged
<1>25. ASSUME c \notin sortFd PROVE Entered(k, c, Q)
  <2>1. s = index[c] /\ t = index'[c] /\ l.at <= Settled(c) /\ Settled(c) \in Nat
    BY <1>1, <1>11, <1>12, <1>14, <1>20, <1>25, SettledIs
  <2>2. ASSUME NEW j \in DOMAIN t, j \notin DOMAIN s
        PROVE  j <= Settled(c) /\ t[j].key = 0 /\ t[j].pos = 0
    BY <1>11, <1>12, <1>15, <2>1, <2>2
  <2>3. Len(t) >= Len(s)
    BY <1>11, <1>12, <1>15
  <2>4. ASSUME NEW j \in DOMAIN s
        PROVE  /\ t[j].key = s[j].key /\ t[j].pos = s[j].pos
               /\ s[j].key \in Q => t[j] = s[j]
    BY <1>15, <1>23
  <2>5. \A i \in DOMAIN t :
          \/ /\ i \in DOMAIN s /\ t[i].key = s[i].key /\ t[i].pos = s[i].pos
             /\ s[i].key \in Q => t[i] = s[i]
          \/ i <= Settled(c) /\ i \notin DOMAIN s /\ t[i].key = 0 /\ t[i].pos = 0
    <3> SUFFICES ASSUME NEW i \in DOMAIN t
                 PROVE  \/ /\ i \in DOMAIN s /\ t[i].key = s[i].key /\ t[i].pos = s[i].pos
                           /\ s[i].key \in Q => t[i] = s[i]
                        \/ i <= Settled(c) /\ i \notin DOMAIN s /\ t[i].key = 0 /\ t[i].pos = 0
      OBVIOUS
    <3>1. CASE i \in DOMAIN s
      BY <2>4, <3>1
    <3>2. CASE i \notin DOMAIN s
      BY <2>2, <3>2
    <3> QED BY <3>1, <3>2
  <2>6. t \in Seq(SoundEntry)
    BY <1>15
  <2> QED BY <2>1, <2>3, <2>5, <2>6 DEF Entered
<1>26. Gentle(k, Q)
  <2>1. \A b \in Visible \ sortFd : Sized(k, b)
    BY <1>19 DEF Sized
  <2>2. PICK C \in SUBSET Visible : C = {c}
    BY <1>11
  <2>3. Versions(k, c)
    BY <1>21, VersionsSame
  <2>4. unsure \subseteq unsure'
    BY <1>8
  <2> HIDE DEF Sized, Versions, Flagged, Entered, Gentle
  <2> QED BY <1>9, <1>14, <1>17, <1>21, <1>24, <1>25, <2>1, <2>2, <2>3, <2>4, GentleIs
<1>27. ASSUME NEW b \in Bases, op'[k].base = b PROVE InLine(k, b, op[k])'
  <2>1. Flights
    BY <1>9 DEF Safe
  <2>2. o.base = b /\ o.pc # "index"
    BY <1>2, <1>8, <1>16, <1>17, <1>27
  <2>3. mutex' = k
    <3>1. b # 0
      BY BaseIs
    <3> QED BY <1>8, <1>9, <1>21, <2>2, <3>1 DEF OpIs
  <2> HIDE DEF Gentle, InLine, Flights, Filled
  <2> QED BY <1>2, <1>16, <1>17, <1>26, <2>1, <2>2, <2>3, InLineStays
<1>28. ASSUME k \notin unsure' PROVE Survives(k)' /\ ~Merged(k)
  <2>1. Steady(k) /\ ~Steady(k)'
    BY <1>2, <1>8, <1>16, <1>17 DEF Steady
  <2>2. ~Merged(k) /\ \E b \in Bases : \E i \in Nat : Recorded(k, b, i) /\ l = Loc(b, i)
    BY <1>2, <1>3, <1>8, <1>9, <1>28, <2>1, OwnIs
  <2>3. PICK b \in Bases, i \in Nat : Recorded(k, b, i) /\ l = Loc(b, i)
    BY <2>2
  <2>4. Answers(k, b, i) /\ Alone(k, b, i)
    BY <2>3 DEF Recorded
  <2>5. b = c /\ i = l.at
    BY <1>4, <2>3, <2>4, LocOf
  <2>6. Frames /\ Frames'
    BY NowFrames, NextFrames
  <2>7. c \in Visible'
    BY <1>11, <1>21 DEF Visible
  <2>8. Used(c) = s /\ Used(c)' = t
    BY <1>9, <1>11, <1>12, <1>14, <1>21, <2>6, <2>7 DEF Frames
  <2>9. ASSUME NEW x \in Bases, NEW j \in Nat, Answers(k, x, j)' PROVE FALSE
    <3>1. /\ x \in Found /\ j \in DOMAIN Used(x)' /\ Mine(k, Used(x)'[j])
          /\ x \in Unsorted => j <= Settled(x)
          /\ op[k].base = x => op[k].at # j
      BY <1>2, <1>16, <1>17, <1>19, <1>21, <2>9 DEF Answers, Found, Unsorted, Mine
    <3>2. CASE x # c
      <4>1. Used(x)' = Used(x)
        BY <1>14, <3>2 DEF Used, Created
      <4>2. Answers(k, x, j)
        BY <3>1, <4>1 DEF Answers
      <4> QED BY <2>4, <2>5, <3>2, <4>2 DEF Alone
    <3>3. CASE x = c
      <4>1. Mine(k, t[j]) /\ j \in DOMAIN t
        BY <2>8, <3>1, <3>3
      <4>2. k # 0
        BY KeysAssumption
      <4>3. j \in DOMAIN s /\ j # l.at
        BY <1>12, <1>15, <4>1, <4>2 DEF Mine
      <4>4. t[j] = s[j]
        BY <1>12, <1>15, <4>3
      <4>5. Answers(k, x, j)
        BY <2>8, <3>1, <3>3, <4>1, <4>3, <4>4 DEF Answers
      <4> QED BY <2>4, <2>5, <4>3, <4>5 DEF Alone
    <3> QED BY <3>2, <3>3
  <2> HIDE DEF Answers, Steady, Merged
  <2>10. Absent(k)'
    BY <2>1, <2>9 DEF Absent
  <2> HIDE DEF Absent
  <2> QED BY <2>1, <2>2, <2>10 DEF Survives
<1> HIDE DEF Survives, Gentle, Merged, Safe, InLine
<1> QED BY <1>22, <1>26, <1>27, <1>28, GentleSafe

(* The write is acknowledged: its entry answers, with the new record.      *)
LEMMA WriteCommitSafe ==
  ASSUME Inv, Inv', Safe, NEW k \in Keys, WriteCommit(k)
  PROVE Safe'
<1>1. Types /\ OpenFiles /\ OpsAre
  BY DEF Inv
<1>2. PICK o : o = op[k]
  OBVIOUS
<1>3. PICK c : c = o.base
  OBVIOUS
<1>4. PICK x : x = [key |-> k, pos |-> o.pos, removed |-> FALSE]
  OBVIOUS
<1>5. PICK y : y = [key |-> k, ver |-> o.ver, removed |-> FALSE]
  OBVIOUS
<1>6. PICK s : s = index[c]
  OBVIOUS
<1>7. PICK d : d = [data[c] EXCEPT ![o.pos] = y]
  OBVIOUS
<1>8. /\ o.pc = "payload" /\ op' = [op EXCEPT ![k] = Idle]
      /\ data' = [data EXCEPT ![c] = d]
      /\ index' = [index EXCEPT ![c] = [s EXCEPT ![o.at] = x]]
      /\ whole' = [whole EXCEPT ![c] = @ \/ o.pos = Len(data[c])]
      /\ cache' = [cache EXCEPT ![k] = [base |-> c, at |-> o.at, pos |-> o.pos]]
      /\ acked' = [acked EXCEPT ![k] = o.ver]
      /\ UNCHANGED <<sorted, chunk, phase, open, sortFd, dataOffset, indexSize, mutex,
                     job, ops, faults, unsure, damaged>>
  <2>1. data' = [data EXCEPT ![c] = [data[c] EXCEPT ![o.pos] = y]]
    BY <1>2, <1>3, <1>5 DEF WriteCommit
  <2>2. index' = [index EXCEPT ![c] = [index[c] EXCEPT ![o.at] = x]]
    BY <1>2, <1>3, <1>4 DEF WriteCommit
  <2> QED BY <1>2, <1>3, <1>6, <1>7, <2>1, <2>2 DEF WriteCommit
<1>9. phase = "up" /\ OpIs(k, o) /\ o \in Ops /\ o # Idle
  BY <1>2, <1>8, InHand
<1>10. mutex # k /\ c # 0 /\ o.pos <= Len(data[c])
  BY <1>3, <1>8, <1>9 DEF OpIs
<1>11. Flights
  BY <1>9 DEF Safe
<1>12. /\ c \in Bases /\ c \in Visible /\ c \in Unsorted /\ c \notin sortFd
       /\ s \in Seq(SoundEntry) /\ Used(c) = s /\ sorted[c] = NoFile
       /\ o.at \in Nat \ {0} /\ o.pos \in Nat \ {0} /\ o.ver \in Nat /\ o.ver # 0
       /\ Settled(c) \in Nat /\ Filled(c) \in Nat /\ InLine(k, c, o)
       /\ o.at <= Settled(c) /\ o.pos <= Filled(c)
       /\ o.at \in DOMAIN s /\ Mine(k, s[o.at]) /\ s[o.at].pos = o.pos
  <2>1. o.pc # "index" /\ mutex # k
    BY <1>8, <1>10
  <2>2. Flight(k, c, o)
    BY <1>2, <1>3, <1>9, <1>10, <1>11, FlightIs
  <2> HIDE DEF Settled, Filled, InLine, Mine
  <2> QED BY <1>6, <2>1, <2>2 DEF Flight
<1>13. [s EXCEPT ![o.at] = x] = s
  <2>1. s[o.at] \in SoundEntry /\ s[o.at].key = k /\ ~s[o.at].removed /\ s[o.at].pos = o.pos
    BY <1>12, SeqIs DEF Mine
  <2>2. PICK e \in Entry : e = s[o.at]
    BY <2>1, EntryIs
  <2>3. e.removed = FALSE
    BY <2>1, <2>2 DEF Entry
  <2>4. e = x
    BY <1>4, <2>1, <2>2, <2>3 DEF Entry
  <2>5. s = [j \in DOMAIN s |-> s[j]]
    BY <1>12, SeqIs
  <2>6. [s EXCEPT ![o.at] = x] = [j \in DOMAIN s |-> s[j]]
    BY <1>12, <2>2, <2>4, <2>5
  <2> QED BY <2>5, <2>6, Zenon
<1>14. data[c] \in Seq(Cell)
  BY <1>1, <1>9, <1>12, VisibleIs
<1>15. PICK n \in Nat : n = Len(data[c])
  BY <1>14, SeqIs
<1>16. /\ DOMAIN data[c] = 1 .. n /\ DOMAIN d = 1 .. n /\ Len(d) = n /\ o.pos \in 1 .. n
       /\ d[o.pos] = y /\ y.ver = o.ver
       /\ \A p \in 1 .. n : p # o.pos => d[p] = data[c][p]
  BY <1>5, <1>7, <1>10, <1>12, <1>14, <1>15
<1>17. /\ op'[k] = Idle /\ acked'[k] = o.ver
       /\ cache'[k] = [base |-> c, at |-> o.at, pos |-> o.pos]
       /\ \A j \in Keys : j # k => op'[j] = op[j] /\ cache'[j] = cache[j] /\ acked'[j] = acked[j]
  BY <1>1, <1>8 DEF Types
<1>18. /\ data'[c] = d /\ \A b \in Bases : b # c => data'[b] = data[b] /\ whole'[b] = whole[b]
       /\ whole'[c] = (whole[c] \/ o.pos = Len(data[c]))
       /\ \A b \in Bases : index'[b] = index[b]
  BY <1>1, <1>6, <1>8, <1>12, <1>13 DEF Types
<1>19. (whole[c] => whole'[c]) /\ (o.pos = n => whole'[c])
  BY <1>15, <1>18, Zenon
<1>20. /\ phase' = "up" /\ sorted' = sorted /\ chunk' = chunk /\ sortFd' = sortFd /\ job' = job
       /\ open' = open /\ dataOffset' = dataOffset /\ indexSize' = indexSize /\ mutex' = mutex
       /\ unsure' = unsure
  BY <1>8, <1>9
<1>21. \A b : Settled(b)' = Settled(b) /\ Filled(b)' = Filled(b)
  <2>1. \A j \in Keys : mutex = j => op'[j].base = op[j].base
    BY <1>10, <1>17
  <2> QED BY <1>20, <2>1, SettledSame, FilledSame
<1> HIDE DEF Settled, Filled
<1>22. Longer(c)
  <2>1. Len(data'[c]) = n /\ Len(data[c]) = n
    BY <1>15, <1>16, <1>18
  <2> QED BY <1>15, <1>19, <2>1, LongerIs
<1>23. Versions(k, c)
  <2>1. ASSUME NEW p \in DOMAIN data[c]
        PROVE  p \in DOMAIN d /\ (~(op[k].base = c /\ op[k].pos = p) => d[p] = data[c][p])
    BY <1>2, <1>3, <1>16, <2>1
  <2> QED BY <1>18, <1>22, <2>1 DEF Versions
<1>24. Gentle(k, Keys)
  <2>1. \A b \in Visible \ sortFd : Sized(k, b)
    BY <1>21 DEF Sized
  <2>2. PICK C \in SUBSET Visible : C = {c}
    BY <1>12
  <2>3. \A b \in C : /\ Versions(k, b) /\ (b \in sortFd => Flagged(b, Keys))
                     /\ (b \notin sortFd => Entered(k, b, Keys))
    BY <1>9, <1>12, <1>18, <1>20, <1>23, <2>2, EnteredSame
  <2> HIDE DEF Sized, Versions, Flagged, Entered, Gentle
  <2> QED BY <1>9, <1>17, <1>18, <1>20, <2>1, <2>2, <2>3, GentleIs
<1>25. \A b \in Bases : op'[k].base = b => InLine(k, b, op[k])'
  BY <1>17, IdleFields, BaseIs
<1>26. ASSUME k \notin unsure' PROVE Survives(k)' /\ ~Merged(k)
  <2>1. ~Steady(k) /\ Steady(k)'
    BY <1>2, <1>8, <1>17, IdleFields DEF Steady
  <2>2. ~Merged(k) /\ Absent(k)
    BY <1>2, <1>9, <1>20, <1>26, <2>1, OwnIs
  <2>3. Frames /\ Frames'
    BY NowFrames, NextFrames
  <2>4. c \in Visible' /\ c \in Found' /\ c \in Unsorted'
    <3>1. c \in Visible' /\ c \in Unsorted'
      BY <1>12, <1>20 DEF Visible, Unsorted
    <3> QED BY <1>20, <2>3, <3>1 DEF Frames
  <2>5. Used(c)' = s
    BY <1>6, <1>12, <1>18, <1>20, <2>3, <2>4 DEF Frames
  <2>6. Answers(k, c, o.at)'
    <3>1. op'[k].base # c
      BY <1>12, <1>17, IdleFields, BaseIs
    <3> QED BY <1>12, <1>21, <2>4, <2>5, <3>1 DEF Answers, Mine
  <2>7. Holds(k, c, o.at)'
    <3>1. \A e : e.pos \in Nat /\ (e.pos < o.pos \/ e.pos = o.pos) => Within(c, e)'
      <4> SUFFICES ASSUME NEW e, e.pos \in Nat, e.pos < o.pos \/ e.pos = o.pos PROVE Within(c, e)'
        OBVIOUS
      <4>1. PICK p \in Nat : p = e.pos
        OBVIOUS
      <4>2. p < n \/ (p = n /\ whole'[c])
        BY <1>12, <1>16, <1>19, <4>1
      <4> QED BY <1>16, <1>18, <4>1, <4>2 DEF Within
    <3>2. ASSUME NEW j \in DOMAIN s
          PROVE  /\ j < o.at => Within(c, s[j])'
                 /\ j > o.at /\ s[j].key # 0 => o.pos < s[j].pos
      <4>1. PICK e \in SoundEntry : e = s[j]
        BY <1>12, <3>2, SeqIs
      <4>2. e.pos \in Nat
        BY EntryIs
      <4>3. /\ j < o.at => Within(c, e) \/ e.pos < o.pos
            /\ j > o.at /\ e.key # 0 => o.pos < e.pos
        BY <1>6, <1>12, <3>2, <4>1 DEF InLine
      <4>4. Within(c, e) => Within(c, e)'
        BY <1>22 DEF Longer
      <4>5. e.pos < o.pos => Within(c, e)'
        BY <3>1, <4>2
      <4>6. Within(c, e)' => Within(c, s[j])'
        BY <4>1 DEF Within
      <4> HIDE DEF Within
      <4> QED BY <4>1, <4>3, <4>4, <4>5, <4>6
    <3>3. ASSUME NEW u \in {Used(c)'}, NEW p \in {u[o.at].pos}
          PROVE  /\ p \in DOMAIN data'[c] /\ data'[c][p].ver = acked'[k] /\ Within(c, u[o.at])'
                 /\ phase' = "up" /\ c \in Unsorted' => p <= Filled(c)'
                 /\ sorted'[c] = NoFile =>
                      \A j \in DOMAIN u : /\ j < o.at => Within(c, u[j])'
                                          /\ j > o.at /\ u[j].key # 0 => p < u[j].pos
      <4>1. u = s /\ p = o.pos
        BY <1>12, <2>5, <3>3
      <4>2. Within(c, u[o.at])'
        BY <1>12, <3>1, <4>1
      <4>3. \A j \in DOMAIN u : j < o.at => Within(c, u[j])'
        BY <3>2, <4>1 DEF Within
      <4>4. \A j \in DOMAIN u : j > o.at /\ u[j].key # 0 => p < u[j].pos
        BY <3>2, <4>1
      <4> HIDE DEF Within
      <4> QED BY <1>12, <1>16, <1>17, <1>18, <1>21, <4>1, <4>2, <4>3, <4>4
    <3> QED BY <3>3 DEF Holds, Within
  <2>8. Spared(k, c)'
    BY <1>20 DEF Spared
  <2>9. Known(k, c, o.at)'
    <3>1. Loc(c, o.at)' = [base |-> c, at |-> o.at, pos |-> o.pos]
      BY <1>12, <2>5 DEF Loc
    <3> HIDE DEF Loc, Idle
    <3> QED BY <1>17, <2>4, <3>1 DEF Known
  <2>10. ASSUME NEW b \in Bases, NEW j \in Nat, Answers(k, b, j)' PROVE b = c /\ j = o.at
    <3>1. /\ b \in Found' /\ j \in DOMAIN Used(b)' /\ Mine(k, Used(b)'[j])
          /\ b \in Unsorted => j <= Settled(b)
      BY <1>20, <1>21, <2>10 DEF Answers, Unsorted, Mine
    <3>2. Used(b)' = Used(b)
      BY <1>18, <1>20 DEF Used, Created
    <3>3. b \in Found
      <4>1. c \in Found
        BY <1>9, <1>12, <2>3 DEF Frames
      <4> QED BY <1>18, <3>1, <4>1 DEF Found
    <3>4. ~Answers(k, b, j)
      BY <2>2 DEF Absent
    <3> QED BY <1>2, <1>3, <3>1, <3>2, <3>3, <3>4 DEF Answers
  <2>11. Alone(k, c, o.at)'
    <3> HIDE DEF Answers
    <3> QED BY <2>10 DEF Alone
  <2> HIDE DEF Answers, Holds, Spared, Known, Alone, Steady, Merged
  <2>12. Recorded(k, c, o.at)'
    BY <2>6, <2>7, <2>8, <2>9, <2>11 DEF Recorded
  <2> HIDE DEF Recorded
  <2>13. \E b \in Bases : \E i \in Nat : Recorded(k, b, i)'
    BY <1>12, <2>12
  <2> QED BY <1>12, <1>17, <2>1, <2>2, <2>13 DEF Survives
<1> HIDE DEF Survives, Gentle, Merged, Safe, InLine
<1> QED BY <1>20, <1>24, <1>25, <1>26, GentleSafe


-----------------------------------------------------------------------------
(* Steps of the sorter and of a restart, which leave whole bases alone.    *)

(* A base whose files and sizes do not change.                             *)
Same(b) ==
    /\ data'[b] = data[b] /\ whole'[b] = whole[b]
    /\ index'[b] = index[b] /\ sorted'[b] = sorted[b]
    /\ b \in Unsorted' <=> b \in Unsorted
    /\ Settled(b)' = Settled(b) /\ Filled(b)' = Filled(b)

(* Writes in flight stay in line.                                          *)
LEMMA LinedSame ==
  ASSUME NEW b, Same(b), op' = op, \A k \in Keys : mutex' = k <=> mutex = k, Lined(b)
  PROVE Lined(b)'
<1>1. /\ data'[b] = data[b] /\ whole'[b] = whole[b] /\ index'[b] = index[b]
      /\ Settled(b)' = Settled(b) /\ Filled(b)' = Filled(b)
  BY DEF Same
<1>2. \A e : Within(b, e)' <=> Within(b, e)
  BY <1>1 DEF Within
<1> HIDE DEF Settled, Filled, Within
<1>3. Tidy(b)'
  BY <1>1, <1>2 DEF Lined, Tidy
<1>4. ASSUME NEW k \in Keys, op[k].base = b PROVE InLine(k, b, op[k])'
  <2>1. InLine(k, b, op[k])
    BY <1>4 DEF Lined
  <2> QED BY <1>1, <1>2, <2>1 DEF InLine
<1> HIDE DEF InLine, Tidy
<1> QED BY <1>3, <1>4 DEF Lined

(* The places of a base that does not change answer as they did.           *)
LEMMA SameAnswers ==
  ASSUME NEW k, NEW b \in Bases, Same(b), phase = "up", phase' = "up", op'[k] = op[k], NEW i
  PROVE Used(b)' = Used(b) /\ (Answers(k, b, i)' <=> Answers(k, b, i))
<1>1. Used(b)' = Used(b) /\ (b \in Found' <=> b \in Found)
  BY DEF Same, Used, Created, Found
<1>2. (b \in Unsorted' <=> b \in Unsorted) /\ Settled(b)' = Settled(b)
  BY DEF Same
<1> HIDE DEF Settled, Unsorted, Found, Used
<1> QED BY <1>1, <1>2 DEF Answers, Mine

(* A key all of whose places are in bases that do not change.              *)
LEMMA SameSurvives ==
  ASSUME phase = "up", phase' = "up", NEW k, NEW C \in SUBSET Bases, \A b \in C : Same(b),
         \A b \in Bases \ C : \A i \in Nat : ~Answers(k, b, i) /\ ~Answers(k, b, i)',
         op'[k] = op[k], cache'[k] = cache[k], acked'[k] = acked[k],
         Survives(k)
  PROVE Survives(k)'
<1>1. Steady(k)' <=> Steady(k)
  BY DEF Steady
<1>2. \A b \in Bases : \A i \in Nat : Answers(k, b, i)' <=> Answers(k, b, i)
  <2> SUFFICES ASSUME NEW b \in Bases, NEW i \in Nat PROVE Answers(k, b, i)' <=> Answers(k, b, i)
    OBVIOUS
  <2>1. CASE b \in C
    BY <2>1, SameAnswers
  <2>2. CASE b \notin C
    BY <2>2
  <2> QED BY <2>1, <2>2
<1>3. ASSUME NEW b \in Bases, NEW i \in Nat, Recorded(k, b, i) PROVE Recorded(k, b, i)'
  <2>1. Answers(k, b, i) /\ Holds(k, b, i) /\ Known(k, b, i) /\ Alone(k, b, i)
    BY <1>3 DEF Recorded
  <2>2. b \in C /\ Same(b)
    BY <2>1
  <2>3. Used(b)' = Used(b)
    BY <2>2, SameAnswers
  <2>4. Answers(k, b, i)' /\ Alone(k, b, i)'
    <3> HIDE DEF Answers
    <3> QED BY <1>2, <2>1 DEF Alone
  <2>5. Holds(k, b, i)'
    <3>1. \A e : Within(b, e)' <=> Within(b, e)
      BY <2>2 DEF Within, Same
    <3> HIDE DEF Within, Used, Filled, Unsorted
    <3> QED BY <2>1, <2>2, <2>3, <3>1 DEF Holds, Same
  <2>6. Spared(k, b)'
    BY DEF Spared
  <2>7. Known(k, b, i)'
    <3>1. Loc(b, i)' = Loc(b, i)
      BY <2>3 DEF Loc
    <3> HIDE DEF Loc, Unsorted
    <3> QED BY <2>1, <2>2, <3>1 DEF Known, Same
  <2> HIDE DEF Answers, Holds, Spared, Known, Alone
  <2> QED BY <2>4, <2>5, <2>6, <2>7 DEF Recorded
<1>4. Absent(k) => Absent(k)'
  <2> HIDE DEF Answers, Steady
  <2> QED BY <1>1, <1>2 DEF Absent
<1> HIDE DEF Recorded, Absent, Steady
<1> QED BY <1>1, <1>3, <1>4 DEF Survives

(* Without a job of the sorter there is nothing to say about it.           *)
LEMMA NoMerge == job = NoJob => Taking /\ Landing /\ \A k : ~Merged(k) /\ ~Moved(k)
<1> SUFFICES ASSUME job = NoJob PROVE Taking /\ Landing /\ \A k : ~Merged(k) /\ ~Moved(k)
  OBVIOUS
<1>1. job.todo = <<>> /\ job.group = {}
  BY DEF NoJob
<1>2. ~Merges
  BY <1>1 DEF Merges
<1> HIDE DEF Merges
<1> QED BY <1>1, <1>2 DEF Taking, Landing, Merged, Moved


(* eblob_generate_sorted_index: the record has another place, and leaves   *)
(* the hash.                                                               *)
LEMMA IndexSortSafe ==
  ASSUME Inv, Inv', Safe, NEW b \in Bases, IndexSort(b)
  PROVE Safe'
<1>1. /\ Types /\ OpsAre /\ Unsorteds /\ Frames /\ Frames'
  BY NowFrames, NextFrames DEF Inv
<1>2. PICK t : t = SortedByKey(IndexFile(b))
  OBVIOUS
<1>3. /\ SorterFree /\ open # {} /\ b \in Old /\ b \notin sortFd
      /\ sorted' = [sorted EXCEPT ![b] = t] /\ sortFd' = sortFd \cup {b}
      /\ cache' = [k \in Keys |-> IF k \in LiveKeys(IndexFile(b)) THEN NoLoc ELSE cache[k]]
      /\ UNCHANGED <<data, whole, index, chunk, phase, open, dataOffset, indexSize,
                     op, mutex, job, ops, faults, observers>>
  BY <1>2 DEF IndexSort, Flushed
<1>4. /\ phase = "up" /\ mutex = Nobody /\ job = NoJob /\ job.group = {} /\ Visible = open
      /\ b \in open /\ b # LastBase /\ index[b] # <<>> /\ index[b] \in Seq(SoundEntry)
      /\ \A k \in Keys : op[k].base # b /\ (op[k].old # NoLoc => op[k].old.base # b)
  BY <1>3, OldIs
<1>5. PICK s \in Seq(SoundEntry) : s = index[b]
  BY <1>4
<1>6. /\ IndexFile(b) = s /\ data[b] # NoFile /\ sorted[b] = NoFile /\ Used(b) = s
      /\ b \in Unsorted /\ b \in Found /\ t = SortedByKey(s)
  <2>1. Used(b) = index[b] /\ sorted[b] = NoFile /\ b \in Unsorted /\ b \in Found
    BY <1>1, <1>3, <1>4 DEF Frames
  <2>2. IndexFile(b) = s
    BY <1>5, FilesDiffer DEF IndexFile
  <2> QED BY <1>2, <1>5, <2>1, <2>2 DEF Found
<1>7. PICK f \in [DOMAIN s -> DOMAIN s] : Sorts(s, f)
  <2>1. \A e \in SoundEntry : e.key \in Nat /\ e.removed \in BOOLEAN
    BY EntryIs
  <2> QED BY <2>1, SortIs
<1>8. /\ t = [p \in DOMAIN s |-> s[f[p]]]
      /\ \A p, q \in DOMAIN s : p # q => f[p] # f[q]
      /\ \A i \in DOMAIN s : \E p \in DOMAIN s : f[p] = i
  BY <1>6, <1>7 DEF Sorts
<1>9. DOMAIN t = DOMAIN s /\ \A p \in DOMAIN s : t[p] = s[f[p]] /\ f[p] \in DOMAIN s
  BY <1>7, <1>8
<1>10. DOMAIN s = 1 .. Len(s) /\ Len(s) \in Nat /\ Len(s) = indexSize[b] /\ Settled(b) = Len(s)
  <2>1. DOMAIN s = 1 .. Len(s) /\ Len(s) \in Nat
    BY SeqIs
  <2>2. Len(s) = indexSize[b]
    BY <1>1, <1>3, <1>4, <1>5 DEF Unsorteds
  <2>3. Settled(b) = indexSize[b]
    BY <1>1, <1>4, SettledIs, NamesAssumption
  <2> QED BY <2>1, <2>2, <2>3
<1>11. /\ sorted'[b] = t /\ t # NoFile /\ Used(b)' = t /\ b \notin Unsorted' /\ b \in Found'
  <2>1. sorted'[b] = t /\ b \in sortFd' /\ b \in Visible'
    BY <1>1, <1>3, <1>4 DEF Types, Visible
  <2> QED BY <1>1, <1>3, <1>4, <2>1 DEF Frames, Unsorted
<1>12. \A c \in Bases \ {b} : Same(c)
  <2> SUFFICES ASSUME NEW c \in Bases \ {b} PROVE Same(c)
    OBVIOUS
  <2>1. Settled(c)' = Settled(c) /\ Filled(c)' = Filled(c)
    BY <1>3 DEF Settled, Filled, Holding
  <2>2. sorted'[c] = sorted[c] /\ (c \in Unsorted' <=> c \in Unsorted)
    BY <1>1, <1>3 DEF Types, Unsorted
  <2> HIDE DEF Settled, Filled, Unsorted
  <2> QED BY <1>3, <2>1, <2>2 DEF Same
<1>13. /\ phase' = "up" /\ op' = op /\ acked' = acked /\ data' = data /\ whole' = whole
       /\ unsure' = unsure /\ mutex' = mutex /\ job' = NoJob
  BY <1>3, <1>4 DEF observers
<1>14. Flights'
  <2> SUFFICES ASSUME NEW c \in Unsorted' PROVE Lined(c)'
    BY DEF Flights
  <2>1. c # b /\ c \in Bases
    BY <1>1, <1>11, <1>13 DEF Frames
  <2>2. Same(c)
    BY <1>12, <2>1
  <2>3. Lined(c)
    BY <1>4, <2>2 DEF Same, Safe, Flights
  <2> HIDE DEF Lined, Same
  <2> QED BY <1>13, <2>2, <2>3, LinedSame
<1>15. Taking' /\ Landing' /\ (\A k : ~Merged(k)' /\ ~Moved(k)')
  <2>1. (job = NoJob => Taking /\ Landing /\ \A k : ~Merged(k) /\ ~Moved(k))'
    BY NoMerge, PTL
  <2> QED BY <1>13, <2>1
<1>16. \A k \in Keys : \A i : Answers(k, b, i) <=> i \in DOMAIN s /\ Mine(k, s[i])
  <2> SUFFICES ASSUME NEW k \in Keys, NEW i
               PROVE Answers(k, b, i) <=> i \in DOMAIN s /\ Mine(k, s[i])
    OBVIOUS
  <2> HIDE DEF Settled, Found, Unsorted, Mine, Used
  <2> QED BY <1>4, <1>6, <1>10 DEF Answers
<1>17. \A k \in Keys : \A p : Answers(k, b, p)' <=> p \in DOMAIN s /\ Mine(k, s[f[p]])
  <2> SUFFICES ASSUME NEW k \in Keys, NEW p
               PROVE Answers(k, b, p)' <=> p \in DOMAIN s /\ Mine(k, s[f[p]])
    OBVIOUS
  <2>1. Answers(k, b, p)' <=> p \in DOMAIN t /\ Mine(k, t[p])
    <3> HIDE DEF Settled, Found, Unsorted, Used
    <3> QED BY <1>4, <1>11, <1>13 DEF Answers, Mine
  <2> QED BY <1>9, <2>1
<1>18. ASSUME NEW k \in Keys \ unsure PROVE Survives(k)'
  <2>1. Survives(k)
    BY <1>4, NoMerge DEF Safe
  <2>2. CASE k \notin LiveKeys(s)
    <3>1. cache'[k] = cache[k]
      BY <1>3, <1>6, <2>2
    <3>2. \A i \in DOMAIN s : ~Mine(k, s[i])
      BY <2>2 DEF LiveKeys, Live, Mine
    <3>3. \A c \in Bases \ (Bases \ {b}) : \A i \in Nat : ~Answers(k, c, i) /\ ~Answers(k, c, i)'
      BY <1>9, <1>16, <1>17, <3>2
    <3>4. PICK C \in SUBSET Bases : C = Bases \ {b}
      OBVIOUS
    <3> HIDE DEF Survives, Answers, Same
    <3> QED BY <1>4, <1>12, <1>13, <2>1, <3>1, <3>3, <3>4, SameSurvives
  <2>3. CASE k \in LiveKeys(s)
    <3>1. PICK i \in DOMAIN s : Mine(k, s[i])
      BY <2>3 DEF LiveKeys, Live, Mine
    <3>2. i \in Nat /\ Answers(k, b, i) /\ s[i].key = k
      BY <1>10, <1>16, <3>1 DEF Mine
    <3>3. PICK c \in Bases, m \in Nat : Recorded(k, c, m)
      BY <2>1, <3>2 DEF Survives, Absent
    <3>4. Answers(k, c, m) /\ Holds(k, c, m) /\ Known(k, c, m) /\ Alone(k, c, m)
      BY <3>3 DEF Recorded
    <3>5. c = b /\ m = i
      BY <3>2, <3>4 DEF Alone
    <3>6. op[k] = Idle
      <4>1. op[k] # Idle => op[k].old = Loc(b, i)
        <5> HIDE DEF Loc, Idle
        <5> QED BY <1>4, <3>4, <3>5 DEF Known
      <4>2. Loc(b, i) # NoLoc /\ Loc(b, i).base = b
        BY <3>2, LocOf
      <4> QED BY <1>4, <4>1, <4>2
    <3>7. PICK p \in DOMAIN s : f[p] = i
      BY <1>8, <3>1
    <3>8. p \in Nat /\ t[p] = s[i] /\ Answers(k, b, p)'
      BY <1>9, <1>10, <1>17, <3>1, <3>7
    <3>9. cache'[k] = NoLoc
      BY <1>3, <1>6, <2>3
    <3>10. Holds(k, b, p)'
      <4>1. s[i].pos \in DOMAIN data[b] /\ data[b][s[i].pos].ver = acked[k] /\ Within(b, s[i])
        BY <1>6, <3>4, <3>5 DEF Holds
      <4>2. Within(b, s[i])'
        BY <1>13, <4>1 DEF Within
      <4> HIDE DEF Within, Unsorted, Used, Filled
      <4> QED BY <1>11, <1>13, <3>8, <4>1, <4>2 DEF Holds
    <3>11. Spared(k, b)'
      BY <1>13 DEF Spared
    <3>12. Known(k, b, p)'
      <4> HIDE DEF Loc, Idle, Unsorted
      <4> QED BY <1>11, <1>13, <3>6, <3>9 DEF Known
    <3>13. Alone(k, b, p)'
      <4> SUFFICES ASSUME NEW x \in Bases, NEW j \in Nat, Answers(k, x, j)' PROVE x = b /\ j = p
        BY DEF Alone
      <4>1. CASE x # b
        <5>1. Answers(k, x, j)
          BY <1>4, <1>12, <1>13, <4>1, SameAnswers
        <5> QED BY <3>4, <3>5, <4>1, <5>1 DEF Alone
      <4>2. CASE x = b
        <5>1. j \in DOMAIN s /\ Mine(k, s[f[j]])
          BY <1>17, <4>2
        <5>2. f[j] \in Nat /\ Answers(k, b, f[j])
          <6>1. PICK n \in DOMAIN s : n = f[j]
            BY <1>9, <5>1
          <6>2. n \in Nat /\ Mine(k, s[n])
            BY <1>10, <5>1, <6>1
          <6> QED BY <1>16, <6>1, <6>2
        <5>3. f[j] = i
          BY <3>4, <3>5, <5>2 DEF Alone
        <5> QED BY <1>8, <3>7, <4>2, <5>1, <5>3
      <4> QED BY <4>1, <4>2
    <3>14. Recorded(k, b, p)'
      <4> HIDE DEF Answers, Holds, Spared, Known, Alone
      <4> QED BY <3>8, <3>10, <3>11, <3>12, <3>13 DEF Recorded
    <3>15. acked'[k] # 0 /\ Steady(k)'
      <4>1. acked[k] # 0
        BY <2>1, <3>2 DEF Survives, Absent
      <4> QED BY <1>13, <3>6, <4>1, IdleFields DEF Steady
    <3> HIDE DEF Recorded, Steady
    <3> QED BY <3>8, <3>14, <3>15 DEF Survives
  <2> QED BY <2>2, <2>3
<1> HIDE DEF Flights, Taking, Landing, Merged, Moved, Survives
<1> QED BY <1>13, <1>14, <1>15, <1>18 DEF Safe


(* The places of a base the sorter may take.                               *)
LEMMA OldAnswers ==
  ASSUME Inv, SorterFree, open # {}, NEW b \in Old
  PROVE /\ Used(b) = IndexFd(b) /\ b \in Found
        /\ \A k \in Keys : \A i : Answers(k, b, i) <=> i \in DOMAIN IndexFd(b) /\ Mine(k, IndexFd(b)[i])
<1>1. Types /\ OpsAre /\ Unsorteds /\ Frames
  BY NowFrames DEF Inv
<1>2. /\ phase = "up" /\ mutex = Nobody /\ job.group = {} /\ Visible = open
      /\ b \in open /\ b \in Bases /\ b # LastBase
      /\ IndexFd(b) \in Seq(SoundEntry)
      /\ b \in sortFd => IndexFd(b) = sorted[b]
      /\ b \notin sortFd => IndexFd(b) = index[b]
      /\ \A k \in Keys : op[k].base # b
  BY OldIs
<1>3. Used(b) = IndexFd(b) /\ b \in Found /\ (b \in Unsorted <=> b \notin sortFd)
  BY <1>1, <1>2 DEF Frames
<1>4. PICK s \in Seq(SoundEntry) : s = IndexFd(b)
  BY <1>2
<1>5. DOMAIN s = 1 .. Len(s) /\ Len(s) \in Nat
  BY SeqIs
<1>6. b \in Unsorted => Settled(b) = Len(s)
  <2>1. Settled(b) = indexSize[b]
    BY <1>1, <1>2, SettledIs, NamesAssumption
  <2>2. b \in Unsorted => Len(index[b]) = indexSize[b] /\ IndexFd(b) = index[b]
    BY <1>1, <1>2, <1>3 DEF Unsorteds
  <2> QED BY <1>4, <2>1, <2>2
<1>7. ASSUME NEW k \in Keys, NEW i
      PROVE Answers(k, b, i) <=> i \in DOMAIN s /\ Mine(k, s[i])
  <2> HIDE DEF Settled, Found, Unsorted, Mine, Used
  <2> QED BY <1>2, <1>3, <1>4, <1>5, <1>6 DEF Answers
<1> QED BY <1>3, <1>4, <1>7

(* The sorter takes a group of bases: their places stay, and so does the   *)
(* rest.                                                                   *)
LEMMA TakesIs ==
  ASSUME Inv, Inv', Safe, NEW g \in SUBSET Bases, Takes(g)
  PROVE /\ Flights' /\ (\A b \in Bases \ g : Same(b)) /\ (\A b \in Bases : Used(b)' = Used(b))
        /\ \A b \in g : /\ b \notin Unsorted' /\ Used(b) = IndexFd(b) /\ b \in Found'
                        /\ \A k \in Keys : \A i :
                              Answers(k, b, i) <=> i \in DOMAIN IndexFd(b) /\ Mine(k, IndexFd(b)[i])
        /\ \A k \in Keys : \A b \in Bases : \A i : Answers(k, b, i)' <=> Answers(k, b, i)
<1>1. /\ SorterFree /\ open # {} /\ g \subseteq Old
      /\ open \ g \subseteq open' /\ open' \subseteq open /\ sortFd' \ g = sortFd \ g
      /\ job'.group = g /\ mutex' = Sorter /\ phase' = phase /\ op' = op
      /\ data' = data /\ whole' = whole /\ index' = index /\ sorted' = sorted
      /\ \A b \in Bases : b \notin g => indexSize'[b] = indexSize[b] /\ dataOffset'[b] = dataOffset[b]
  BY DEF Takes
<1>2. Types /\ OpsAre /\ Types' /\ OpsAre' /\ Frames /\ Frames'
  BY NowFrames, NextFrames DEF Inv
<1>3. phase = "up" /\ phase' = "up" /\ mutex = Nobody /\ \A k \in Keys : mutex # k /\ mutex' # k
  BY <1>1, NamesAssumption DEF SorterFree
<1>4. ASSUME NEW b \in Bases \ g PROVE Same(b)
  <2>1. Settled(b) = indexSize[b] /\ Filled(b) = dataOffset[b]
    BY <1>3 DEF Settled, Filled, Holding
  <2>2. Settled(b)' = indexSize'[b] /\ Filled(b)' = dataOffset'[b]
    BY <1>3 DEF Settled, Filled, Holding
  <2>3. b \in Unsorted' <=> b \in Unsorted
    BY <1>1 DEF Unsorted
  <2> HIDE DEF Settled, Filled, Unsorted
  <2> QED BY <1>1, <2>1, <2>2, <2>3 DEF Same
<1>5. \A b \in Bases : Used(b)' = Used(b)
  BY <1>1 DEF Used, Created
<1>6. ASSUME NEW b \in g
      PROVE  /\ b \notin Unsorted' /\ Used(b) = IndexFd(b) /\ b \in Found /\ b \in Found'
             /\ b \in Old /\ \A k \in Keys : op[k].base # b
  <2>1. b \notin Unsorted'
    BY <1>1, <1>2, <1>3 DEF Frames
  <2>2. b \in Old
    BY <1>1
  <2>3. Used(b) = IndexFd(b) /\ b \in Found
    BY <1>1, <2>2, OldAnswers
  <2>4. b \in Found'
    BY <1>1, <2>3 DEF Found
  <2> QED BY <1>1, <2>1, <2>2, <2>3, <2>4, OldIs
<1>7. \A b \in g : \A k \in Keys : \A i :
         Answers(k, b, i) <=> i \in DOMAIN IndexFd(b) /\ Mine(k, IndexFd(b)[i])
  BY <1>1, <1>6, OldAnswers
<1>8. ASSUME NEW k \in Keys, NEW b \in Bases, NEW i PROVE Answers(k, b, i)' <=> Answers(k, b, i)
  <2>1. CASE b \in g
    <3>1. Answers(k, b, i)' <=> i \in DOMAIN IndexFd(b) /\ Mine(k, IndexFd(b)[i])
      <4>1. Used(b)' = IndexFd(b) /\ b \notin Unsorted' /\ b \in Found' /\ op'[k].base # b
        BY <1>1, <1>5, <1>6, <2>1
      <4>2. PICK s : s = IndexFd(b)
        OBVIOUS
      <4> HIDE DEF Settled, Found, Unsorted, Used
      <4> QED BY <4>1, <4>2 DEF Answers, Mine
    <3> QED BY <1>7, <2>1, <3>1
  <2>2. CASE b \notin g
    BY <1>1, <1>3, <1>4, <2>2, SameAnswers
  <2> QED BY <2>1, <2>2
<1>9. Flights'
  <2> SUFFICES ASSUME NEW c \in Unsorted' PROVE Lined(c)'
    BY DEF Flights
  <2>1. c \notin g /\ c \in Bases
    BY <1>2, <1>3, <1>6 DEF Frames
  <2>2. Same(c)
    BY <1>4, <2>1
  <2>3. Lined(c)
    BY <1>3, <2>2 DEF Same, Safe, Flights
  <2> HIDE DEF Lined, Same
  <2> QED BY <1>1, <1>3, <2>2, <2>3, LinedSame
<1> HIDE DEF Flights, Same, Answers, Mine, Unsorted
<1> QED BY <1>4, <1>5, <1>6, <1>7, <1>8, <1>9

(* A base without live entries is taken to be removed.                     *)
LEMMA RemoveBaseSafe ==
  ASSUME Inv, Inv', Safe, NEW b \in Bases, RemoveBase(b)
  PROVE Safe'
<1>1. /\ SorterFree /\ open # {} /\ b \in Old /\ AllRemoved(b)
      /\ open' = open \ {b} /\ sortFd' = sortFd \ {b}
      /\ job' = [group |-> {b}, left |-> {}, todo |-> UnlinkCalls(b)] /\ mutex' = Sorter
      /\ UNCHANGED <<files, phase, cache, dataOffset, indexSize, op, ops, faults, observers>>
  BY DEF RemoveBase, Removable
<1>2. phase = "up" /\ job = NoJob /\ chunk = NoFile
  BY <1>1, OldIs DEF Inv, JobIs, SorterFree
<1>3. PICK g \in SUBSET Bases : g = {b}
  OBVIOUS
<1>4. Takes(g)
  BY <1>1, <1>3 DEF Takes, files
<1>5. /\ Flights' /\ (\A c \in Bases \ g : Same(c)) /\ Used(b)' = IndexFd(b)
      /\ \A k \in Keys : \A i :
            Answers(k, b, i) <=> i \in DOMAIN IndexFd(b) /\ Mine(k, IndexFd(b)[i])
      /\ \A k \in Keys : \A i : Answers(k, b, i)' <=> Answers(k, b, i)
  BY <1>3, <1>4, TakesIs
<1>6. /\ phase' = "up" /\ op' = op /\ cache' = cache /\ acked' = acked /\ unsure' = unsure
      /\ chunk' = NoFile /\ job'.group = {b}
  BY <1>1, <1>2 DEF files, observers
<1>7. \A k \in Keys : \A i \in DOMAIN IndexFd(b) : ~Mine(k, IndexFd(b)[i])
  BY <1>1 DEF AllRemoved, Mine
<1>8. ~Merges' /\ (\A k : ~Merged(k)') /\ (\A k : ~Moved(k)') /\ Landing'
  <2>1. ~Merges'
    BY <1>6 DEF Merges
  <2> HIDE DEF Merges
  <2> QED BY <2>1 DEF Merged, Moved, Landing
<1>9. Taking'
  <2>1. ASSUME NEW k \in Keys, NEW i \in DOMAIN Used(b)', Mine(k, Used(b)'[i]) PROVE FALSE
    BY <1>5, <1>7, <2>1
  <2>2. \A c \in job'.group : c = b
    BY <1>6
  <2> QED BY <2>1, <2>2 DEF Taking, Mine
<1>10. ASSUME NEW k \in Keys \ unsure PROVE Survives(k)'
  <2>1. Survives(k)
    BY <1>2, NoMerge DEF Safe
  <2>2. PICK C \in SUBSET Bases : C = Bases \ g
    OBVIOUS
  <2>3. \A c \in Bases \ C : \A i \in Nat : ~Answers(k, c, i) /\ ~Answers(k, c, i)'
    BY <1>3, <1>5, <1>7, <2>2
  <2> HIDE DEF Survives, Answers, Same
  <2> QED BY <1>2, <1>5, <1>6, <2>1, <2>2, <2>3, SameSurvives
<1> HIDE DEF Flights, Taking, Landing, Merged, Moved, Survives
<1> QED BY <1>5, <1>6, <1>8, <1>9, <1>10 DEF Safe


(* Each entry of the result is of one copied record, with its version.     *)
Copies(ch, g, f) ==
    /\ f \in [DOMAIN ch.entries -> Copied(g)]
    /\ \A i, j \in DOMAIN ch.entries : i # j => f[i] # f[j]
    /\ \A i \in DOMAIN ch.entries :
          /\ ch.entries[i].key = KeyAt(f[i]) /\ ~ch.entries[i].removed /\ ch.entries[i].pos = i
          /\ i \in DOMAIN ch.cells
          /\ ch.cells[i].ver = data[f[i][1]][IndexFd(f[i][1])[f[i][2]].pos].ver

(* The result of datasort_split and the merge.                             *)
LEMMA ChunkCopies ==
  ASSUME Inv, SorterFree, open # {}, NEW g \in SUBSET Bases, g \subseteq Old, Copyable(g),
         NEW ch, ch = Chunk(g)
  PROVE \E f : Copies(ch, g, f)
<1> DEFINE order == InOrder(Copied(g), CopyOrder(g))
           n == Cardinality(Copied(g))
           From(i) == IndexFd(order[i][1])[order[i][2]]
           cell(i) == [key |-> From(i).key, ver |-> data[order[i][1]][From(i).pos].ver,
                       removed |-> FALSE]
           entry(i) == [key |-> From(i).key, pos |-> i, removed |-> FALSE]
<1>1. IsFiniteSet(Copied(g)) /\ StrictOrder(Copied(g), CopyOrder(g))
  BY CopiedIs, CopyOrderIs
<1>2. /\ order \in [1 .. n -> Copied(g)]
      /\ \A i, j \in 1 .. n : i # j => order[i] # order[j]
  BY <1>1, InOrderIs
<1>3. /\ ch = [cells |-> [i \in DOMAIN order |-> cell(i)],
               entries |-> [i \in DOMAIN order |-> entry(i)]]
  BY DEF Chunk
<1>4. DOMAIN order = 1 .. n
  BY <1>2
<1> HIDE DEF order, n
<1>5. PICK s : s = [i \in 1 .. n |-> cell(i)]
  OBVIOUS
<1>6. PICK t : t = [i \in 1 .. n |-> entry(i)]
  OBVIOUS
<1>7. ch = [cells |-> s, entries |-> t]
  BY <1>3, <1>4, <1>5, <1>6
<1>8. ch.cells = s /\ ch.entries = t
  BY <1>7
<1>9. DOMAIN s = 1 .. n /\ DOMAIN t = 1 .. n
  <2> HIDE DEF cell, entry
  <2> QED BY <1>5, <1>6
<1>10. ASSUME NEW i \in 1 .. n
       PROVE  /\ t[i].key = KeyAt(order[i]) /\ ~t[i].removed /\ t[i].pos = i
              /\ s[i].ver = data[order[i][1]][IndexFd(order[i][1])[order[i][2]].pos].ver
  <2>1. t[i] = entry(i) /\ s[i] = cell(i)
    <3> HIDE DEF cell, entry
    <3> QED BY <1>5, <1>6
  <2>2. PICK e : e = From(i)
    OBVIOUS
  <2>3. t[i] = [key |-> e.key, pos |-> i, removed |-> FALSE]
    BY <2>1, <2>2
  <2>4. s[i].ver = data[order[i][1]][e.pos].ver
    BY <2>1, <2>2
  <2>5. KeyAt(order[i]) = e.key
    BY <2>2 DEF KeyAt
  <2>6. t[i].key = e.key /\ ~t[i].removed /\ t[i].pos = i
    BY <2>3
  <2> QED BY <2>2, <2>4, <2>5, <2>6
<1>11. Copies(ch, g, order)
  <2> HIDE DEF From, cell, entry
  <2> QED BY <1>2, <1>8, <1>9, <1>10 DEF Copies
<1> QED BY <1>11

(* A key with a live entry in the result has its record there.             *)
LEMMA TakenRecord ==
  ASSUME Inv, Inv', Safe, NEW g \in SUBSET Bases, Takes(g), Copyable(g), chunk' = Chunk(g),
         acked' = acked, NEW k \in Keys \ unsure, cache'[k] = NoLoc,
         Live(chunk'.entries, k) # {}
  PROVE Survives(k)' /\ Carried(k)'
<1>1. /\ SorterFree /\ open # {} /\ g \subseteq Old /\ phase' = phase /\ op' = op /\ job'.group = g
      /\ data' = data /\ whole' = whole /\ index' = index /\ sorted' = sorted
  BY DEF Takes
<1>2. phase = "up" /\ phase' = "up" /\ job = NoJob
  BY <1>1, OldIs, NoSorter, NamesAssumption DEF SorterFree
<1>3. PICK ch : ch = chunk'
  OBVIOUS
<1>4. PICK f : Copies(ch, g, f)
  BY <1>1, <1>3, ChunkCopies
<1>5. Survives(k)
  BY <1>2, NoMerge DEF Safe
<1>6. ASSUME NEW i \in Live(ch.entries, k), NEW b, b = f[i][1], NEW m, m = f[i][2]
      PROVE  /\ b \in g /\ b \in Bases /\ m \in Nat /\ Answers(k, b, m) /\ f[i] = <<b, m>>
             /\ ch.cells[i].ver = data[b][Used(b)[m].pos].ver
             /\ b \notin Unsorted' /\ Used(b)' = Used(b)
  <2>1. i \in DOMAIN ch.entries /\ ch.entries[i].key = k
    BY <1>6 DEF Live
  <2>2. /\ f[i] \in Copied(g) /\ KeyAt(f[i]) = k
        /\ ch.cells[i].ver = data[b][IndexFd(b)[m].pos].ver
    BY <1>4, <1>6, <2>1 DEF Copies
  <2>3. /\ b \in g /\ m \in DOMAIN IndexFd(b) /\ ~IndexFd(b)[m].removed /\ f[i] = <<b, m>>
        /\ m \in Nat
    BY <1>1, <1>6, <2>2, CopiedIs
  <2>4. Mine(k, IndexFd(b)[m])
    BY <1>6, <2>2, <2>3 DEF KeyAt, Mine
  <2>5. /\ b \notin Unsorted' /\ Used(b) = IndexFd(b) /\ Used(b)' = Used(b)
        /\ Answers(k, b, m) <=> m \in DOMAIN IndexFd(b) /\ Mine(k, IndexFd(b)[m])
    BY <2>3, TakesIs
  <2> HIDE DEF Answers, Mine, Unsorted
  <2> QED BY <2>2, <2>3, <2>4, <2>5
<1>7. PICK i \in Live(ch.entries, k) : TRUE
  BY <1>3
<1>8. PICK b : b = f[i][1]
  OBVIOUS
<1>9. PICK m : m = f[i][2]
  OBVIOUS
<1>10. /\ b \in g /\ b \in Bases /\ m \in Nat /\ Answers(k, b, m) /\ f[i] = <<b, m>>
       /\ ch.cells[i].ver = data[b][Used(b)[m].pos].ver
       /\ b \notin Unsorted' /\ Used(b)' = Used(b)
  BY <1>6, <1>7, <1>8, <1>9
<1>11. acked[k] # 0 /\ \E c \in Bases : \E j \in Nat : Recorded(k, c, j)
  BY <1>5, <1>10 DEF Survives, Absent
<1>12. Holds(k, b, m) /\ Known(k, b, m) /\ Alone(k, b, m)
  <2>1. PICK c \in Bases, j \in Nat : Recorded(k, c, j)
    BY <1>11
  <2>2. c = b /\ j = m
    BY <1>10, <2>1 DEF Recorded, Alone
  <2> QED BY <2>1, <2>2 DEF Recorded
<1>13. op[k] = Idle
  <2>1. op[k] # Idle => op[k].old = Loc(b, m)
    <3> HIDE DEF Loc, Idle
    <3> QED BY <1>2, <1>12 DEF Known
  <2>2. Loc(b, m) # NoLoc /\ Loc(b, m).base = b
    BY <1>10, LocOf
  <2>3. op[k].old # NoLoc => op[k].old.base # b
    BY <1>1, <1>10, OldIs
  <2> QED BY <2>1, <2>2, <2>3
<1>14. \A c \in Bases : \A j \in Nat : Answers(k, c, j)' <=> Answers(k, c, j)
  BY TakesIs
<1>15. Alone(k, b, m)' /\ Answers(k, b, m)'
  <2> HIDE DEF Answers
  <2> QED BY <1>10, <1>12, <1>14 DEF Alone
<1>16. Recorded(k, b, m)'
  <2>1. Holds(k, b, m)'
    <3>1. \A e : Within(b, e)' <=> Within(b, e)
      BY <1>1 DEF Within
    <3> HIDE DEF Within, Used, Filled, Unsorted
    <3> QED BY <1>1, <1>10, <1>12, <3>1 DEF Holds
  <2>2. Spared(k, b)'
    BY <1>2 DEF Spared
  <2>3. Known(k, b, m)'
    <3> HIDE DEF Loc, Idle, Unsorted
    <3> QED BY <1>1, <1>10, <1>13 DEF Known
  <2> HIDE DEF Answers, Holds, Spared, Known, Alone
  <2> QED BY <1>15, <2>1, <2>2, <2>3 DEF Recorded
<1>17. Survives(k)'
  <2>1. Steady(k)'
    BY <1>1, <1>13, IdleFields DEF Steady
  <2> HIDE DEF Recorded, Steady
  <2> QED BY <1>10, <1>11, <1>16, <2>1 DEF Survives
<1>18. Carries(k)'
  <2>1. /\ i \in DOMAIN ch.entries /\ ch.entries[i].pos = i /\ i \in DOMAIN ch.cells
    BY <1>4, <1>7 DEF Copies, Live
  <2>2. ch.cells[i].ver = acked[k]
    BY <1>10, <1>12 DEF Holds
  <2>3. ASSUME NEW j \in Live(ch.entries, k) PROVE j = i
    <3>1. PICK c : c = f[j][1]
      OBVIOUS
    <3>2. PICK p : p = f[j][2]
      OBVIOUS
    <3>3. c \in Bases /\ p \in Nat /\ Answers(k, c, p) /\ f[j] = <<c, p>>
      BY <1>6, <2>3, <3>1, <3>2
    <3>4. c = b /\ p = m
      BY <1>12, <3>3 DEF Alone
    <3>5. f[j] = f[i] /\ j \in DOMAIN ch.entries
      BY <1>10, <2>3, <3>3, <3>4 DEF Live
    <3> QED BY <1>4, <2>1, <3>5 DEF Copies
  <2>4. \E x \in DOMAIN ch.entries :
          /\ \A j \in Live(ch.entries, k) : j = x
          /\ ch.entries[x].pos \in DOMAIN ch.cells
          /\ ch.cells[ch.entries[x].pos].ver = acked[k]
    BY <2>1, <2>2, <2>3
  <2> QED BY <1>3, <2>4 DEF Carries, Live
<1>19. Carried(k)'
  <2>1. \A c \in Bases : \A j \in Nat : Answers(k, c, j)' => c \in job'.group
    BY <1>1, <1>10, <1>15 DEF Alone
  <2> HIDE DEF Answers, Carries
  <2> QED BY <1>1, <1>11, <1>13, <1>18, <2>1 DEF Carried
<1> QED BY <1>17, <1>19

(* datasort_swap_memory.                                                   *)
LEMMA SwapBeginSafe ==
  ASSUME Inv, Inv', Safe, NEW g \in SUBSET Bases, SwapBegin(g)
  PROVE Safe'
<1>1. PICK first : first = Min(g)
  OBVIOUS
<1>2. /\ SorterFree /\ open # {} /\ g \subseteq Old /\ g # {} /\ Copyable(g) /\ chunk' = Chunk(g)
      /\ open' = open \ (g \ {first}) /\ sortFd' = (sortFd \ g) \cup {first}
      /\ cache' = [k \in Keys |-> IF k \in LiveKeys(chunk'.entries) THEN NoLoc ELSE cache[k]]
      /\ indexSize' = [indexSize EXCEPT ![first] = Cardinality(Copied(g))]
      /\ dataOffset' = [dataOffset EXCEPT ![first] = Cardinality(Copied(g))]
      /\ job' = [group |-> g, left |-> g \ {first}, todo |-> UnlinkCalls(first)]
      /\ mutex' = Sorter
      /\ UNCHANGED <<data, whole, index, sorted, phase, op, ops, faults, observers>>
  BY <1>1 DEF SwapBegin, Flushed
<1>3. first \in g /\ first \in Bases
  BY <1>1, <1>2, FirstIs
<1>4. phase = "up" /\ job = NoJob
  BY <1>2, <1>3, OldIs
<1>5. Takes(g)
  <2>1. \A b \in Bases : b \notin g => indexSize'[b] = indexSize[b] /\ dataOffset'[b] = dataOffset[b]
    BY <1>2, <1>3 DEF Inv, Types
  <2>2. job'.group = g /\ open \ g \subseteq open' /\ open' \subseteq open /\ sortFd' \ g = sortFd \ g
    BY <1>2, <1>3
  <2> QED BY <1>2, <2>1, <2>2 DEF Takes
<1>6. /\ phase' = "up" /\ op' = op /\ acked' = acked /\ unsure' = unsure /\ job'.group = g
      /\ job'.todo = UnlinkCalls(first)
  BY <1>2, <1>4 DEF observers
<1>7. chunk' # NoFile /\ \A c \in Copied(g) : KeyAt(c) \in LiveKeys(chunk'.entries)
  BY <1>2, ChunkIs, FilesDiffer
<1>8. Merges' /\ job'.todo[1] = <<"unlink data", first>> /\ first = Min(job'.group)
  <2>1. UnlinkCalls(first) # <<>> /\ UnlinkCalls(first)[1] = <<"unlink data", first>>
    BY Tails DEF UnlinkCalls
  <2> QED BY <1>1, <1>6, <1>7, <2>1 DEF Merges
<1>9. \A k : ~Moved(k)'
  BY <1>8 DEF Moved
<1>10. \A k \in Keys : Merged(k)' <=> k \in LiveKeys(chunk'.entries)
  <2> HIDE DEF Merges
  <2> QED BY <1>8 DEF Merged, LiveKeys, Live
<1>11. Landing'
  <2>1. ASSUME NEW b \in Bases
        PROVE job'.todo[1] # <<"rename index", b>> /\ job'.todo[1] # <<"link", b>>
    <3>1. <<"unlink data", first>>[1] = "unlink data" /\ <<"rename index", b>>[1] = "rename index"
          /\ <<"link", b>>[1] = "link"
      OBVIOUS
    <3> QED BY <1>8, <3>1
  <2> QED BY <2>1 DEF Landing
<1>12. /\ Flights' /\ (\A c \in Bases \ g : Same(c)) /\ (\A c \in Bases : Used(c)' = Used(c))
       /\ \A b \in g : /\ Used(b) = IndexFd(b)
                       /\ \A k \in Keys : \A i :
                             Answers(k, b, i) <=> i \in DOMAIN IndexFd(b) /\ Mine(k, IndexFd(b)[i])
       /\ \A k \in Keys : \A b \in Bases : \A i : Answers(k, b, i)' <=> Answers(k, b, i)
  BY <1>5, TakesIs
<1>13. ASSUME NEW b \in g, NEW i \in DOMAIN IndexFd(b), NEW k \in Keys, Mine(k, IndexFd(b)[i])
       PROVE  k \in LiveKeys(chunk'.entries)
  <2>1. PICK c : c = <<b, i>>
    OBVIOUS
  <2>2. c \in Copied(g)
    BY <1>2, <1>13, <2>1, CopiedIs DEF Mine
  <2>3. KeyAt(c) = k
    BY <1>13, <2>1 DEF KeyAt, Mine
  <2> QED BY <1>7, <2>2, <2>3
<1>14. Taking'
  <2> SUFFICES ASSUME NEW c \in g, NEW i \in DOMAIN Used(c)', NEW k \in Keys, Mine(k, Used(c)'[i])
               PROVE Merged(k)'
    BY <1>6 DEF Taking, Mine
  <2>1. Used(c)' = IndexFd(c)
    BY <1>12
  <2> HIDE DEF Merged, Mine
  <2> QED BY <1>10, <1>13, <2>1
<1>15. ASSUME NEW k \in Keys \ unsure PROVE Survives(k)' /\ (Merged(k)' => Carried(k)')
  <2>1. CASE k \in LiveKeys(chunk'.entries)
    <3>1. cache'[k] = NoLoc /\ Live(chunk'.entries, k) # {}
      BY <1>2, <2>1 DEF LiveKeys
    <3> QED BY <1>2, <1>5, <1>6, <3>1, TakenRecord
  <2>2. CASE k \notin LiveKeys(chunk'.entries)
    <3>1. cache'[k] = cache[k] /\ ~Merged(k)'
      BY <1>2, <1>10, <2>2
    <3>2. Survives(k)
      BY <1>4, NoMerge DEF Safe
    <3>3. PICK C \in SUBSET Bases : C = Bases \ g
      OBVIOUS
    <3>4. \A c \in Bases \ C : \A i \in Nat : ~Answers(k, c, i) /\ ~Answers(k, c, i)'
      <4> HIDE DEF Answers, Mine
      <4> QED BY <1>12, <1>13, <2>2, <3>3
    <3>5. Survives(k)'
      <4> HIDE DEF Survives, Answers, Same
      <4> QED BY <1>4, <1>6, <1>12, <3>1, <3>2, <3>3, <3>4, SameSurvives
    <3> QED BY <3>1, <3>5
  <2> QED BY <2>1, <2>2
<1> HIDE DEF Flights, Taking, Landing, Merged, Moved, Survives, Carried
<1> QED BY <1>6, <1>9, <1>11, <1>12, <1>14, <1>15 DEF Safe


(* Where a system call of a data sort leaves the sorter.                   *)
Onward(u, c) ==
    /\ u # "link" =>
          /\ job'.todo # <<>> /\ job'.group = job.group
          /\ job'.todo[1] # <<"unlink data", Min(job.group)>>
          /\ \A b : job'.todo[1] = <<"rename index", b>> => u = "rename data" /\ b = c
          /\ \A b : job'.todo[1] = <<"link", b>> => u = "rename index" /\ b = c
    /\ u = "link" =>
          /\ job' = NoJob /\ c \in sortFd
          /\ \A d \in job.group : d # c => data[d] = NoFile

(* The order of the system calls: while bases are unlinked.                *)
LEMMA DroppingOnward ==
  ASSUME Inv, DiskStep, NEW first, first = Min(job.group), Merging(first),
         NEW c \in job.group \ job.left, Dropping(c)
  PROVE \E u : Calling(u, c) /\ Onward(u, c)
<1>1. Types /\ JobIs /\ job.todo # <<>>
  BY DEF Inv, DiskStep
<1>2. job.group \in SUBSET Bases /\ job.left \in SUBSET Bases /\ c \in Bases /\ job.group # {}
  BY <1>1 DEF JobIs, Types
<1>3. PICK u : u = job.todo[1][1]
  OBVIOUS
<1>4. PICK R : R = Rests(UnlinkCalls(c))
  OBVIOUS
<1>5. PICK t : t = job.todo
  OBVIOUS
<1>6. Follows(t, R, c, "unlink data", "unlink index", "unlink sorted") /\ u = t[1][1]
  BY <1>2, <1>3, <1>4, <1>5, RestIs DEF Dropping
<1>7. /\ u \in {"unlink data", "unlink index", "unlink sorted"} /\ t[1][2] = c
      /\ u # "unlink sorted" => Len(t) > 1 /\ Tail(t) \in R
      /\ u = "unlink data" => Tail(t)[1][1] = "unlink index"
      /\ u = "unlink index" => Tail(t)[1][1] = "unlink sorted"
      /\ u = "unlink sorted" => ~(Len(t) > 1)
  <2>1. "unlink data" # "unlink index" /\ "unlink data" # "unlink sorted"
        /\ "unlink index" # "unlink sorted"
    OBVIOUS
  <2>2. At(u, t, R, c, "unlink data", "unlink index", "unlink sorted")
    BY <1>6, <2>1, Place3
  <2> QED BY <2>2 DEF At
<1>8. Calling(u, c) /\ job' = NextJob /\ chunk # NoFile /\ first \notin job.left /\ first \in Bases
  BY <1>2, <1>3, DroppingCalls, FirstIs DEF DiskStep, Merging
<1>9. \A x, b : <<x, b>>[1] = x /\ <<x, b>>[2] = b
  OBVIOUS
<1>10. ASSUME NEW call, job'.todo[1] = call, call[1] \notin {"rename index", "link"},
              call # <<"unlink data", first>>, job'.todo # <<>>, job'.group = job.group
       PROVE  Onward(u, c)
  <2>1. u # "link"
    BY <1>7
  <2>2. ASSUME NEW b PROVE call # <<"rename index", b>> /\ call # <<"link", b>>
    <3>1. <<"rename index", b>>[1] = "rename index" /\ <<"link", b>>[1] = "link"
      BY <1>9
    <3> QED BY <1>10, <3>1
  <2> QED BY <1>10, <2>1, <2>2 DEF Onward
<1>11. CASE u # "unlink sorted"
  <2>1. PICK r : r = Tail(t)
    OBVIOUS
  <2>2. job' = [job EXCEPT !.todo = r]
    BY <1>5, <1>7, <1>8, <1>11, <2>1 DEF NextJob
  <2>3. job'.todo = r /\ job'.group = job.group
    BY <1>1, <2>2 DEF Types
  <2>4. Follows(r, R, c, "unlink data", "unlink index", "unlink sorted")
    BY <1>2, <1>4, <1>7, <1>11, <2>1, RestIs
  <2>5. r # <<>> /\ r[1][1] \in {"unlink index", "unlink sorted"}
    BY <1>7, <1>11, <2>1, <2>4 DEF Follows
  <2>6. PICK call : call = r[1]
    OBVIOUS
  <2>7. call[1] \notin {"rename index", "link"} /\ call # <<"unlink data", first>>
    <3>1. <<"unlink data", first>>[1] = "unlink data"
      BY <1>9
    <3>2. call[1] = "unlink index" \/ call[1] = "unlink sorted"
      BY <2>5, <2>6
    <3>3. call[1] # "unlink data" /\ call[1] # "rename index" /\ call[1] # "link"
      BY <3>2
    <3> QED BY <3>1, <3>3
  <2> QED BY <1>8, <1>10, <2>3, <2>5, <2>6, <2>7
<1>12. CASE u = "unlink sorted" /\ job.left # {}
  <2>1. PICK m : m = Min(job.left)
    OBVIOUS
  <2>2. m \in job.left /\ m \in Bases /\ m # first
    BY <1>2, <1>8, <1>12, <2>1, FirstIs
  <2>3. job' = [job EXCEPT !.left = @ \ {m}, !.todo = UnlinkCalls(m)]
    BY <1>5, <1>7, <1>8, <1>12, <2>1 DEF NextJob
  <2>4. job'.todo = UnlinkCalls(m) /\ job'.group = job.group
    BY <1>1, <2>3 DEF Types
  <2>5. UnlinkCalls(m) # <<>> /\ UnlinkCalls(m)[1] = <<"unlink data", m>>
    BY Tails DEF UnlinkCalls
  <2>6. PICK call : call = <<"unlink data", m>>
    OBVIOUS
  <2>7. call[1] \notin {"rename index", "link"} /\ call # <<"unlink data", first>>
    BY <1>9, <2>2, <2>6
  <2> QED BY <1>8, <1>10, <2>4, <2>5, <2>6, <2>7
<1>13. CASE u = "unlink sorted" /\ job.left = {}
  <2>1. job' = [job EXCEPT !.todo = RenameCalls(first)]
    BY <1>3, <1>5, <1>7, <1>8, <1>13 DEF NextJob
  <2>2. job'.todo = RenameCalls(first) /\ job'.group = job.group
    BY <1>1, <2>1 DEF Types
  <2>3. RenameCalls(first) # <<>> /\ RenameCalls(first)[1] = <<"rename data", first>>
    BY Tails DEF RenameCalls
  <2>4. PICK call : call = <<"rename data", first>>
    OBVIOUS
  <2>5. call[1] \notin {"rename index", "link"} /\ call # <<"unlink data", first>>
    BY <1>9, <2>4
  <2> QED BY <1>8, <1>10, <2>2, <2>3, <2>4, <2>5
<1> QED BY <1>11, <1>12, <1>13

(* And while the result is renamed.                                        *)
LEMMA MovingOnward ==
  ASSUME Inv, DiskStep, NEW first, first = Min(job.group), Merging(first), job.left = {},
         Moving(first), \A d \in job.group : d # first => data[d] = NoFile
  PROVE \E u : Calling(u, first) /\ Onward(u, first)
<1>1. Types /\ JobIs /\ job.todo # <<>>
  BY DEF Inv, DiskStep
<1>2. job.group \in SUBSET Bases /\ job.group # {}
  BY <1>1 DEF JobIs, Types
<1>3. first \in job.group /\ first \in Bases /\ chunk # NoFile /\ first \in sortFd
  BY <1>2, FirstIs DEF Merging
<1>4. PICK u : u = job.todo[1][1]
  OBVIOUS
<1>5. PICK R : R = Rests(RenameCalls(first))
  OBVIOUS
<1>6. PICK t : t = job.todo
  OBVIOUS
<1>7. Follows(t, R, first, "rename data", "rename index", "link") /\ u = t[1][1]
  BY <1>3, <1>4, <1>5, <1>6, RestIs DEF Moving
<1>8. /\ u \in {"rename data", "rename index", "link"} /\ t[1][2] = first
      /\ u # "link" => Len(t) > 1 /\ Tail(t) \in R
      /\ u = "rename data" => Tail(t)[1][1] = "rename index"
      /\ u = "rename index" => Tail(t)[1][1] = "link"
      /\ u = "link" => ~(Len(t) > 1)
  <2>1. "rename data" # "rename index" /\ "rename data" # "link" /\ "rename index" # "link"
    OBVIOUS
  <2>2. At(u, t, R, first, "rename data", "rename index", "link")
    BY <1>7, <2>1, Place3
  <2> QED BY <2>2 DEF At
<1>9. Calling(u, first) /\ job' = NextJob
  BY <1>3, <1>4, MovingCalls DEF DiskStep
<1>10. \A x, b : <<x, b>>[1] = x /\ <<x, b>>[2] = b
  OBVIOUS
<1>11. CASE u # "link"
  <2>1. PICK r : r = Tail(t)
    OBVIOUS
  <2>2. job' = [job EXCEPT !.todo = r]
    BY <1>6, <1>8, <1>9, <1>11, <2>1 DEF NextJob
  <2>3. job'.todo = r /\ job'.group = job.group
    BY <1>1, <2>2 DEF Types
  <2>4. Follows(r, R, first, "rename data", "rename index", "link")
    BY <1>3, <1>5, <1>8, <1>11, <2>1, RestIs
  <2>5. r # <<>> /\ r[1][2] = first
    BY <2>4 DEF Follows
  <2>6. PICK call : call = r[1]
    OBVIOUS
  <2>7. /\ call[2] = first /\ (u = "rename data" => call[1] = "rename index")
        /\ u = "rename index" => call[1] = "link"
    BY <1>8, <2>1, <2>5, <2>6
  <2>8. /\ call # <<"unlink data", first>>
        /\ \A b : call = <<"rename index", b>> => u = "rename data" /\ b = first
        /\ \A b : call = <<"link", b>> => u = "rename index" /\ b = first
    <3>1. call[1] # "unlink data"
      BY <1>8, <1>11, <2>7
    <3>2. <<"unlink data", first>>[1] = "unlink data"
      BY <1>10
    <3>3. ASSUME NEW b, call = <<"rename index", b>> PROVE u = "rename data" /\ b = first
      <4>1. call[1] = "rename index" /\ call[2] = b
        BY <1>10, <3>3
      <4> QED BY <1>8, <1>11, <2>7, <4>1
    <3>4. ASSUME NEW b, call = <<"link", b>> PROVE u = "rename index" /\ b = first
      <4>1. call[1] = "link" /\ call[2] = b
        BY <1>10, <3>4
      <4> QED BY <1>8, <1>11, <2>7, <4>1
    <3> QED BY <3>1, <3>2, <3>3, <3>4
  <2>9. Onward(u, first)
    BY <1>11, <2>3, <2>5, <2>6, <2>8 DEF Onward
  <2> QED BY <1>9, <2>9
<1>12. CASE u = "link"
  <2>1. job' = NoJob
    BY <1>4, <1>6, <1>8, <1>9, <1>12 DEF NextJob
  <2>2. Onward(u, first)
    BY <1>3, <1>12, <2>1 DEF Onward
  <2> QED BY <1>9, <2>2
<1> QED BY <1>11, <1>12

(* The system call that comes next.                                        *)
LEMMA CallingOnward ==
  ASSUME Inv, DiskStep
  PROVE \E u, c : Calling(u, c) /\ (Merges => Onward(u, c))
                  /\ (~Merges => chunk' = NoFile /\ (job'.group = job.group \/ job' = NoJob))
<1>1. (\E first \in {Min(job.group)} : Merging(first)) \/ Removing
  BY DEF Inv, JobIs, DiskStep
<1>2. job.group \in SUBSET Bases /\ job.group # {} /\ job.todo # <<>>
  BY DEF Inv, JobIs, DiskStep, Types
<1>3. CASE Removing
  <2>1. PICK u : u = job.todo[1][1]
    OBVIOUS
  <2>2. PICK c \in Bases : job.group = {c} /\ Dropping(c)
    BY <1>3 DEF Removing
  <2>3. Calling(u, c)
    BY <2>1, <2>2, DroppingCalls
  <2>4. ~Merges /\ chunk' = NoFile /\ (job'.group = job.group \/ job' = NoJob)
    BY <1>3 DEF Removing, Merges, DiskStep, NextJob, Inv, Types
  <2> QED BY <2>3, <2>4
<1>4. ASSUME NEW first, first = Min(job.group), Merging(first)
      PROVE  Merges /\ \E u, c : Calling(u, c) /\ Onward(u, c)
  <2>1. Merges
    BY <1>2, <1>4 DEF Merging, Merges
  <2>2. \/ \E c \in job.group \ job.left : Dropping(c)
        \/ job.left = {} /\ Moving(first) /\ \A d \in job.group : d # first => data[d] = NoFile
    BY <1>4 DEF Merging
  <2>3. CASE \E c \in job.group \ job.left : Dropping(c)
    <3>1. PICK c \in job.group \ job.left : Dropping(c)
      BY <2>3
    <3>2. \E u : Calling(u, c) /\ Onward(u, c)
      BY <1>4, <3>1, DroppingOnward
    <3> QED BY <2>1, <3>2
  <2>4. CASE job.left = {} /\ Moving(first) /\ \A d \in job.group : d # first => data[d] = NoFile
    <3>1. \E u : Calling(u, first) /\ Onward(u, first)
      BY <1>4, <2>4, MovingOnward
    <3> QED BY <2>1, <3>1
  <2> QED BY <2>1, <2>2, <2>3, <2>4
<1> HIDE DEF Calling, Onward, Merges
<1> QED BY <1>1, <1>3, <1>4


(* What a system call of the sorter leaves alone, and that the live        *)
(* entries of its group are of keys whose records it carries.              *)
LEMMA CallingIs ==
  ASSUME Inv, Inv', Safe, DiskStep, NEW u, NEW c, Calling(u, c)
  PROVE /\ phase = "up" /\ phase' = "up" /\ op' = op /\ cache' = cache /\ acked' = acked
        /\ unsure' = unsure /\ Flights' /\ Taking /\ Landing
        /\ \A b \in Bases \ job.group : Same(b)
        /\ \A b \in job.group : b \in Bases /\ \A k \in Keys : op[k].base # b
        /\ \A b \in job.group \cap Found' : \A k \in Keys : \A i \in DOMAIN Used(b)' :
              Mine(k, Used(b)'[i]) => Merged(k)
        /\ \A k \in Keys : ~Merged(k) =>
              \A b \in job.group : \A i \in Nat : ~Answers(k, b, i) /\ ~Answers(k, b, i)'
<1>1. /\ phase' = phase /\ sortFd' = sortFd /\ open' = open /\ op' = op /\ indexSize' = indexSize
      /\ cache' = cache /\ dataOffset' = dataOffset
      /\ acked' = acked /\ unsure' = unsure /\ mutex' \in {mutex, Nobody} /\ job.todo # <<>>
  BY DEF DiskStep, observers
<1>2. phase = "up" /\ phase' = "up" /\ mutex = Sorter
  BY <1>1 DEF Inv, JobIs, Resting, NoJob
<1>3. Flights /\ Taking /\ Landing /\ Types /\ Types' /\ Frames /\ Frames'
  BY <1>2, NowFrames, NextFrames DEF Safe, Inv
<1>4. /\ Call(u, c) /\ u \in Calls /\ c \in job.group /\ c \in Bases
      /\ job.todo[1][1] = u /\ job.todo[1][2] = c
      /\ u \in {"unlink data", "unlink index", "unlink sorted"} => data'[c] = NoFile
      /\ u \in {"rename data", "rename index", "link"} => index[c] = NoFile /\ chunk # NoFile
      /\ u = "rename data" => sorted[c] = NoFile
      /\ u = "link" => sorted[c] # NoFile
  BY DEF Calling
<1>5. \A k \in Keys : mutex # k /\ mutex' # k
  BY <1>1, <1>2, NamesAssumption
<1>6. ASSUME NEW b \in Bases \ job.group PROVE Same(b)
  <2>1. Settled(b)' = Settled(b) /\ Filled(b)' = Filled(b)
    BY <1>1, <1>5 DEF Settled, Filled, Holding
  <2>2. b \in Unsorted' <=> b \in Unsorted
    BY <1>1 DEF Unsorted
  <2>3. /\ data'[b] = data[b] /\ whole'[b] = whole[b]
        /\ index'[b] = index[b] /\ sorted'[b] = sorted[b]
    BY <1>4 DEF Call
  <2> HIDE DEF Settled, Filled, Unsorted
  <2> QED BY <2>1, <2>2, <2>3 DEF Same
<1>7. ASSUME NEW b \in job.group PROVE b \in Bases /\ b \notin Unsorted /\ \A k \in Keys : op[k].base # b
  <2>1. b \in Bases /\ b \in Nat \ {0}
    BY <1>2, <1>3, <1>7 DEF Frames, Types
  <2>2. b \notin Unsorted
    BY <1>2, <1>3, <1>7 DEF Frames
  <2>3. \A k \in Keys : op[k].base # b
    BY <1>2, <1>3, <2>1, <2>2 DEF Frames
  <2> QED BY <2>1, <2>2, <2>3
<1>8. Flights'
  <2> SUFFICES ASSUME NEW b \in Unsorted' PROVE Lined(b)'
    BY DEF Flights
  <2>1. b \in Unsorted /\ b \in Bases
    BY <1>1, <1>2, <1>3 DEF Unsorted, Types
  <2>2. Same(b) /\ Lined(b)
    BY <1>2, <1>3, <1>6, <1>7, <2>1 DEF Flights
  <2> HIDE DEF Lined, Same
  <2> QED BY <1>1, <1>5, <2>2, LinedSame
<1>9. ASSUME NEW b \in job.group \cap Found', NEW k \in Keys, NEW i \in DOMAIN Used(b)',
             Mine(k, Used(b)'[i])
      PROVE  Merged(k)
  <2>1. CASE b # c
    <3>1. Used(b)' = Used(b) /\ b \in Found
      BY <1>4, <1>7, <2>1 DEF Call, Used, Created, Found
    <3> QED BY <1>3, <1>9, <3>1 DEF Taking
  <2>2. CASE b = c
    <3>1. u \in {"rename data", "rename index", "link"} /\ chunk # NoFile /\ index[c] = NoFile
      BY <1>4, <1>9, <2>2 DEF Found, Calls
    <3>2. chunk.entries \in Seq(SoundEntry) /\ chunk.entries # NoFile /\ Merges
      BY <1>1, <1>3, <3>1, FilesDiffer DEF Types, Chunks, Merges
    <3>3. CASE u = "rename data"
      <4>1. sorted'[c] = NoFile /\ index'[c] = NoFile
        BY <1>4, <3>1, <3>3 DEF Call
      <4>2. Used(c)' = <<>>
        BY <4>1 DEF Used, Created
      <4> QED BY <1>9, <2>2, <4>2
    <3>4. CASE u = "rename index" \/ u = "link"
      <4>1. Used(c)' = chunk.entries
        <5>1. CASE u = "rename index"
          BY <1>4, <3>2, <5>1 DEF Call, Used
        <5>2. CASE u = "link"
          <6>1. sorted[c] = chunk.entries
            <7>1. PICK call \in Calls \X Bases : call = job.todo[1]
              BY <1>1, <1>3 DEF Types
            <7>2. call = <<call[1], call[2]>>
              BY <7>1
            <7>3. job.todo[1] = <<"link", c>>
              BY <1>4, <5>2, <7>1, <7>2
            <7> QED BY <1>3, <1>4, <3>2, <7>3 DEF Landing
          <6>2. sorted'[c] = sorted[c]
            BY <1>4, <5>2 DEF Call
          <6> QED BY <3>2, <6>1, <6>2 DEF Used
        <5> QED BY <3>4, <5>1, <5>2
      <4>2. i \in DOMAIN chunk.entries /\ Mine(k, chunk.entries[i])
        BY <1>9, <2>2, <4>1
      <4>3. Live(chunk.entries, k) # {}
        BY <4>2 DEF Live, Mine
      <4> QED BY <3>2, <4>3 DEF Merged
    <3> QED BY <3>1, <3>3, <3>4
  <2> QED BY <2>1, <2>2
<1>10. ASSUME NEW k \in Keys, ~Merged(k), NEW b \in job.group, NEW i \in Nat
       PROVE  ~Answers(k, b, i) /\ ~Answers(k, b, i)'
  <2>1. ~Answers(k, b, i)
    BY <1>3, <1>10 DEF Answers, Taking
  <2>2. ~Answers(k, b, i)'
    <3> HIDE DEF Merged
    <3> QED BY <1>9, <1>10 DEF Answers, Mine
  <2> QED BY <2>1, <2>2
<1> HIDE DEF Flights, Taking, Landing, Merged, Answers, Mine, Same, Found
<1> QED BY <1>1, <1>2, <1>3, <1>6, <1>7, <1>8, <1>9, <1>10

(* A key the sorter does not carry.                                        *)
LEMMA CallingSurvives ==
  ASSUME Inv, Inv', Safe, DiskStep, NEW u, NEW c, Calling(u, c), NEW k \in Keys \ unsure, ~Merged(k)
  PROVE Survives(k)'
<1>1. /\ phase = "up" /\ phase' = "up" /\ op' = op /\ cache' = cache /\ acked' = acked
      /\ \A b \in Bases \ job.group : Same(b)
      /\ \A b \in job.group : \A i \in Nat : ~Answers(k, b, i) /\ ~Answers(k, b, i)'
  BY CallingIs
<1>2. Survives(k)
  BY <1>1 DEF Safe, Moved
<1>3. PICK C \in SUBSET Bases : C = Bases \ job.group
  OBVIOUS
<1>4. \A b \in Bases \ C : \A i \in Nat : ~Answers(k, b, i) /\ ~Answers(k, b, i)'
  BY <1>1, <1>3
<1> HIDE DEF Survives, Answers, Same
<1> QED BY <1>1, <1>2, <1>3, <1>4, SameSurvives

(* The last call of a data sort: the record is in the first base.          *)
LEMMA LinkSurvives ==
  ASSUME Inv, Inv', Safe, DiskStep, NEW c, Calling("link", c), Onward("link", c), Merges,
         NEW k \in Keys \ unsure, Merged(k)
  PROVE Survives(k)'
<1>1. /\ phase = "up" /\ phase' = "up" /\ op' = op /\ cache' = cache /\ acked' = acked
      /\ Landing /\ Carried(k)
      /\ \A b \in Bases \ job.group : Same(b)
      /\ \A b \in job.group : \A j \in Keys : op[j].base # b
  BY CallingIs DEF Safe
<1>2. /\ Call("link", c) /\ c \in job.group /\ c \in Bases /\ job.todo # <<>>
      /\ job.todo[1][1] = "link" /\ job.todo[1][2] = c /\ chunk # NoFile
  BY DEF Calling
<1>3. /\ c \in sortFd /\ \A d \in job.group : d # c => data[d] = NoFile
  BY DEF Onward
<1>4. job.todo[1] = <<"link", c>>
  <2>3. PICK s \in Seq(Calls \X Bases) : s = job.todo
    BY DEF Inv, Types
  <2>1. PICK call \in Calls \X Bases : call = job.todo[1]
    BY <1>2, <2>3
  <2>2. call = <<call[1], call[2]>>
    BY <2>1
  <2> QED BY <1>2, <2>1, <2>2
<1>5. PICK t : t = chunk.entries
  OBVIOUS
<1>6. PICK d : d = chunk.cells
  OBVIOUS
<1>7. t \in Seq(SoundEntry) /\ d \in Seq(Cell) /\ t # NoFile /\ d # NoFile
  BY <1>2, <1>5, <1>6, FilesDiffer DEF Inv, Types, Chunks
<1>8. data[c] = d /\ whole[c] /\ sorted[c] = t
  BY <1>1, <1>2, <1>4, <1>5, <1>6 DEF Landing
<1>9. data'[c] = d /\ whole'[c] /\ sorted'[c] = t /\ \A b \in Bases : b # c => data'[b] = data[b]
  BY <1>2, <1>8 DEF Call
<1>10. Used(c)' = t /\ c \in Found' /\ c \notin Unsorted'
  <2>1. sortFd' = sortFd
    BY DEF DiskStep
  <2> QED BY <1>2, <1>3, <1>7, <1>9, <2>1 DEF Used, Found, Unsorted
<1>11. /\ op[k] = Idle /\ cache[k] = NoLoc /\ acked[k] # 0
       /\ \A x \in Bases : \A j \in Nat : Answers(k, x, j) => x \in job.group
  BY <1>1 DEF Carried
<1>12. PICK i \in DOMAIN t : /\ \A j \in Live(t, k) : j = i
                             /\ t[i].pos \in DOMAIN d /\ d[t[i].pos].ver = acked[k]
  BY <1>1, <1>5, <1>6 DEF Carried, Carries
<1>13. i \in Live(t, k) /\ Mine(k, t[i]) /\ i \in Nat
  <2>1. PICK j \in Live(t, k) : TRUE
    BY <1>5 DEF Merged
  <2>2. i \in Live(t, k)
    BY <1>12, <2>1
  <2>3. i \in Nat
    BY <1>7, <1>12, SeqIs
  <2> QED BY <2>2, <2>3 DEF Live, Mine
<1>14. Answers(k, c, i)'
  <2>1. op'[k].base # c
    BY <1>1, <1>2
  <2> HIDE DEF Found, Unsorted, Used, Settled
  <2> QED BY <1>10, <1>12, <1>13, <2>1 DEF Answers, Mine
<1>15. Holds(k, c, i)'
  <2>1. Within(c, t[i])'
    <3>1. t[i].pos \in 1 .. Len(d) /\ Len(d) \in Nat
      BY <1>7, <1>12, SeqIs
    <3> QED BY <1>9, <3>1 DEF Within
  <2> HIDE DEF Within, Unsorted, Used, Filled
  <2> QED BY <1>1, <1>7, <1>9, <1>10, <1>12, <2>1 DEF Holds
<1>16. Spared(k, c)'
  BY <1>1 DEF Spared
<1>17. Known(k, c, i)'
  <2> HIDE DEF Loc, Idle, Unsorted
  <2> QED BY <1>1, <1>10, <1>11 DEF Known
<1>18. Alone(k, c, i)'
  <2> SUFFICES ASSUME NEW x \in Bases, NEW j \in Nat, Answers(k, x, j)' PROVE x = c /\ j = i
    BY DEF Alone
  <2>1. x \in job.group
    <3> SUFFICES ASSUME x \notin job.group PROVE FALSE
      OBVIOUS
    <3>1. Answers(k, x, j)
      BY <1>1, SameAnswers
    <3> QED BY <1>11, <3>1
  <2>2. x = c
    BY <1>3, <1>9, <2>1 DEF Answers, Found
  <2>3. j \in DOMAIN t /\ Mine(k, t[j])
    BY <1>10, <2>2 DEF Answers, Mine
  <2>4. j \in Live(t, k)
    BY <2>3 DEF Live, Mine
  <2> QED BY <1>12, <2>2, <2>4
<1>19. Recorded(k, c, i)'
  <2> HIDE DEF Answers, Holds, Spared, Known, Alone
  <2> QED BY <1>14, <1>15, <1>16, <1>17, <1>18 DEF Recorded
<1>20. Steady(k)'
  BY <1>1, <1>11, IdleFields DEF Steady
<1> HIDE DEF Recorded, Steady
<1> QED BY <1>1, <1>2, <1>11, <1>13, <1>19, <1>20 DEF Survives

(* The system calls of eblob_base_remove and of datasort_swap_disk.        *)
LEMMA DiskStepSafe ==
  ASSUME Inv, Inv', Safe, DiskStep
  PROVE Safe'
<1>1. PICK u, c : /\ Calling(u, c) /\ (Merges => Onward(u, c))
                  /\ ~Merges => chunk' = NoFile /\ (job'.group = job.group \/ job' = NoJob)
  BY CallingOnward
<1>2. /\ phase = "up" /\ phase' = "up" /\ op' = op /\ cache' = cache /\ acked' = acked
      /\ unsure' = unsure /\ Flights' /\ Taking /\ Landing
      /\ \A b \in Bases \ job.group : Same(b)
      /\ \A b \in job.group : b \in Bases
      /\ \A b \in job.group \cap Found' : \A k \in Keys : \A i \in DOMAIN Used(b)' :
            Mine(k, Used(b)'[i]) => Merged(k)
  BY <1>1, CallingIs
<1>3. \A k \in Keys \ unsure : ~Merged(k) => Survives(k)'
  BY <1>1, CallingSurvives
<1>4. \A k : Merged(k) => Merges
  BY DEF Merged
<1>5. CASE ~Merges
  <2>1. ~Merges' /\ (\A k : ~Merged(k)') /\ (\A k : ~Moved(k)') /\ Landing'
    <3>1. ~Merges'
      BY <1>1, <1>5 DEF Merges
    <3> HIDE DEF Merges
    <3> QED BY <3>1 DEF Merged, Moved, Landing
  <2>2. Taking'
    <3>1. job'.group \subseteq job.group
      <4>1. NoJob.group = {}
        BY DEF NoJob
      <4> QED BY <1>1, <1>5, <4>1
    <3> HIDE DEF Merged, Merges, Found
    <3> QED BY <1>2, <1>4, <1>5, <3>1 DEF Taking, Mine
  <2> HIDE DEF Flights, Taking, Landing, Merged, Moved, Survives, Merges
  <2> QED BY <1>2, <1>3, <1>4, <1>5, <2>1, <2>2 DEF Safe
<1>6. CASE Merges /\ u # "link"
  <2>1. /\ job'.todo # <<>> /\ job'.group = job.group
        /\ job'.todo[1] # <<"unlink data", Min(job.group)>>
        /\ \A b : job'.todo[1] = <<"rename index", b>> => u = "rename data" /\ b = c
        /\ \A b : job'.todo[1] = <<"link", b>> => u = "rename index" /\ b = c
    BY <1>1, <1>6 DEF Onward
  <2>2. Call(u, c) /\ c \in Bases /\ job.todo[1][1] = u /\ job.todo[1][2] = c /\ chunk' = chunk
    BY <1>1, <1>6 DEF Calling, Call
  <2>3. Merges' /\ \A k : (Merged(k)' <=> Merged(k)) /\ (Moved(k)' <=> Merged(k))
    <3>1. Merges'
      BY <1>6, <2>1, <2>2 DEF Merges
    <3> HIDE DEF Merges
    <3> QED BY <1>6, <2>1, <2>2, <3>1 DEF Merged, Moved, Live
  <2>4. Taking'
    <3> HIDE DEF Merged, Found
    <3> QED BY <1>2, <2>1, <2>3 DEF Taking, Mine
  <2>5. Landing'
    <3>1. \A b : job'.todo[1] = <<"rename index", b>> => data'[b] = chunk.cells /\ whole'[b]
      BY <2>1, <2>2 DEF Call
    <3>2. ASSUME NEW b, job'.todo[1] = <<"link", b>>
          PROVE  data'[b] = chunk.cells /\ whole'[b] /\ sorted'[b] = chunk.entries
      <4>1. u = "rename index" /\ b = c
        BY <2>1, <3>2
      <4>2. job.todo[1] = <<"rename index", c>>
        <5>1. PICK call \in Calls \X Bases : call = job.todo[1]
          <6>1. PICK t : t = job.todo
            OBVIOUS
          <6>2. t \in Seq(Calls \X Bases) /\ t # <<>>
            BY <1>6, <6>1 DEF Inv, Types, Merges
          <6>3. t[1] \in Calls \X Bases
            BY <6>2
          <6> QED BY <6>1, <6>3
        <5>2. call = <<call[1], call[2]>>
          BY <5>1
        <5> QED BY <2>2, <4>1, <5>1, <5>2
      <4>3. data[c] = chunk.cells /\ whole[c]
        BY <1>2, <1>6, <2>2, <4>2 DEF Landing
      <4> QED BY <2>2, <4>1, <4>3 DEF Call
    <3> QED BY <2>2, <3>1, <3>2 DEF Landing
  <2>6. ASSUME NEW k \in Keys \ unsure, Merged(k) PROVE Carried(k)'
    <3>1. Carried(k)
      BY <1>2, <2>6 DEF Safe
    <3>2. Carries(k)'
      <4>1. Carries(k) /\ chunk' = chunk /\ acked' = acked
        BY <1>2, <2>2, <3>1 DEF Carried
      <4> QED BY <4>1 DEF Carries, Live
    <3>3. ASSUME NEW x \in Bases, NEW j \in Nat, Answers(k, x, j)' PROVE x \in job.group
      <4> SUFFICES ASSUME x \notin job.group PROVE FALSE
        OBVIOUS
      <4>1. Answers(k, x, j)
        BY <1>2, <3>3, SameAnswers
      <4> QED BY <3>1, <4>1 DEF Carried
    <3> HIDE DEF Answers, Carries
    <3> QED BY <1>2, <2>1, <3>1, <3>2, <3>3 DEF Carried
  <2> HIDE DEF Flights, Taking, Landing, Merged, Moved, Survives, Carried
  <2> QED BY <1>2, <1>3, <2>3, <2>4, <2>5, <2>6 DEF Safe
<1>7. CASE Merges /\ u = "link"
  <2>1. Calling("link", c) /\ Onward("link", c) /\ job' = NoJob
    BY <1>1, <1>7 DEF Onward
  <2>2. Taking' /\ Landing' /\ (\A k : ~Merged(k)' /\ ~Moved(k)')
    <3>1. (job = NoJob => Taking /\ Landing /\ \A k : ~Merged(k) /\ ~Moved(k))'
      BY NoMerge, PTL
    <3> QED BY <2>1, <3>1
  <2>3. \A k \in Keys \ unsure : Survives(k)'
    BY <1>3, <1>7, <2>1, LinkSurvives
  <2> HIDE DEF Flights, Taking, Landing, Merged, Moved, Survives
  <2> QED BY <1>2, <2>2, <2>3 DEF Safe
<1> QED BY <1>5, <1>6, <1>7


-----------------------------------------------------------------------------
(* Crash and restart.                                                      *)

(* A crash leaves no entry of a key it does not endanger behind the        *)
(* settled ones.                                                           *)
LEMMA NotLeft ==
  ASSUME Inv, phase = "up", NEW k \in Keys, k \notin Exposed, op[k] = Idle, NEW b \in Unsorted,
         NEW j \in DOMAIN Used(b), Used(b)[j].key = k
  PROVE j <= Settled(b)
<1>1. Types /\ OpsAre /\ Frames
  BY NowFrames DEF Inv
<1>2. /\ b \in Visible /\ b \in open /\ b \notin sortFd /\ b \in Bases /\ Used(b) = index[b]
      /\ index[b] \in Seq(SoundEntry)
  BY <1>1, UsedBy DEF Frames, Unsorted
<1>3. IndexFile(b) = index[b] /\ index[b] # NoFile
  BY <1>2, FilesDiffer DEF IndexFile
<1>4. LeftBehind(b) \subseteq Exposed
  BY <1>2, <1>3 DEF Exposed
<1>5. /\ j \in DOMAIN IndexFile(b) /\ IndexFile(b)[j].key = k /\ j \in Nat
      /\ indexSize[b] \in Nat /\ Settled(b) \in Nat
  BY <1>1, <1>2, <1>3, SeqIs, FileIs DEF Frames
<1>6. /\ ~(j > indexSize[b])
      /\ \A i \in Keys : ~(op[i].pc = "index" /\ op[i].base = b /\ op[i].at = j)
  BY <1>4, <1>5 DEF LeftBehind
<1>7. CASE Holding(b)
  <2>1. PICK i \in Keys : mutex = i /\ op[i].base = b
    BY <1>7 DEF Holding
  <2>2. Settled(b) = indexSize[b] - 1 /\ op[i].at = Settled(b) + 1
    BY <1>1, <1>2, <2>1, SettledIs
  <2>3. OpIs(i, op[i]) /\ b # 0
    BY <1>1, <1>2, BaseIs DEF OpsAre
  <2>4. op[i].pc # "index" => index[b][op[i].at].key = i
    BY <2>1, <2>3 DEF OpIs, Mine
  <2>5. i # k
    BY <1>2, <2>1, IdleFields, BaseIs
  <2>6. op[i].at # j
    BY <1>2, <1>6, <2>1, <2>4, <2>5
  <2> QED BY <1>5, <1>6, <2>2, <2>6
<1>8. CASE ~Holding(b)
  <2>1. Settled(b) = indexSize[b]
    BY <1>8 DEF Settled
  <2> QED BY <1>5, <1>6, <2>1
<1> QED BY <1>7, <1>8

(* And the repair that follows does not cut off its record.                *)
LEMMA NotCut ==
  ASSUME Inv, phase = "up", NEW k \in Keys, k \notin Exposed, NEW b \in Found, NEW s, s = Used(b),
         NEW i \in DOMAIN s, Mine(k, s[i]), sorted[b] = NoFile, Len(s) < RecordsInBlob,
         \A c \in Found : c <= b, NEW m \in DOMAIN s, m + 1 \in DOMAIN s, ~Within(b, s[m + 1]),
         \A j \in DOMAIN s : j <= m => Within(b, s[j])
  PROVE s[m].key \notin {0, k}
<1>1. Types /\ LinkedIs /\ OpenFiles /\ JobIs /\ Frames
  BY NowFrames DEF Inv
<1>2. b \in Bases /\ data[b] # NoFile /\ \A c \in Bases : c \in Nat
  BY BaseIs DEF Found
<1>3. s \in Seq(SoundEntry) /\ DOMAIN s = 1 .. Len(s) /\ Len(s) \in Nat
  BY <1>1, <1>2, UsedIs
<1>4. b \in Visible
  <2>1. CASE job.todo = <<>>
    <3>1. job.group = {}
      BY <1>1, <2>1 DEF JobIs, NoJob
    <3> QED BY <1>1, <3>1 DEF Frames
  <2>2. CASE job.todo # <<>>
    <3>1. open # {} /\ (\A c \in job.group : c < LastBase) /\ open \in SUBSET Bases
      BY <1>1, <2>2 DEF JobIs, Types
    <3>2. LastBase \in open /\ LastBase \in Bases
      BY <3>1, LastBaseIs
    <3>3. LastBase \notin job.group
      BY <1>2, <3>1, <3>2
    <3>4. LastBase \in Found
      BY <1>1, <3>2, <3>3 DEF Frames, Visible
    <3>5. b \notin job.group
      BY <1>2, <3>1, <3>2, <3>4
    <3> QED BY <1>1, <3>5 DEF Frames
  <2> QED BY <2>1, <2>2
<1>5. b \in open /\ b \notin sortFd /\ s = index[b] /\ index[b] \in Seq(SoundEntry)
  BY <1>1, <1>4, UsedBy DEF Frames
<1>6. IndexFile(b) = s /\ index[b] # NoFile
  BY <1>5, FilesDiffer DEF IndexFile
<1>7. PICK T : T = Torn(b)
  OBVIOUS
<1>8. T = {j \in DOMAIN s : ~Within(b, s[j])}
  BY <1>6, <1>7 DEF Torn
<1>9. m + 1 \in T /\ T \subseteq Nat /\ T # {}
  BY <1>3, <1>8
<1>10. Min(T) = m + 1
  <2>1. Min(T) \in T /\ Min(T) <= m + 1
    BY <1>9, MinOf
  <2>2. Min(T) \in DOMAIN s /\ ~(Min(T) <= m) /\ Min(T) \in Nat /\ m \in Nat
    BY <1>3, <1>8, <2>1
  <2> QED BY <2>1, <2>2
<1>11. b \in Torns
  BY <1>2, <1>5, <1>6, <1>7, <1>9 DEF Torns
<1>12. Neighbours(b) \subseteq Exposed
  BY <1>11 DEF Exposed
<1>13. Neighbours(b) = IF s[m].key # 0 THEN {s[m].key} ELSE LiveKeys(s)
  <2>1. m \in Nat /\ m # 0 /\ RecordsInBlob \in Nat
    BY <1>3, BoundsAssumption
  <2>2. ~(Len(s) >= RecordsInBlob) /\ Min(Torn(b)) # 1 /\ Min(Torn(b)) - 1 = m
    BY <1>3, <1>7, <1>10, <2>1
  <2> QED BY <1>6, <2>2 DEF Neighbours
<1>14. k \in LiveKeys(s)
  BY DEF LiveKeys, Live, Mine
<1> QED BY <1>12, <1>13, <1>14

(* The process dies: what a key that is not endangered answers, it still   *)
(* does, and the next repair does not cut it off.                          *)
LEMMA CrashSafe ==
  ASSUME Inv, Inv', Safe, Crash
  PROVE Safe'
<1>1. /\ phase = "up" /\ phase' = "down" /\ job' = NoJob /\ acked' = acked
      /\ op' = [k \in Keys |-> Idle] /\ cache' = [k \in Keys |-> NoLoc]
      /\ unsure' = unsure \cup {k \in Keys : op[k] # Idle} \cup (Exposed \ {0})
      /\ data' = data /\ whole' = whole /\ index' = index /\ sorted' = sorted
  BY DEF Crash, Reset, files
<1>2. Taking' /\ Landing' /\ (\A k : ~Merged(k)' /\ ~Moved(k)')
  <2>1. (job = NoJob => Taking /\ Landing /\ \A k : ~Merged(k) /\ ~Moved(k))'
    BY NoMerge, PTL
  <2> QED BY <1>1, <2>1
<1>3. Flights'
  BY <1>1 DEF Flights
<1>4. Found' = Found /\ (\A b, e : Within(b, e)' <=> Within(b, e)) /\ (\A b : Used(b)' = Used(b))
  BY <1>1 DEF Found, Within, Used, Created
<1>5. ASSUME NEW k \in Keys \ unsure' PROVE Survives(k)'
  <2>1. k \in Keys \ unsure /\ op[k] = Idle /\ k \notin Exposed /\ op'[k] = Idle /\ cache'[k] = NoLoc
    BY <1>1, <1>5, KeysAssumption
  <2>2. ~Moved(k)
    <3> SUFFICES ASSUME Moved(k) PROVE FALSE
      OBVIOUS
    <3>1. job.todo # <<>> /\ chunk # NoFile /\ job.todo[1] # <<"unlink data", Min(job.group)>>
          /\ Live(chunk.entries, k) # {}
      BY DEF Moved, Merged, Merges
    <3>2. k \in LiveKeys(chunk.entries)
      BY <3>1 DEF LiveKeys
    <3> QED BY <2>1, <3>1, <3>2 DEF Exposed
  <2>3. Survives(k) /\ Steady(k) /\ Steady(k)'
    BY <1>1, <2>1, <2>2, IdleFields DEF Safe, Steady
  <2>4. ASSUME NEW b \in Bases, NEW i PROVE Answers(k, b, i)' <=> Answers(k, b, i)
    <3>1. op[k].base # b /\ op'[k].base # b
      BY <2>1, IdleFields, BaseIs
    <3>2. Answers(k, b, i)' <=> b \in Found /\ i \in DOMAIN Used(b) /\ Mine(k, Used(b)[i])
      <4> HIDE DEF Found, Used, Unsorted, Settled
      <4> QED BY <1>1, <1>4, <3>1 DEF Answers, Mine
    <3>3. i \in DOMAIN Used(b) /\ Mine(k, Used(b)[i]) /\ b \in Unsorted => i <= Settled(b)
      BY <1>1, <2>1, NotLeft DEF Mine
    <3> HIDE DEF Found, Used, Unsorted, Settled, Mine
    <3> QED BY <3>1, <3>2, <3>3 DEF Answers
  <2>5. CASE acked[k] # 0
    <3>1. PICK b \in Bases, i \in Nat : Recorded(k, b, i)
      BY <2>3, <2>5 DEF Survives
    <3>2. Answers(k, b, i) /\ Holds(k, b, i) /\ Alone(k, b, i)
      BY <3>1 DEF Recorded
    <3>3. Answers(k, b, i)' /\ Alone(k, b, i)'
      <4> HIDE DEF Answers
      <4> QED BY <2>4, <3>2 DEF Alone
    <3>4. Holds(k, b, i)'
      <4> HIDE DEF Within, Used, Unsorted, Filled
      <4> QED BY <1>1, <1>4, <3>2 DEF Holds
    <3>5. Known(k, b, i)'
      BY <1>1 DEF Known
    <3>6. Spared(k, b)'
      <4>1. PICK s : s = Used(b)
        OBVIOUS
      <4>2. b \in Found /\ i \in DOMAIN s /\ Mine(k, s[i])
        BY <3>2, <4>1 DEF Answers
      <4>3. ASSUME sorted[b] = NoFile, Len(s) < RecordsInBlob, \A c \in Found : c <= b,
                   NEW m \in DOMAIN s, m + 1 \in DOMAIN s, ~Within(b, s[m + 1]),
                   \A j \in DOMAIN s : j <= m => Within(b, s[j])
            PROVE  s[m].key \notin {0, k}
        BY <1>1, <2>1, <4>1, <4>2, <4>3, NotCut
      <4> HIDE DEF Within, Used, Found
      <4> QED BY <1>1, <1>4, <4>1, <4>3 DEF Spared
    <3>7. Recorded(k, b, i)'
      <4> HIDE DEF Answers, Holds, Spared, Known, Alone
      <4> QED BY <3>3, <3>4, <3>5, <3>6 DEF Recorded
    <3> HIDE DEF Recorded, Steady
    <3> QED BY <1>1, <2>3, <2>5, <3>7 DEF Survives
  <2>6. CASE acked[k] = 0
    <3>1. \A c \in Bases : \A j \in Nat : ~Answers(k, c, j)'
      BY <2>3, <2>4, <2>6 DEF Survives, Absent
    <3>2. Absent(k)'
      <4> HIDE DEF Answers
      <4> QED BY <2>1, <3>1, IdleFields DEF Absent
    <3> HIDE DEF Absent
    <3> QED BY <1>1, <2>6, <3>2 DEF Survives
  <2> QED BY <2>5, <2>6
<1> HIDE DEF Flights, Taking, Landing, Merged, Moved, Survives
<1> QED BY <1>2, <1>3, <1>5 DEF Safe


(* The entries of a base after the scan are those before, in some order.   *)
Permuted(b, f) ==
    /\ f \in [DOMAIN Used(b) -> DOMAIN Used(b)]
    /\ \A p, q \in DOMAIN Used(b) : p # q => f[p] # f[q]
    /\ \A i \in DOMAIN Used(b) : \E p \in DOMAIN Used(b) : f[p] = i
    /\ DOMAIN Used(b)' = DOMAIN Used(b)
    /\ \A p \in DOMAIN Used(b) : Used(b)'[p] = Used(b)[f[p]]

(* What the scan makes of the entries of a base.                           *)
LEMMA ScanPermutes ==
  ASSUME Inv, Scan, \A c \in Found : Openable(c), NEW b \in Found
  PROVE /\ \E f : Permuted(b, f)
        /\ ~ToSort(b) => Used(b)' = Used(b) /\ sorted'[b] = sorted[b]
        /\ ToSort(b) => sorted'[b] # NoFile
<1>1. Types /\ LinkedIs /\ SortedMatchesIndex /\ b \in Bases /\ data[b] # NoFile
  BY DEF Inv, Found
<1>2. /\ index'[b] = Created(index[b])
      /\ sorted'[b] = IF Kept(b) THEN sorted[b]
                      ELSE IF ToSort(b) THEN SortedByKey(Created(index[b])) ELSE NoFile
  BY <1>1 DEF Scan
<1>3. sorted[b] # NoFile => Kept(b)
  BY <1>1 DEF Openable, SortedMatchesIndex, Kept
<1>4. PICK s \in Seq(SoundEntry) : s = Used(b)
  BY <1>1, UsedIs
<1>5. Kept(b) => ~ToSort(b) /\ sorted[b] # NoFile
  BY DEF ToSort, Kept
<1>6. ASSUME ToSort(b) PROVE sorted'[b] # NoFile /\ \E f : Permuted(b, f)
  <2>1. ~Kept(b) /\ sorted[b] = NoFile
    BY <1>3, <1>5, <1>6
  <2>2. s = Created(index[b])
    BY <1>4, <2>1 DEF Used
  <2>3. PICK t : t = SortedByKey(s)
    OBVIOUS
  <2>4. t \in Seq(SoundEntry)
    BY <2>3, SortedIs
  <2>5. sorted'[b] = t /\ t # NoFile
    BY <1>2, <1>6, <2>1, <2>2, <2>3, <2>4, FilesDiffer
  <2>6. Used(b)' = t
    BY <2>5 DEF Used
  <2>7. PICK f \in [DOMAIN s -> DOMAIN s] : Sorts(s, f)
    <3>1. \A e \in SoundEntry : e.key \in Nat /\ e.removed \in BOOLEAN
      BY EntryIs
    <3> QED BY <3>1, SortIs
  <2>8. /\ t = [p \in DOMAIN s |-> s[f[p]]]
        /\ \A p, q \in DOMAIN s : p # q => f[p] # f[q]
        /\ \A i \in DOMAIN s : \E p \in DOMAIN s : f[p] = i
    BY <2>3, <2>7 DEF Sorts
  <2>9. DOMAIN t = DOMAIN s /\ \A p \in DOMAIN s : t[p] = s[f[p]]
    BY <2>8
  <2>10. Permuted(b, f)
    BY <1>4, <2>6, <2>7, <2>8, <2>9 DEF Permuted
  <2> QED BY <2>5, <2>10
<1>7. ASSUME ~ToSort(b) PROVE /\ Used(b)' = Used(b) /\ sorted'[b] = sorted[b]
                              /\ \E f : Permuted(b, f)
  <2>1. sorted'[b] = sorted[b]
    BY <1>2, <1>3, <1>7
  <2>2. Used(b)' = Used(b)
    <3>1. CASE sorted[b] # NoFile
      BY <2>1, <3>1 DEF Used
    <3>2. CASE sorted[b] = NoFile
      <4>1. s = Created(index[b]) /\ s # NoFile
        BY <1>4, <3>2, FilesDiffer DEF Used
      <4> QED BY <1>2, <1>4, <2>1, <3>2, <4>1 DEF Used, Created
    <3> QED BY <3>1, <3>2
  <2>3. Permuted(b, [p \in DOMAIN s |-> p])
    BY <1>4, <2>2 DEF Permuted
  <2> QED BY <2>1, <2>2, <2>3
<1> QED BY <1>6, <1>7

(* In a restart every live entry answers.                                  *)
LEMMA RestAnswers ==
  Inv /\ phase # "up" =>
      \A k \in Keys : /\ op[k] = Idle /\ cache[k] = NoLoc /\ job = NoJob /\ Steady(k)
                      /\ \A b \in Bases : \A i :
                            Answers(k, b, i) <=> b \in Found /\ i \in DOMAIN Used(b) /\ Mine(k, Used(b)[i])
<1> SUFFICES ASSUME Inv, phase # "up", NEW k \in Keys
             PROVE  /\ op[k] = Idle /\ cache[k] = NoLoc /\ job = NoJob /\ Steady(k)
                    /\ \A b \in Bases : \A i :
                          Answers(k, b, i) <=> b \in Found /\ i \in DOMAIN Used(b) /\ Mine(k, Used(b)[i])
  OBVIOUS
<1>1. op[k] = Idle /\ cache[k] = NoLoc /\ job = NoJob
  BY DEF Inv, Resting
<1>2. Steady(k)
  BY <1>1, IdleFields DEF Steady
<1>3. ASSUME NEW b \in Bases PROVE op[k].base # b
  BY <1>1, IdleFields, BaseIs
<1> HIDE DEF Found, Used, Unsorted, Settled, Mine
<1> QED BY <1>1, <1>2, <1>3 DEF Answers

(* eblob_scan_base.                                                        *)
LEMMA ScanSafe ==
  ASSUME Inv, Inv', Safe, Scan
  PROVE Safe'
<1>1. /\ phase = "down" /\ data' = data /\ whole' = whole /\ acked' = acked /\ unsure' = unsure
  BY DEF Scan, observers
<1>2. CASE ~\A b \in Found : Openable(b)
  BY <1>2 DEF Scan, Safe
<1>3. CASE \A b \in Found : Openable(b)
  <2>1. phase' = "scanned"
    BY <1>3 DEF Scan
  <2>2. /\ \A k \in Keys : /\ op[k] = Idle /\ cache[k] = NoLoc /\ job = NoJob /\ Steady(k)
                           /\ \A b \in Bases : \A i :
                                 Answers(k, b, i) <=> b \in Found /\ i \in DOMAIN Used(b)
                                                      /\ Mine(k, Used(b)[i])
        /\ job = NoJob
    BY <1>1, RestAnswers DEF Inv, Resting
  <2>3. /\ \A k \in Keys : /\ op'[k] = Idle /\ cache'[k] = NoLoc /\ Steady(k)'
                           /\ \A b \in Bases : \A i :
                                 Answers(k, b, i)' <=> b \in Found' /\ i \in DOMAIN Used(b)'
                                                       /\ Mine(k, Used(b)'[i])
        /\ job' = NoJob
    <3>1. (Inv /\ phase # "up" =>
            \A k \in Keys : /\ op[k] = Idle /\ cache[k] = NoLoc /\ job = NoJob /\ Steady(k)
                            /\ \A b \in Bases : \A i :
                                  Answers(k, b, i) <=> b \in Found /\ i \in DOMAIN Used(b)
                                                       /\ Mine(k, Used(b)[i]))'
      BY RestAnswers, PTL
    <3> HIDE DEF Answers, Found, Used, Mine, Steady
    <3>2. job' = NoJob
      BY <2>1 DEF Inv, Resting
    <3> QED BY <2>1, <3>1, <3>2 DEF Mine
  <2>4. Taking' /\ Landing' /\ (\A k : ~Merged(k)' /\ ~Moved(k)')
    <3>1. (job = NoJob => Taking /\ Landing /\ \A k : ~Merged(k) /\ ~Moved(k))'
      BY NoMerge, PTL
    <3> QED BY <2>3, <3>1
  <2>5. Flights'
    BY <2>1 DEF Flights
  <2>6. Found' = Found /\ (\A b, e : Within(b, e)' <=> Within(b, e))
    BY <1>1 DEF Found, Within
  <2>7. ASSUME NEW k \in Keys, NEW b \in Bases, NEW j, Answers(k, b, j)', NEW f, Permuted(b, f)
        PROVE  f[j] \in Nat /\ Answers(k, b, f[j]) /\ j \in DOMAIN Used(b)
    <3>1. b \in Found /\ j \in DOMAIN Used(b)' /\ Mine(k, Used(b)'[j])
      BY <2>3, <2>6, <2>7
    <3>2. j \in DOMAIN Used(b) /\ f[j] \in DOMAIN Used(b) /\ Mine(k, Used(b)[f[j]])
      BY <2>7, <3>1 DEF Permuted, Mine
    <3>3. PICK s \in Seq(SoundEntry) : s = Used(b)
      BY NowFrames DEF Frames
    <3>4. f[j] \in Nat
      BY <3>2, <3>3, SeqIs
    <3> QED BY <2>2, <3>1, <3>2, <3>4
  <2>8. ASSUME NEW k \in Keys \ unsure PROVE Survives(k)'
    <3>1. Survives(k)
      BY <1>1, <2>2, NoMerge DEF Safe
    <3>2. CASE acked[k] = 0
      <4>1. ASSUME NEW b \in Bases, NEW j \in Nat, Answers(k, b, j)' PROVE FALSE
        <5>1. b \in Found
          BY <2>3, <2>6, <4>1
        <5>2. PICK f : Permuted(b, f)
          BY <1>3, <5>1, ScanPermutes
        <5>3. f[j] \in Nat /\ Answers(k, b, f[j])
          BY <2>7, <4>1, <5>2
        <5> QED BY <3>1, <3>2, <5>3 DEF Survives, Absent
      <4>2. Absent(k)'
        <5> HIDE DEF Answers
        <5> QED BY <2>3, <4>1, IdleFields DEF Absent
      <4> HIDE DEF Absent
      <4> QED BY <1>1, <3>2, <4>2 DEF Survives
    <3>3. CASE acked[k] # 0
      <4>1. PICK b \in Bases, i \in Nat : Recorded(k, b, i)
        BY <2>2, <3>1, <3>3 DEF Survives
      <4>2. Answers(k, b, i) /\ Holds(k, b, i) /\ Spared(k, b) /\ Alone(k, b, i)
        BY <4>1 DEF Recorded
      <4>3. b \in Found /\ i \in DOMAIN Used(b) /\ Mine(k, Used(b)[i])
        BY <2>2, <4>2
      <4>4. PICK f : Permuted(b, f)
        BY <1>3, <4>3, ScanPermutes
      <4>5. /\ ~ToSort(b) => Used(b)' = Used(b) /\ sorted'[b] = sorted[b]
            /\ ToSort(b) => sorted'[b] # NoFile
        BY <1>3, <4>3, ScanPermutes
      <4>6. PICK p \in DOMAIN Used(b) : Used(b)'[p] = Used(b)[i] /\ f[p] = i /\ p \in DOMAIN Used(b)'
        BY <4>3, <4>4 DEF Permuted
      <4>7. p \in Nat
        <5>1. PICK s \in Seq(SoundEntry) : s = Used(b)
          BY NowFrames DEF Frames
        <5> QED BY <4>6, <5>1, SeqIs
      <4>8. Answers(k, b, p)'
        <5> HIDE DEF Answers, Mine
        <5> QED BY <2>3, <2>6, <4>3, <4>6
      <4>9. Alone(k, b, p)'
        <5> SUFFICES ASSUME NEW x \in Bases, NEW j \in Nat, Answers(k, x, j)' PROVE x = b /\ j = p
          BY DEF Alone
        <5>1. x \in Found
          BY <2>3, <2>6
        <5>2. PICK h : Permuted(x, h)
          BY <1>3, <5>1, ScanPermutes
        <5>3. h[j] \in Nat /\ Answers(k, x, h[j])
          BY <2>7, <5>2
        <5>4. x = b
          BY <4>2, <5>3 DEF Alone
        <5>5. f[j] \in Nat /\ Answers(k, b, f[j]) /\ j \in DOMAIN Used(b)
          BY <2>7, <4>4, <5>4
        <5>6. f[j] = i
          BY <4>2, <5>5 DEF Alone
        <5> QED BY <4>4, <4>6, <5>4, <5>5, <5>6 DEF Permuted
      <4>10. /\ Used(b)[i].pos \in DOMAIN data[b] /\ data[b][Used(b)[i].pos].ver = acked[k]
             /\ Within(b, Used(b)[i])
        BY <4>2 DEF Holds
      <4>11. Holds(k, b, p)' /\ Spared(k, b)'
        <5>1. CASE ToSort(b)
          <6>1. sorted'[b] # NoFile
            BY <4>5, <5>1
          <6>2. Holds(k, b, p)'
            <7> HIDE DEF Within, Used, Unsorted, Filled
            <7> QED BY <1>1, <2>1, <2>6, <4>6, <4>10, <6>1 DEF Holds
          <6> QED BY <6>1, <6>2 DEF Spared
        <5>2. CASE ~ToSort(b)
          <6>1. Used(b)' = Used(b) /\ sorted'[b] = sorted[b]
            BY <4>5, <5>2
          <6>2. Answers(k, b, p)
            <7> HIDE DEF Answers, Mine
            <7> QED BY <2>2, <4>3, <4>6, <6>1
          <6>3. p = i
            BY <4>2, <4>7, <6>2 DEF Alone
          <6>4. Holds(k, b, p)'
            <7> HIDE DEF Within, Used, Unsorted, Filled
            <7> QED BY <1>1, <2>1, <2>6, <4>2, <6>1, <6>3 DEF Holds
          <6>5. Spared(k, b)'
            <7> HIDE DEF Within, Used, Found
            <7> QED BY <1>1, <2>1, <2>6, <4>2, <6>1 DEF Spared
          <6> QED BY <6>4, <6>5
        <5> QED BY <5>1, <5>2
      <4>12. Known(k, b, p)'
        BY <2>1 DEF Known
      <4>13. Recorded(k, b, p)'
        <5> HIDE DEF Answers, Holds, Spared, Known, Alone
        <5> QED BY <4>8, <4>9, <4>11, <4>12 DEF Recorded
      <4> HIDE DEF Recorded, Steady
      <4> QED BY <1>1, <2>3, <3>3, <4>7, <4>13 DEF Survives
    <3> QED BY <3>2, <3>3
  <2> HIDE DEF Flights, Taking, Landing, Merged, Moved, Survives
  <2> QED BY <1>1, <2>4, <2>5, <2>8 DEF Safe
<1> QED BY <1>2, <1>3


(* A record without another answers alone in the hash.                     *)
LEMMA LoadedAt ==
  ASSUME Inv, phase = "scanned", \A c \in Unsorted : Loadable(c), NEW k \in Keys,
         NEW b \in Unsorted, NEW i, i \in DOMAIN index[b], i <= Parsed(b), Mine(k, index[b][i]),
         \A c \in Unsorted : \A j \in DOMAIN index[c] : Mine(k, index[c][j]) => c = b /\ j = i
  PROVE Loaded(k) = [base |-> b, at |-> i, pos |-> index[b][i].pos]
<1> DEFINE at == [c \in Unsorted |-> {j \in Live(IndexFile(c), k) : j <= Parsed(c)}]
           bs == {c \in Unsorted : at[c] # {}}
<1>1. ASSUME NEW c \in Unsorted PROVE IndexFile(c) = index[c] /\ c \in Bases /\ index[c] \in Seq(SoundEntry)
  BY ReadIs DEF Read
<1>2. \A c \in Unsorted : at[c] = {j \in DOMAIN index[c] : Mine(k, index[c][j]) /\ j <= Parsed(c)}
  BY <1>1 DEF Live, Mine
<1> HIDE DEF at
<1>3. at[b] = {i}
  BY <1>2
<1>4. \A c \in Unsorted : at[c] # {} => c = b
  BY <1>2
<1>5. bs = {b}
  BY <1>3, <1>4
<1>6. b \in Nat /\ i \in Nat
  BY <1>1, SeqIs, BaseIs
<1>7. Max({b}) = b /\ Max({i}) = i
  BY <1>6, MaxOf
<1>8. Loaded(k) = IF bs = {} THEN NoLoc
                  ELSE LET c == Max(bs) IN
                       [base |-> c, at |-> Max(at[c]), pos |-> IndexFile(c)[Max(at[c])].pos]
  BY DEF Loaded, at
<1> HIDE DEF bs
<1>9. bs # {} /\ Max(bs) = b /\ Max(at[b]) = i
  BY <1>3, <1>5, <1>7
<1> QED BY <1>1, <1>8, <1>9

(* What is parsed is within the data file, what comes next is not.         *)
LEMMA ParsedIs ==
  ASSUME Inv, phase = "scanned", NEW b \in Unsorted, Loadable(b),
         NEW s, s = Complete(index[b]), NEW n, n = Parsed(b)
  PROVE /\ \A j \in DOMAIN index[b] : j <= n => Within(b, index[b][j])
        /\ n < Len(s) => /\ n \in DOMAIN index[b] /\ n + 1 \in DOMAIN index[b]
                         /\ ~Within(b, index[b][n + 1])
<1>1. Read(b, s, n)
  BY ReadIs
<1>2. PICK x \in Seq(SoundEntry) : x = index[b]
  BY <1>1 DEF Read
<1>3. /\ s \in Seq(SoundEntry) /\ Len(s) <= Len(x) /\ n \in Nat /\ n <= Len(s)
      /\ IndexFile(b) = x /\ s = Complete(x) /\ (n < Len(s) => n # 0)
  BY <1>1, <1>2 DEF Read
<1>4. Len(s) \in Nat /\ Len(x) \in Nat /\ DOMAIN x = 1 .. Len(x)
  BY <1>3, SeqIs
<1>5. PICK T \in SUBSET Nat : T = Torn(b)
  <2>1. Torn(b) \subseteq 1 .. Len(x)
    BY <1>3, <1>4 DEF Torn
  <2>2. Torn(b) \subseteq Nat
    BY <1>4, <2>1
  <2> QED BY <2>2
<1>6. T = {j \in DOMAIN x : ~Within(b, x[j])}
  BY <1>3, <1>5 DEF Torn
<1>7. n = IF T = {} THEN Len(s) ELSE Min(T) - 1
  BY <1>3, <1>5 DEF Parsed
<1> HIDE DEF Within
<1>8. CASE T = {}
  BY <1>2, <1>3, <1>4, <1>6, <1>7, <1>8
<1>9. CASE T # {}
  <2>1. PICK m \in Nat : m = Min(T) /\ m \in T /\ \A y \in T : m <= y
    BY <1>9, MinOf
  <2>2. n + 1 = m
    BY <1>3, <1>7, <1>9, <2>1
  <2>3. n + 1 \in DOMAIN x /\ ~Within(b, x[n + 1])
    BY <1>6, <2>1, <2>2
  <2>4. \A j \in DOMAIN x : j <= n => Within(b, x[j])
    BY <1>3, <1>4, <1>6, <2>1, <2>2
  <2>5. n < Len(s) => n \in DOMAIN x
    BY <1>3, <1>4
  <2> QED BY <1>2, <2>3, <2>4, <2>5
<1> QED BY <1>8, <1>9

(* What the load makes of an unsorted base.                                *)
LEMMA RepairIs ==
  ASSUME Inv, Load, \A c \in Unsorted : Loadable(c), NEW b \in Unsorted,
         NEW s, s = Complete(index[b]), NEW n, n = Parsed(b), NEW t, t = index'[b]
  PROVE /\ b \in Bases /\ t \in Seq(SoundEntry) /\ indexSize'[b] = Len(s) /\ Read(b, s, n)
        /\ \A j \in DOMAIN t : j \in DOMAIN index[b] /\ t[j] = index[b][j] /\ j <= n /\ j <= Len(s)
        /\ DOMAIN t = IF n = Len(s) THEN 1 .. n ELSE 1 .. (n - 1)
        /\ dataOffset'[b] = IF n < Len(s)
                            THEN IF index[b][n].key = 0 THEN 1 ELSE index[b][n].pos
                            ELSE Len(data[b])
<1>1. phase = "scanned"
  BY DEF Load
<1>2. b \in Bases /\ Read(b, s, n)
  BY <1>1, ReadIs
<1>3. PICK x \in Seq(SoundEntry) : x = index[b]
  BY <1>2 DEF Read
<1>4. /\ s \in Seq(SoundEntry) /\ Len(s) <= Len(x) /\ n \in Nat /\ n <= Len(s)
      /\ IndexFile(b) = x /\ s = Complete(x) /\ (n < Len(s) => n # 0)
      /\ \A j \in 1 .. Len(s) : s[j] = x[j]
  BY <1>2, <1>3 DEF Read
<1>5. Len(s) \in Nat /\ Len(x) \in Nat /\ DOMAIN x = 1 .. Len(x) /\ DOMAIN s = 1 .. Len(s)
  BY <1>4, SeqIs
<1>6. /\ index'[b] = RepairedIndex(b) /\ indexSize'[b] = Len(Complete(IndexFile(b)))
      /\ dataOffset'[b] = IF Parsed(b) < Len(Complete(IndexFile(b)))
                          THEN RepairedOffset(b) ELSE Len(data[b])
  BY <1>2 DEF Load
<1>7. indexSize'[b] = Len(s)
  BY <1>4, <1>6
<1>8. dataOffset'[b] = IF n < Len(s) THEN IF x[n].key = 0 THEN 1 ELSE x[n].pos ELSE Len(data[b])
  BY <1>4, <1>6 DEF RepairedOffset
<1>9. t = IF n = Len(s) THEN s ELSE SubSeq(s, 1, n - 1)
  BY <1>4, <1>6 DEF RepairedIndex
<1>10. CASE n = Len(s)
  <2>1. t = s
    BY <1>9, <1>10
  <2> QED BY <1>2, <1>3, <1>4, <1>5, <1>7, <1>8, <1>10, <2>1
<1>11. CASE n # Len(s)
  <2>1. PICK m \in Nat : m = n - 1 /\ m <= Len(s)
    BY <1>4, <1>5, <1>11
  <2>2. t = SubSeq(s, 1, m)
    BY <1>9, <1>11, <2>1
  <2>3. t \in Seq(SoundEntry) /\ Len(t) = m /\ \A j \in 1 .. m : t[j] = s[j]
    BY <1>4, <2>1, <2>2, PrefixIs
  <2>4. DOMAIN t = 1 .. m
    BY <2>3, SeqIs
  <2>5. \A j \in 1 .. m : j \in 1 .. Len(s) /\ j \in 1 .. Len(x) /\ j <= n
    BY <1>4, <1>5, <2>1
  <2>6. \A j \in DOMAIN t : j \in DOMAIN x /\ t[j] = x[j] /\ j <= n /\ j <= Len(s)
    BY <1>4, <1>5, <2>3, <2>4, <2>5
  <2>7. DOMAIN t = IF n = Len(s) THEN 1 .. n ELSE 1 .. (n - 1)
    BY <1>11, <2>1, <2>4
  <2> QED BY <1>2, <1>3, <1>7, <1>8, <2>3, <2>6, <2>7
<1> QED BY <1>10, <1>11


(* The load cuts no record off that the crash has left alone, and the next *)
(* append goes behind it.                                                  *)
LEMMA RepairSpares ==
  ASSUME Inv, Load, \A c \in Unsorted : Loadable(c), NEW b \in Unsorted, b \in Found,
         NEW k \in Keys, NEW i, i \in DOMAIN index[b], Mine(k, index[b][i]),
         Holds(k, b, i), Spared(k, b)
  PROVE /\ i \in DOMAIN index'[b] /\ i <= Parsed(b) /\ index[b][i].pos <= dataOffset'[b]
        /\ \A j \in DOMAIN index'[b] : /\ j < i => Within(b, index[b][j])
                                       /\ j > i /\ index[b][j].key # 0 => index[b][i].pos < index[b][j].pos
<1>1. phase = "scanned" /\ Types /\ OpenFiles /\ Resting
  BY DEF Load, Inv
<1>2. PICK s : s = Complete(index[b])
  OBVIOUS
<1>3. PICK n : n = Parsed(b)
  OBVIOUS
<1>4. PICK t : t = index'[b]
  OBVIOUS
<1>5. /\ b \in Bases /\ t \in Seq(SoundEntry) /\ indexSize'[b] = Len(s) /\ Read(b, s, n)
      /\ \A j \in DOMAIN t : j \in DOMAIN index[b] /\ t[j] = index[b][j] /\ j <= n
      /\ DOMAIN t = IF n = Len(s) THEN 1 .. n ELSE 1 .. (n - 1)
      /\ dataOffset'[b] = IF n < Len(s)
                          THEN IF index[b][n].key = 0 THEN 1 ELSE index[b][n].pos
                          ELSE Len(data[b])
  BY <1>2, <1>3, <1>4, RepairIs
<1>6. PICK x \in Seq(SoundEntry) : x = index[b]
  BY <1>5 DEF Read
<1>7. /\ s \in Seq(SoundEntry) /\ n \in Nat /\ n <= Len(s) /\ sorted[b] = NoFile
      /\ data[b] \in Seq(Cell) /\ s = Complete(x) /\ (n < Len(s) => n # 0)
      /\ b # LastBase => Len(s) = 0
  BY <1>5, <1>6 DEF Read
<1>8. Len(s) \in Nat /\ Len(x) \in Nat /\ DOMAIN x = 1 .. Len(x) /\ Len(data[b]) \in Nat
      /\ DOMAIN data[b] = 1 .. Len(data[b])
  BY <1>7, SeqIs
<1>9. /\ \A j \in DOMAIN x : j <= n => Within(b, x[j])
      /\ n < Len(s) => n \in DOMAIN x /\ n + 1 \in DOMAIN x /\ ~Within(b, x[n + 1])
  BY <1>1, <1>2, <1>3, <1>6, ParsedIs
<1>10. Used(b) = x
  BY <1>6, <1>7, FilesDiffer DEF Used, Created
<1>11. /\ i \in DOMAIN x /\ x[i].key = k /\ ~x[i].removed /\ k # 0
       /\ x[i].pos \in DOMAIN data[b] /\ Within(b, x[i])
       /\ \A j \in DOMAIN x : /\ j < i => Within(b, x[j])
                              /\ j > i /\ x[j].key # 0 => x[i].pos < x[j].pos
  BY <1>6, <1>7, <1>10, KeysAssumption DEF Mine, Holds
<1>12. i <= Len(s) /\ i \in Nat
  <2>1. \A j \in 1 .. Len(x) : j > Len(s) => x[j].key = 0 /\ x[j].removed
    BY <1>7, CompleteIs
  <2> QED BY <1>8, <1>11, <2>1
<1>13. x[i].pos \in Nat /\ x[i].pos <= Len(data[b])
  BY <1>8, <1>11
<1> HIDE DEF Within
<1>14. CASE n = Len(s)
  <2>1. i \in DOMAIN t
    BY <1>5, <1>7, <1>8, <1>11, <1>12, <1>14
  <2>2. dataOffset'[b] = Len(data[b])
    BY <1>5, <1>7, <1>8, <1>14
  <2> QED BY <1>3, <1>4, <1>5, <1>6, <1>11, <1>12, <1>13, <1>14, <2>1, <2>2
<1>15. CASE n # Len(s)
  <2>1. n < Len(s) /\ n # 0
    BY <1>7, <1>8, <1>15
  <2>2. n \in DOMAIN x /\ n + 1 \in DOMAIN x /\ ~Within(b, x[n + 1])
    BY <1>9, <2>1
  <2>3. i <= n
    <3>1. CASE i = n + 1
      BY <1>11, <2>2, <3>1
    <3>2. CASE i > n + 1
      BY <1>11, <2>2, <3>2
    <3> QED BY <1>7, <1>12, <3>1, <3>2
  <2>4. x[n].key \notin {0, k}
    <3>1. b = LastBase
      BY <1>7, <1>8, <2>1
    <3>2. \A c \in Found : c <= b
      <4>1. job.group = {}
        BY <1>1 DEF Resting, NoJob
      <4>2. Found \subseteq open
        BY <1>1, <4>1 DEF OpenFiles, Serving
      <4>3. \A c \in open : c <= LastBase
        BY <1>1, LastBaseIs DEF Types, Unsorted
      <4> QED BY <3>1, <4>2, <4>3
    <3>3. Len(x) < RecordsInBlob
      BY <1>1, <1>6 DEF Resting
    <3>4. \A j \in DOMAIN x : j <= n => Within(b, x[j])
      BY <1>9
    <3> QED BY <1>1, <1>7, <1>10, <2>2, <3>2, <3>3, <3>4 DEF Spared
  <2>5. i < n
    BY <1>7, <1>11, <1>12, <2>3, <2>4
  <2>6. i \in DOMAIN t
    BY <1>5, <1>7, <1>8, <1>11, <1>12, <1>15, <2>5
  <2>7. dataOffset'[b] = x[n].pos
    BY <1>5, <1>6, <2>1, <2>4
  <2>8. x[i].pos < x[n].pos
    BY <1>11, <2>2, <2>4, <2>5
  <2>9. x[n].pos \in Nat
    BY <2>2, <1>8, SeqIs, EntryIs
  <2>10. x[i].pos <= x[n].pos
    BY <1>13, <2>8, <2>9
  <2> QED BY <1>3, <1>4, <1>5, <1>6, <1>11, <2>3, <2>6, <2>7, <2>10
<1> QED BY <1>14, <1>15

(* eblob_iterate_existing, and the repair of the last base.                *)
LEMMA LoadSafe ==
  ASSUME Inv, Inv', Safe, Load
  PROVE Safe'
<1>1. /\ phase = "scanned" /\ data' = data /\ whole' = whole /\ acked' = acked /\ unsure' = unsure
      /\ sorted' = sorted /\ open' = open /\ sortFd' = sortFd /\ op' = op /\ job' = job
      /\ mutex' = mutex
  BY DEF Load, observers
<1>2. CASE ~\A b \in Unsorted : Loadable(b)
  BY <1>2 DEF Load, Safe
<1>3. CASE \A b \in Unsorted : Loadable(b)
  <2>1. phase' = "up" /\ cache' = [k \in Keys |-> Loaded(k)]
    BY <1>3 DEF Load
  <2>2. /\ \A k \in Keys : /\ op[k] = Idle /\ Steady(k)
                           /\ \A b \in Bases : \A i :
                                 Answers(k, b, i) <=> b \in Found /\ i \in DOMAIN Used(b)
                                                      /\ Mine(k, Used(b)[i])
        /\ job = NoJob /\ mutex = Nobody
    BY <1>1, RestAnswers DEF Inv, Resting
  <2>3. Taking' /\ Landing' /\ (\A k : ~Merged(k)' /\ ~Moved(k)')
    <3>1. (job = NoJob => Taking /\ Landing /\ \A k : ~Merged(k) /\ ~Moved(k))'
      BY NoMerge, PTL
    <3> QED BY <1>1, <2>2, <3>1
  <2>4. Found' = Found /\ Unsorted' = Unsorted /\ (\A b, e : Within(b, e)' <=> Within(b, e))
        /\ \A k : Steady(k)' <=> Steady(k)
    BY <1>1 DEF Found, Unsorted, Within, Steady
  <2>5. \A b : Settled(b)' = indexSize'[b] /\ Filled(b)' = dataOffset'[b]
    <3>1. \A k \in Keys : mutex' # k
      BY <1>1, <2>2, NamesAssumption
    <3> QED BY <3>1 DEF Settled, Filled, Holding
  <2>6. ASSUME NEW b \in Unsorted
        PROVE  /\ b \in Bases /\ b \in Found /\ sorted[b] = NoFile
               /\ Used(b) = index[b] /\ Used(b)' = index'[b]
               /\ index[b] \in Seq(SoundEntry) /\ index'[b] \in Seq(SoundEntry)
               /\ indexSize'[b] \in Nat
               /\ \A j \in DOMAIN index'[b] :
                     /\ j \in DOMAIN index[b] /\ index'[b][j] = index[b][j]
                     /\ j <= Parsed(b) /\ j <= indexSize'[b] /\ Within(b, index[b][j])
    <3>1. PICK s : s = Complete(index[b])
      OBVIOUS
    <3>2. PICK n : n = Parsed(b)
      OBVIOUS
    <3>3. PICK t : t = index'[b]
      OBVIOUS
    <3>4. /\ b \in Bases /\ t \in Seq(SoundEntry) /\ indexSize'[b] = Len(s) /\ Read(b, s, n)
          /\ \A j \in DOMAIN t : j \in DOMAIN index[b] /\ t[j] = index[b][j] /\ j <= n /\ j <= Len(s)
      BY <1>3, <3>1, <3>2, <3>3, RepairIs
    <3>5. \A j \in DOMAIN index[b] : j <= n => Within(b, index[b][j])
      BY <1>1, <1>3, <3>1, <3>2, ParsedIs
    <3>6. sorted[b] = NoFile /\ index[b] \in Seq(SoundEntry) /\ data[b] \in Seq(Cell) /\ Len(s) \in Nat
      <4>1. sorted[b] = NoFile /\ index[b] \in Seq(SoundEntry) /\ data[b] \in Seq(Cell) /\ s \in Seq(SoundEntry)
        BY <3>4 DEF Read
      <4> QED BY <4>1, SeqIs
    <3>7. b \in Found
      BY <3>4, <3>6, FilesDiffer DEF Found
    <3>8. Used(b) = index[b]
      BY <3>6, FilesDiffer DEF Used, Created
    <3>9. Used(b)' = index'[b]
      BY <1>1, <3>3, <3>4, <3>6, FilesDiffer DEF Used, Created
    <3> HIDE DEF Within, Used
    <3> QED BY <3>2, <3>3, <3>4, <3>5, <3>6, <3>7, <3>8, <3>9
  <2>7. ASSUME NEW b \in Bases, b \notin Unsorted PROVE Used(b)' = Used(b)
    <3>1. index'[b] = index[b]
      BY <1>3, <2>7 DEF Load
    <3> QED BY <1>1, <3>1 DEF Used, Created
  <2>8. Flights'
    <3> SUFFICES ASSUME NEW b \in Unsorted PROVE Lined(b)'
      BY <2>4 DEF Flights
    <3>1. \A k \in Keys : op'[k].base # b
      BY <1>1, <2>2, <2>6, IdleFields, BaseIs
    <3>2. Len(index'[b]) <= indexSize'[b] + 1
      <4>1. PICK t \in Seq(SoundEntry) : t = index'[b]
        BY <2>6
      <4>2. PICK z \in Nat : z = indexSize'[b]
        BY <2>6
      <4>3. \A j \in DOMAIN t : j <= z
        BY <2>6, <4>1, <4>2
      <4>4. Len(t) \in Nat /\ DOMAIN t = 1 .. Len(t)
        BY SeqIs
      <4>5. Len(t) <= z
        BY <4>3, <4>4
      <4>6. Len(t) <= z + 1
        BY <4>4, <4>5
      <4> QED BY <4>1, <4>2, <4>6
    <3>3. \A j \in DOMAIN index'[b] : Within(b, index[b][j])'
      <4>1. \A j \in DOMAIN index'[b] : Within(b, index[b][j]) /\ index'[b][j] = index[b][j]
        BY <2>6
      <4> QED BY <1>1, <4>1 DEF Within
    <3>4. Tidy(b)'
      <4> HIDE DEF Within, Settled, Filled
      <4> QED BY <2>5, <3>2, <3>3 DEF Tidy
    <3> HIDE DEF Tidy
    <3> QED BY <3>1, <3>4 DEF Lined
  <2>9. ASSUME NEW k \in Keys, NEW b \in Bases, NEW j, Answers(k, b, j)'
        PROVE  Answers(k, b, j) /\ Used(b)'[j] = Used(b)[j]
    <3>1. b \in Found /\ j \in DOMAIN Used(b)' /\ Mine(k, Used(b)'[j])
      BY <2>4, <2>9 DEF Answers, Mine
    <3>2. j \in DOMAIN Used(b) /\ Used(b)'[j] = Used(b)[j]
      <4>1. CASE b \in Unsorted
        BY <2>6, <3>1, <4>1
      <4>2. CASE b \notin Unsorted
        BY <2>7, <3>1, <4>2
      <4> QED BY <4>1, <4>2
    <3> HIDE DEF Answers, Mine
    <3> QED BY <2>2, <3>1, <3>2
  <2>10. ASSUME NEW k \in Keys, cache'[k] # NoLoc
         PROVE  \E b \in Unsorted : \E j \in Nat : b \in Bases /\ Answers(k, b, j)
    <3>1. PICK l : l = Loaded(k)
      OBVIOUS
    <3>2. l # NoLoc
      BY <2>1, <2>10, <3>1
    <3>3. PICK b : b = l.base
      OBVIOUS
    <3>4. l \in Location /\ b \in Unsorted /\ l.at \in DOMAIN index[b] /\ Mine(k, index[b][l.at])
      BY <1>1, <1>3, <3>1, <3>2, <3>3, LoadedIs
    <3>5. l.at \in Nat
      BY <3>4, LocFields
    <3>6. Answers(k, b, l.at)
      <4> HIDE DEF Answers, Mine
      <4> QED BY <2>2, <2>6, <3>4
    <3> HIDE DEF Answers
    <3> QED BY <2>6, <3>4, <3>5, <3>6
  <2>11. ASSUME NEW k \in Keys \ unsure PROVE Survives(k)'
    <3>1. Survives(k)
      BY <1>1, <2>2, NoMerge DEF Safe
    <3>2. CASE acked[k] = 0
      <4>1. \A b \in Bases : \A j \in Nat : ~Answers(k, b, j)
        BY <3>1, <3>2 DEF Survives, Absent
      <4> HIDE DEF Answers
      <4>2. cache'[k] = NoLoc
        BY <2>10, <4>1
      <4>3. Absent(k)'
        BY <1>1, <2>2, <2>9, <4>1, <4>2, IdleFields DEF Absent
      <4> HIDE DEF Absent
      <4> QED BY <1>1, <3>2, <4>3 DEF Survives
    <3>3. CASE acked[k] # 0
      <4>1. PICK b \in Bases, i \in Nat : Recorded(k, b, i)
        BY <2>2, <3>1, <3>3 DEF Survives
      <4>2. Answers(k, b, i) /\ Holds(k, b, i) /\ Spared(k, b) /\ Alone(k, b, i)
        BY <4>1 DEF Recorded
      <4>3. b \in Found /\ i \in DOMAIN Used(b) /\ Mine(k, Used(b)[i])
        BY <2>2, <4>2
      <4>4. \A c \in Bases : \A j \in Nat : Answers(k, c, j) => c = b /\ j = i
        BY <4>2 DEF Alone
      <4>5. Alone(k, b, i)'
        <5> HIDE DEF Answers
        <5> QED BY <2>9, <4>4 DEF Alone
      <4>6. Spared(k, b)'
        BY <2>1 DEF Spared
      <4>7. op'[k] = Idle /\ op'[k].base # b
        BY <1>1, <2>2, IdleFields, BaseIs
      <4>8. CASE b \notin Unsorted
        <5>1. Used(b)' = Used(b)
          BY <2>7, <4>8
        <5>2. Answers(k, b, i)'
          BY <2>4, <4>3, <4>7, <4>8, <5>1 DEF Answers, Mine
        <5>3. Holds(k, b, i)'
          <6> HIDE DEF Within, Used, Unsorted, Filled
          <6> QED BY <1>1, <2>4, <4>2, <4>8, <5>1 DEF Holds
        <5>4. cache'[k] = NoLoc
          <6> HIDE DEF Answers
          <6> QED BY <2>10, <4>4, <4>8
        <5>5. Known(k, b, i)'
          BY <2>4, <4>7, <4>8, <5>4 DEF Known
        <5>6. Recorded(k, b, i)'
          <6> HIDE DEF Answers, Holds, Spared, Known, Alone
          <6> QED BY <4>5, <4>6, <5>2, <5>3, <5>5 DEF Recorded
        <5> HIDE DEF Recorded, Steady
        <5> QED BY <1>1, <3>3, <5>6, <2>2, <2>4 DEF Survives
      <4>9. CASE b \in Unsorted
        <5>1. /\ sorted[b] = NoFile /\ Used(b) = index[b] /\ Used(b)' = index'[b]
              /\ \A j \in DOMAIN index'[b] :
                    /\ j \in DOMAIN index[b] /\ index'[b][j] = index[b][j]
                    /\ j <= Parsed(b) /\ j <= indexSize'[b]
          BY <2>6, <4>9
        <5>2. i \in DOMAIN index[b] /\ Mine(k, index[b][i])
          BY <4>3, <5>1
        <5>3. /\ i \in DOMAIN index'[b] /\ i <= Parsed(b) /\ index[b][i].pos <= dataOffset'[b]
              /\ \A j \in DOMAIN index'[b] :
                    /\ j < i => Within(b, index[b][j])
                    /\ j > i /\ index[b][j].key # 0 => index[b][i].pos < index[b][j].pos
          BY <1>3, <4>2, <4>3, <4>9, <5>2, RepairSpares
        <5>4. /\ index[b][i].pos \in DOMAIN data[b] /\ data[b][index[b][i].pos].ver = acked[k]
              /\ Within(b, index[b][i])
          BY <4>2, <5>1 DEF Holds
        <5>5. Answers(k, b, i)'
          <6> HIDE DEF Settled
          <6> QED BY <2>4, <2>5, <4>3, <4>7, <5>1, <5>2, <5>3 DEF Answers, Mine
        <5>6. Holds(k, b, i)'
          <6> HIDE DEF Within, Used, Unsorted, Filled
          <6> QED BY <1>1, <2>4, <2>5, <5>1, <5>3, <5>4 DEF Holds
        <5>7. \A c \in Unsorted : \A j \in DOMAIN index[c] : Mine(k, index[c][j]) => c = b /\ j = i
          <6> SUFFICES ASSUME NEW c \in Unsorted, NEW j \in DOMAIN index[c], Mine(k, index[c][j])
                       PROVE  c = b /\ j = i
            OBVIOUS
          <6>1. c \in Bases /\ c \in Found /\ Used(c) = index[c] /\ index[c] \in Seq(SoundEntry)
            BY <2>6
          <6>2. j \in Nat
            BY <6>1, SeqIs
          <6>3. Answers(k, c, j)
            <7> HIDE DEF Answers, Mine
            <7> QED BY <2>2, <6>1
          <6> HIDE DEF Answers
          <6> QED BY <4>4, <6>1, <6>2, <6>3
        <5>8. Loaded(k) = [base |-> b, at |-> i, pos |-> index[b][i].pos]
          BY <1>1, <1>3, <4>9, <5>2, <5>3, <5>7, LoadedAt
        <5>9. Loc(b, i)' = Loaded(k)
          BY <5>1, <5>3, <5>8 DEF Loc
        <5>10. Known(k, b, i)'
          <6> HIDE DEF Loc, Unsorted
          <6> QED BY <2>1, <2>4, <4>7, <4>9, <5>9 DEF Known
        <5>11. Recorded(k, b, i)'
          <6> HIDE DEF Answers, Holds, Spared, Known, Alone
          <6> QED BY <4>5, <4>6, <5>5, <5>6, <5>10 DEF Recorded
        <5> HIDE DEF Recorded, Steady
        <5> QED BY <1>1, <3>3, <5>11, <2>2, <2>4 DEF Survives
      <4> QED BY <4>8, <4>9
    <3> QED BY <3>2, <3>3
  <2> HIDE DEF Flights, Taking, Landing, Merged, Moved, Survives
  <2> QED BY <1>1, <2>3, <2>8, <2>11 DEF Safe
<1> QED BY <1>2, <1>3


(* A stuttering step.                                                      *)
LEMMA StutterSafe ==
  ASSUME Safe, UNCHANGED vars
  PROVE Safe'
<1>1. /\ data' = data /\ whole' = whole /\ index' = index /\ sorted' = sorted /\ chunk' = chunk
      /\ phase' = phase /\ open' = open /\ sortFd' = sortFd /\ cache' = cache
      /\ dataOffset' = dataOffset /\ indexSize' = indexSize /\ op' = op /\ mutex' = mutex
      /\ job' = job /\ acked' = acked /\ unsure' = unsure
  BY DEF vars, files, memory, observers
<1>2. /\ Found' = Found /\ Unsorted' = Unsorted
      /\ \A b : Used(b)' = Used(b) /\ Settled(b)' = Settled(b) /\ Filled(b)' = Filled(b)
      /\ \A b, e : Within(b, e)' <=> Within(b, e)
  BY <1>1 DEF Found, Unsorted, Used, Settled, Filled, Holding, Within
<1>3. Flights => Flights'
  <2>1. \A b : Tidy(b)' <=> Tidy(b)
    BY <1>1, <1>2 DEF Tidy, Within
  <2>2. \A k, b, o : InLine(k, b, o)' <=> InLine(k, b, o)
    BY <1>1, <1>2 DEF InLine, Within
  <2> HIDE DEF Tidy, InLine
  <2> QED BY <1>1, <1>2, <2>1, <2>2 DEF Flights, Lined
<1>4. \A k, b, i : Answers(k, b, i)' <=> Answers(k, b, i)
  BY <1>1, <1>2 DEF Answers, Mine
<1>5. \A k, b, i : Holds(k, b, i)' <=> Holds(k, b, i)
  BY <1>1, <1>2 DEF Holds, Within
<1>6. ASSUME NEW k, NEW b PROVE Spared(k, b)' <=> Spared(k, b)
  <2>1. Used(b)' = Used(b) /\ \A e : Within(b, e)' <=> Within(b, e)
    BY <1>2
  <2> HIDE DEF Used, Within, Found
  <2> QED BY <1>1, <1>2, <2>1 DEF Spared
<1>7. \A b, i : Loc(b, i)' = Loc(b, i)
  BY <1>2 DEF Loc
<1>8. \A k, b, i : Known(k, b, i)' <=> Known(k, b, i)
  <2> HIDE DEF Loc
  <2> QED BY <1>1, <1>2, <1>7 DEF Known
<1>9. \A k, b, i : Alone(k, b, i)' <=> Alone(k, b, i)
  <2> HIDE DEF Answers
  <2> QED BY <1>4 DEF Alone
<1>10. \A k : (Steady(k)' <=> Steady(k)) /\ (Absent(k)' <=> Absent(k))
  <2>1. \A k : Steady(k)' <=> Steady(k)
    BY <1>1 DEF Steady
  <2> HIDE DEF Answers, Steady
  <2> QED BY <1>1, <1>4, <2>1 DEF Absent
<1>11. \A k : Survives(k)' <=> Survives(k)
  <2>1. \A k, b, i : Recorded(k, b, i)' <=> Recorded(k, b, i)
    <3> HIDE DEF Answers, Holds, Spared, Known, Alone
    <3> QED BY <1>4, <1>5, <1>6, <1>8, <1>9 DEF Recorded
  <2> HIDE DEF Recorded, Steady, Absent
  <2> QED BY <1>1, <1>10, <2>1 DEF Survives
<1>12. /\ Merges' <=> Merges
       /\ \A k : (Merged(k)' <=> Merged(k)) /\ (Moved(k)' <=> Moved(k)) /\ (Carries(k)' <=> Carries(k))
  BY <1>1 DEF Merges, Merged, Moved, Carries, Live
<1>13. \A k : Carried(k)' <=> Carried(k)
  <2> HIDE DEF Answers, Carries
  <2> QED BY <1>1, <1>4, <1>12 DEF Carried
<1>14. (Taking => Taking') /\ (Landing => Landing')
  <2> HIDE DEF Merged, Merges
  <2> QED BY <1>1, <1>2, <1>12 DEF Taking, Landing, Mine
<1> HIDE DEF Flights, Taking, Landing, Survives, Merged, Moved, Carried
<1> QED BY <1>1, <1>3, <1>11, <1>12, <1>13, <1>14 DEF Safe

(* Every step of the specification is safe.                                *)
LEMMA NextSafe ==
  ASSUME Inv, Inv', Safe, [Next]_vars
  PROVE Safe'
<1> HIDE DEF Inv, Safe
<1>1. CASE \E k \in Keys : WriteBegin(k)
  BY <1>1, WriteBeginSafe
<1>2. CASE \E k \in Keys : WriteIndex(k)
  BY <1>2, WriteIndexSafe
<1>3. CASE \E k \in Keys : WriteHeader(k)
  BY <1>3, WriteHeaderSafe
<1>4. CASE \E k \in Keys : Rollback(k)
  BY <1>4, RollbackSafe
<1>5. CASE \E k \in Keys : RemoveBegin(k)
  BY <1>5, RemoveBeginSafe
<1>6. CASE \E k \in Keys : MarkIndex(k)
  BY <1>6, MarkIndexSafe
<1>7. CASE \E k \in Keys : MarkData(k)
  BY <1>7, MarkDataSafe
<1>8. CASE \E k \in Keys : NothingToMark(k)
  BY <1>8, NothingToMarkSafe
<1>9. CASE \E k \in Keys : WriteCommit(k)
  BY <1>9, WriteCommitSafe
<1>10. CASE \E b \in Bases : IndexSort(b)
  BY <1>10, IndexSortSafe
<1>11. CASE \E g \in SUBSET Bases : SwapBegin(g)
  BY <1>11, SwapBeginSafe
<1>12. CASE \E b \in Bases : RemoveBase(b)
  BY <1>12, RemoveBaseSafe
<1>13. CASE DiskStep
  BY <1>13, DiskStepSafe
<1>14. CASE Crash
  BY <1>14, CrashSafe
<1>15. CASE Scan
  BY <1>15, ScanSafe
<1>16. CASE Load
  BY <1>16, LoadSafe
<1>17. CASE UNCHANGED vars
  BY <1>17, StutterSafe
<1> QED BY <1>1, <1>2, <1>3, <1>4, <1>5, <1>6, <1>7, <1>8, <1>9, <1>10, <1>11, <1>12,
           <1>13, <1>14, <1>15, <1>16, <1>17 DEF Next

(* In an empty store there is nothing to lose.                             *)
LEMMA InitSafe ==
  ASSUME Init
  PROVE Safe
<1>1. /\ data = [b \in Bases |-> NoFile] /\ open = {} /\ acked = [k \in Keys |-> 0]
      /\ op = [k \in Keys |-> Idle] /\ cache = [k \in Keys |-> NoLoc] /\ job = NoJob
  BY DEF Init
<1>2. Found = {} /\ Unsorted = {}
  BY <1>1 DEF Found, Unsorted
<1>3. Flights
  BY <1>2 DEF Flights
<1>4. Taking /\ Landing /\ \A k : ~Merged(k) /\ ~Moved(k)
  BY <1>1, NoMerge
<1>5. \A k, b, i : ~Answers(k, b, i)
  BY <1>2 DEF Answers
<1>6. \A k \in Keys : Absent(k)
  <2> HIDE DEF Answers
  <2> QED BY <1>1, <1>5, IdleFields DEF Absent
<1>7. \A k \in Keys : Survives(k)
  <2> HIDE DEF Absent
  <2> QED BY <1>1, <1>6 DEF Survives
<1> HIDE DEF Flights, Taking, Landing, Survives, Merged, Moved
<1> QED BY <1>3, <1>4, <1>7 DEF Safe

(* In every state, the record of every key that nothing has gone wrong     *)
(* with is where a lookup, the sorter or the next start will look for it.  *)
LEMMA SafeHolds == Spec => []Safe
<1>1. Init => Safe
  BY InitSafe
<1>2. Inv /\ Inv' /\ Safe /\ [Next]_vars => Safe'
  BY NextSafe
<1> QED BY <1>1, <1>2, InvHolds, PTL DEF Spec

(* A key none of whose operations a crash cut short, and whose record was  *)
(* in no window that the code does not survive, reads as its last          *)
(* acknowledged write or remove left it.  No index sort, merge, removal of *)
(* a base, failed reservation, crash at any of the system calls, or repair *)
(* by the next eblob_init loses its record, brings an older one back or    *)
(* lets another write take its slot.                                       *)
THEOREM RecordsSurvive == Spec => []SettledSurvive
<1>1. Inv /\ Safe => SettledSurvive
  <2> SUFFICES ASSUME Inv, Safe, phase = "up", job.todo = <<>>, NEW k \in Keys \ unsure, op[k] = Idle
               PROVE  Reads(k) = {acked[k]}
    BY DEF SettledSurvive
  <2>1. /\ \A l \in Locations(k) : \E b \in Bases : \E i \in Nat : Recorded(k, b, i) /\ l = Loc(b, i)
        /\ Survives(k) /\ (acked[k] # 0 => Locations(k) # {})
    <3> HIDE DEF Inv, Safe, Locations, Recorded, Survives, Loc
    <3> QED BY WhereIs
  <2>2. ASSUME NEW l \in Locations(k) PROVE Slot(l).ver = acked[k]
    <3>1. PICK b \in Bases, i \in Nat : Recorded(k, b, i) /\ l = Loc(b, i)
      BY <2>1
    <3>2. Answers(k, b, i) /\ Holds(k, b, i)
      BY <3>1 DEF Recorded
    <3>3. l.base = b /\ l.pos = Used(b)[i].pos
      BY <3>1, <3>2, LocOf
    <3>4. l.pos \in DOMAIN data[b] /\ data[b][l.pos].ver = acked[k]
      BY <3>2, <3>3 DEF Holds
    <3> QED BY <3>3, <3>4 DEF Slot
  <2>3. CASE Locations(k) = {}
    BY <2>1, <2>3 DEF Reads
  <2>4. CASE Locations(k) # {}
    <3>1. {Slot(l).ver : l \in Locations(k)} = {acked[k]}
      BY <2>2, <2>4
    <3> QED BY <2>4, <3>1 DEF Reads
  <2> QED BY <2>3, <2>4
<1> QED BY <1>1, InvHolds, SafeHolds, PTL
=============================================================================
