--------------------------- MODULE StateDirProofs ---------------------------
(***************************************************************************)
(* Proofs about the delivery watermarks (Marks) and the state directory    *)
(* around them (StateDir), for every set of rooms and messages and every   *)
(* assignment of timestamps.                                               *)
(*                                                                         *)
(* A step of the directory is, for the watermarks, a step of the daemon, a *)
(* start, the end of the process or nothing, so what holds of the          *)
(* watermarks is shown for those four.  The store, the identity and the    *)
(* copies have an inductive invariant each.                                *)
(***************************************************************************)
EXTENDS StateDir, FiniteSetTheorems, SequenceTheorems, TLAPS

\* The end of the process, as the watermarks see it.
Halt ==
    /\ Forgotten
    /\ mem' = Empty
    /\ UNCHANGED <<started, tmp, disk, acked, durable>>

MarksStep ==
    \/ Running /\ pc = "up"
    \/ Restart
    \/ Halt /\ pc' # "up"
    \/ UNCHANGED vars /\ (pc' = "up" => pc = "up")

\* The marks of m are acknowledged messages of their rooms.
Means(m) == \A r \in Room : m[r] # NoMark => m[r] \in acked /\ RoomOf[m[r]] = r

\* What every map of marks is made of, a snapshot on its way to the file included.
MarksInv ==
    /\ TypeOK
    /\ \A s \in Session : at[s] # "idle" => setting[s] \in Event
    /\ Means(mem)
    /\ \A s \in Session : Means(snap[s])
    /\ tmp \in Map => Means(tmp)
    /\ disk \in Map => Means(disk)
    /\ AckedStaysCovered

\* With one session the three steps of a write are not interleaved with another's: what
\* is renamed is the snapshot just written, which is the map in memory, and that one is
\* not behind any mark the file ever held.
WriterInv ==
    /\ \A s \in Session :
          /\ at[s] # "idle" => snap[s] = mem /\ Covers(mem, setting[s])
          /\ at[s] = "write" => fd[s] = "tmp" /\ tmp = Garbage
          /\ at[s] = "rename" => tmp = snap[s]
    /\ disk # Garbage
    /\ MarksStayOnDisk
    /\ pc = "up" => \A e \in durable : Covers(mem, e)

\* The store is made by the last login or is empty, and session.json is written by the
\* process that logged in.
DeviceInv ==
    /\ logins \in Nat
    /\ store \in {{}, {logins}}
    /\ session \notin {NoFile, Garbage} => session = logins /\ store = {logins}
    /\ ~opened => store = {}
    /\ pc = "built" => opened /\ (session = NoFile => store = {})
    /\ pc = "save" => session = NoFile /\ store = {logins}
    /\ pc = "write" => session = Garbage /\ store = {logins}

\* An identity of this store's keys has its keys in the store, and nobody is about to
\* replace it.
SigningInv ==
    /\ made \in Nat
    /\ 0 \notin own
    /\ identity \in own => keys = identity
    /\ pc \in {"replace", "upload"} => identity \notin own
    /\ pc = "upload" => keys # 0
    /\ pc = "tried" /\ identity \in own => signed

\* The draft of a backup is of a device that session.json still is of, and only the oldest of
\* too many copies is ever half removed.
BackupInv ==
    /\ copies \in Seq(BOOLEAN)
    /\ taken \in Nat
    /\ Len(copies) <= taken
    /\ Len(copies) >= taken \/ Len(copies) >= Keep
    /\ step \in {"off", "files", "prune", "remove"}
    /\ draft \in [store : SUBSET Nat, early : BOOLEAN]
    /\ step = "files" =>
          draft.early \/ (session \notin {NoFile, Garbage} /\ draft.store = {session})
    /\ step \in {"prune", "remove"} => Len(copies) > Keep
    /\ \A i \in 1..Len(copies) : i > 1 \/ Len(copies) <= Keep => copies[i]
-----------------------------------------------------------------------------
\* A step of the directory is one of the four for the watermarks.
LEMMA DirStepIsMarksStep ==
    ASSUME [DirNext]_dirVars
    PROVE  MarksStep
PROOF
  <1>1. CASE Serving
    BY <1>1 DEF Serving, MarksStep
  <1>2. CASE Serve
    BY <1>2 DEF Serve, MarksStep
  <1>3. CASE Stop
    BY <1>3 DEF Stop, MarksStep, Halt, Exits
  <1>4. CASE \/ \E c \in {"run", "reset"} : Prepare(c)
             \/ Build \/ Refuse \/ RestoreSession \/ LogIn \/ OpenSession \/ WriteSession
             \/ StartOver \/ OtherReplaces
    BY <1>4 DEF MarksStep, Prepare, Build, Refuse, RestoreSession, LogIn, OpenSession,
                WriteSession, StartOver, OtherReplaces, Exits, process
  <1>5. CASE \/ ReportCrossSigning \/ CheckDevice \/ TryStored \/ CheckTried
             \/ Generate \/ UploadKeys \/ UploadSignature \/ CheckReset
    BY <1>5 DEF MarksStep, ReportCrossSigning, CheckDevice, TryStored, CheckTried, Generate,
                UploadKeys, UploadSignature, CheckReset, Exits, process
  <1>6. CASE CopyStore \/ CopyFiles \/ RemoveFiles \/ RemoveDir \/ BackupFails
    BY <1>6 DEF MarksStep, CopyStore, CopyFiles, RemoveFiles, RemoveDir, BackupFails, process
  <1>7. CASE UNCHANGED dirVars
    BY <1>7 DEF MarksStep, dirVars, process
  <1> QED
    BY <1>1, <1>2, <1>3, <1>4, <1>5, <1>6, <1>7 DEF DirNext

\* The empty map is a map and means nothing; NoFile and Garbage are not maps.
LEMMA EmptyMap == Empty \in Map /\ Means(Empty) /\ NoFile \notin Map /\ Garbage \notin Map
PROOF
  BY MarksAssumption DEF Empty, Map, Means

\* A map keeps its meaning as more messages are acknowledged.
LEMMA MeansGrows ==
    ASSUME NEW m, Means(m), acked \subseteq acked'
    PROVE  Means(m)'
PROOF
  BY DEF Means

\* What set does to the map in memory.
LEMMA SetMoves ==
    ASSUME MarksInv, NEW s \in Session, NEW e \in Event, Set(s, e)
    PROVE  /\ mem' \in Map
           /\ Means(mem)'
           /\ Covers(mem', e)
           /\ \A d \in Event : Covers(mem, d) => Covers(mem', d)
PROOF
  <1>1. mem \in Map /\ Means(mem) /\ acked' = acked \cup {e} /\ RoomOf[e] \in Room
    BY MarksAssumption DEF MarksInv, TypeOK, Set
  <1>2. CASE Newer(mem[RoomOf[e]], e)
    <2>1. mem' = mem
      BY <1>2 DEF Set
    <2>2. Covers(mem, e)
      BY <1>1, <1>2, MarksAssumption DEF Covers, Newer, Map
    <2>3. Means(mem)'
      BY <1>1, <2>1 DEF Means
    <2> QED
      BY <1>1, <2>1, <2>2, <2>3
  <1>3. CASE ~Newer(mem[RoomOf[e]], e)
    <2>1. mem' = [mem EXCEPT ![RoomOf[e]] = e]
      BY <1>3 DEF Set
    <2>2. mem' \in Map
      BY <1>1, <2>1 DEF Map
    <2>3. Means(mem)'
      BY <1>1, <2>1 DEF Means, Map
    <2>4. mem'[RoomOf[e]] = e /\ e # NoMark
      BY <1>1, <2>1, MarksAssumption DEF Map
    <2>5. Covers(mem', e)
      BY <2>4, MarksAssumption DEF Covers
    <2>6. ASSUME NEW d \in Event, Covers(mem, d)
          PROVE  Covers(mem', d)
      <3>1. CASE RoomOf[d] = RoomOf[e]
        <4>1. mem[RoomOf[e]] \in Event /\ Ts[mem[RoomOf[e]]] <= Ts[e]
          BY <1>1, <1>3, <2>6, <3>1, MarksAssumption DEF Covers, Newer, Map
        <4> QED
          BY <2>4, <2>6, <3>1, <4>1, MarksAssumption DEF Covers
      <3>2. CASE RoomOf[d] # RoomOf[e]
        <4>1. mem'[RoomOf[d]] = mem[RoomOf[d]]
          BY <1>1, <2>1, <3>2, MarksAssumption DEF Map
        <4> QED
          BY <2>6, <4>1 DEF Covers
      <3> QED
        BY <3>1, <3>2
    <2> QED
      BY <2>2, <2>3, <2>5, <2>6
  <1> QED
    BY <1>2, <1>3

\* A write leaves in the file the snapshot or something that is not one.
LEMMA OverlayMeans ==
    ASSUME NEW old, NEW new \in Map, Means(new), NEW f \in Overlay(old, new)
    PROVE  f \in Map \cup {NoFile, Garbage} /\ (f \in Map => Means(f))
PROOF
  BY EmptyMap DEF Overlay

\* Every step keeps the meaning of the marks.
LEMMA MarksInvStep ==
    ASSUME MarksInv, MarksStep
    PROVE  MarksInv'
PROOF
  <1>0. /\ TypeOK /\ Means(mem) /\ AckedStaysCovered
        /\ \A s \in Session : at[s] # "idle" => setting[s] \in Event
        /\ \A s \in Session : Means(snap[s])
        /\ tmp \in Map => Means(tmp)
        /\ disk \in Map => Means(disk)
    BY DEF MarksInv
  <1>1. ASSUME NEW e \in Event, Admit(e)
        PROVE  MarksInv'
    <2>1. stage'[e] # "acked" /\ \A d \in Event \ {e} : stage'[d] = stage[d]
      BY <1>0, <1>1 DEF Admit, verdict, TypeOK
    <2>2. TypeOK'
      BY <1>0, <1>1 DEF Admit, verdict, TypeOK, file
    <2>3. AckedStaysCovered'
      BY <1>0, <1>1, <2>1 DEF Admit, AckedStaysCovered, Covers
    <2> QED
      BY <1>0, <1>1, <2>2, <2>3 DEF Admit, MarksInv, Means, file
  <1>2. ASSUME NEW s \in Session, NEW e \in Event, Set(s, e)
        PROVE  MarksInv'
    <2>1. /\ mem' \in Map
          /\ Means(mem)'
          /\ Covers(mem', e)
          /\ \A d \in Event : Covers(mem, d) => Covers(mem', d)
      BY <1>2, SetMoves
    <2>2. /\ acked' = acked \cup {e}
          /\ stage' = [stage EXCEPT ![e] = "acked"]
          /\ UNCHANGED <<started, tmp, disk, fd, durable>>
          /\ \/ UNCHANGED <<at, snap, setting>>
             \/ /\ snap' = [snap EXCEPT ![s] = mem']
                /\ setting' = [setting EXCEPT ![s] = e]
                /\ at' = [at EXCEPT ![s] = "open"]
      BY <1>2 DEF Set, file
    <2>3. TypeOK'
      BY <1>0, <2>1, <2>2 DEF TypeOK
    <2>4. AckedStaysCovered'
      BY <1>0, <2>1, <2>2 DEF AckedStaysCovered, TypeOK, Covers
    <2>5. \A t \in Session : at'[t] # "idle" => setting'[t] \in Event
      BY <1>0, <2>2 DEF TypeOK
    <2>6. \A t \in Session : Means(snap[t])'
      <3> TAKE t \in Session
      <3>1. snap'[t] = snap[t] \/ snap'[t] = mem'
        BY <1>0, <2>2 DEF TypeOK
      <3> QED
        BY <1>0, <2>1, <2>2, <3>1 DEF Means
    <2>7. (tmp \in Map => Means(tmp))' /\ (disk \in Map => Means(disk))'
      BY <1>0, <2>2 DEF Means, Map
    <2> QED
      BY <2>1, <2>3, <2>4, <2>5, <2>6, <2>7 DEF MarksInv
  <1>3. ASSUME NEW s \in Session, OpenTmp(s)
        PROVE  MarksInv'
    <2>1. TypeOK'
      BY <1>0, <1>3 DEF OpenTmp, TypeOK
    <2>2. tmp' \notin Map /\ \A t \in Session : at'[t] # "idle" => at[t] # "idle"
      BY <1>0, <1>3, EmptyMap DEF OpenTmp, TypeOK
    <2> QED
      BY <1>0, <1>3, <2>1, <2>2 DEF OpenTmp, MarksInv, Means, AckedStaysCovered, Covers, Map
  <1>4. ASSUME NEW s \in Session, WriteTmp(s)
        PROVE  MarksInv'
    <2>1. /\ tmp' = tmp \/ tmp' \in Overlay(tmp, snap[s])
          /\ disk' = disk \/ disk' \in Overlay(disk, snap[s])
          /\ UNCHANGED <<started, stage, mem, snap, setting, acked, durable>>
          /\ at' = [at EXCEPT ![s] = "rename"]
          /\ fd' = [fd EXCEPT ![s] = "none"]
      BY <1>4 DEF WriteTmp
    <2>2. /\ tmp' \in Map \cup {NoFile, Garbage} /\ (tmp' \in Map => Means(tmp'))
          /\ disk' \in Map \cup {NoFile, Garbage} /\ (disk' \in Map => Means(disk'))
      BY <1>0, <2>1, OverlayMeans DEF TypeOK
    <2>3. TypeOK'
      BY <1>0, <2>1, <2>2 DEF TypeOK
    <2>4. \A t \in Session : at'[t] # "idle" => at[t] # "idle"
      BY <1>0, <1>4, <2>1 DEF WriteTmp, TypeOK
    <2> QED
      BY <1>0, <2>1, <2>2, <2>3, <2>4 DEF MarksInv, Means, AckedStaysCovered, Covers, Map
  <1>5. ASSUME NEW s \in Session, RenameTmp(s)
        PROVE  MarksInv'
    <2>1. /\ \/ tmp' = NoFile /\ disk' = tmp /\ durable' = durable \cup {setting[s]}
             \/ UNCHANGED <<tmp, disk, durable>>
          /\ UNCHANGED <<started, stage, mem, acked>>
          /\ at[s] = "rename"
          /\ at' = [at EXCEPT ![s] = "idle"]
          /\ setting' = [setting EXCEPT ![s] = NoMark]
          /\ snap' = [snap EXCEPT ![s] = Empty]
      BY <1>5 DEF RenameTmp, file
    <2>2. fd' \in [Session -> {"none", "tmp", "disk", "gone"}]
      <3>1. CASE fd' = fd
        BY <1>0, <3>1 DEF TypeOK
      <3>2. CASE fd' = [t \in Session |-> CASE fd[t] = "tmp" -> "disk"
                                            [] fd[t] = "disk" -> "gone"
                                            [] OTHER -> fd[t]]
        <4>1. ASSUME NEW t \in Session
              PROVE  fd'[t] \in {"none", "tmp", "disk", "gone"}
          <5>1. fd[t] \in {"none", "tmp", "disk", "gone"}
            BY <1>0 DEF TypeOK
          <5> QED
            BY <3>2, <5>1
        <4> QED
          BY <3>2, <4>1
      <3> QED
        BY <1>5, <3>1, <3>2 DEF RenameTmp, file
    <2>3. setting[s] \in Event
      BY <1>0, <2>1
    <2>4. TypeOK'
      BY <1>0, <2>1, <2>2, <2>3, EmptyMap DEF TypeOK
    <2>5. \A t \in Session : Means(snap[t])'
      <3> TAKE t \in Session
      <3>1. snap'[t] = snap[t] \/ snap'[t] = Empty
        BY <1>0, <2>1 DEF TypeOK
      <3> QED
        BY <1>0, <2>1, <3>1, EmptyMap DEF Means
    <2>6. (tmp \in Map => Means(tmp))' /\ (disk \in Map => Means(disk))'
      BY <1>0, <2>1, EmptyMap DEF Means, Map
    <2>7. \A t \in Session : at'[t] # "idle" => setting'[t] \in Event
      BY <1>0, <2>1 DEF TypeOK
    <2> QED
      BY <1>0, <2>1, <2>4, <2>5, <2>6, <2>7 DEF MarksInv, Means, AckedStaysCovered, Covers
  <1>6. ASSUME NEW s \in Session, PersistFails(s)
        PROVE  MarksInv'
    <2>1. TypeOK'
      BY <1>0, <1>6, EmptyMap DEF PersistFails, TypeOK
    <2>2. \A t \in Session : Means(snap[t])'
      <3> TAKE t \in Session
      <3>1. (snap'[t] = snap[t] \/ snap'[t] = Empty) /\ acked' = acked
        BY <1>0, <1>6 DEF TypeOK, PersistFails
      <3> QED
        BY <1>0, <3>1, EmptyMap DEF Means
    <2>3. \A t \in Session : at'[t] # "idle" => setting'[t] \in Event
      BY <1>0, <1>6 DEF TypeOK, PersistFails
    <2> QED
      BY <1>0, <1>6, <2>1, <2>2, <2>3 DEF PersistFails, MarksInv, Means, AckedStaysCovered, Covers, Map
  <1>7. CASE Restart \/ Halt
    <2>1. mem' = Empty \/ (mem' = disk /\ disk \in Map)
      BY <1>7 DEF Restart, Halt
    <2>2. /\ Forgotten
          /\ started' \in Nat
          /\ UNCHANGED <<tmp, disk, acked, durable>>
      BY <1>0, <1>7, MarksAssumption DEF Restart, Halt, TypeOK
    <2>3. TypeOK'
      BY <1>0, <2>1, <2>2, EmptyMap DEF TypeOK, Forgotten
    <2>4. Means(mem)' /\ \A s \in Session : Means(snap[s])'
      BY <1>0, <2>1, <2>2, EmptyMap DEF Means, Forgotten
    <2>5. AckedStaysCovered'
      BY <2>2 DEF AckedStaysCovered, Forgotten
    <2>6. \A s \in Session : at'[s] = "idle"
      BY <2>2 DEF Forgotten
    <2> QED
      BY <1>0, <2>2, <2>3, <2>4, <2>5, <2>6 DEF MarksInv, Means, Map
  <1>8. CASE UNCHANGED vars
    BY <1>0, <1>8 DEF vars, file, MarksInv, TypeOK, Means, AckedStaysCovered, Covers, Map
  <1> QED
    BY <1>1, <1>2, <1>3, <1>4, <1>5, <1>6, <1>7, <1>8 DEF MarksStep, Running

\* It holds of every state of the directory.
LEMMA MarksInvAlways == DirSpec => []MarksInv
PROOF
  <1>1. DirInit => MarksInv
    <2> SUFFICES ASSUME Init PROVE MarksInv
      BY DEF DirInit
    <2>1. TypeOK
      BY EmptyMap DEF Init, TypeOK
    <2> QED
      BY <2>1, EmptyMap DEF Init, MarksInv, AckedStaysCovered
  <1>2. MarksInv /\ [DirNext]_dirVars => MarksInv'
    BY DirStepIsMarksStep, MarksInvStep
  <1> QED
    BY <1>1, <1>2, PTL DEF DirSpec

\* No mark, in memory or in a file, names a message that was not acknowledged, whatever
\* the sessions interleave and wherever the process is killed (Daemon::acked, Marks::set).
THEOREM MarksAreAcknowledged == DirSpec => []MarksMeanAcked
PROOF
  <1>1. MarksInv => MarksMeanAcked
    BY DEF MarksInv, MarksMeanAcked, Means
  <1> QED
    BY <1>1, MarksInvAlways, PTL

\* Whatever the order of a run's acknowledgements, the mark is behind none of them
\* (Marks::set moves it forward only).
THEOREM MarkIsNewest == DirSpec => []AckedStaysCovered
PROOF
  <1>1. MarksInv => AckedStaysCovered
    BY DEF MarksInv
  <1> QED
    BY <1>1, MarksInvAlways, PTL
-----------------------------------------------------------------------------
\* A step that leaves the device alone keeps the invariant unless it goes on to log in.
LEMMA DeviceKept ==
    ASSUME DeviceInv, UNCHANGED device, pc' = pc \/ pc' \notin {"built", "save", "write"}
    PROVE  DeviceInv'
PROOF
  BY DEF DeviceInv, device

\* Every step keeps the store to the last login.
LEMMA DeviceInvStep ==
    ASSUME DeviceInv, [DirNext]_dirVars
    PROVE  DeviceInv'
PROOF
  <1>1. CASE Build
    BY <1>1 DEF Build, DeviceInv
  <1>2. CASE LogIn
    <2>1. store = {} /\ logins \in Nat
      BY <1>2 DEF LogIn, DeviceInv
    <2>2. /\ logins' = logins + 1
          /\ store' = store \cup {logins'}
          /\ session = NoFile /\ session' = session
          /\ opened' = opened
          /\ pc' = "save"
      BY <1>2 DEF LogIn
    <2>3. store' = {logins'} /\ logins' \in Nat
      BY <2>1, <2>2
    <2>4. opened
      BY <1>2 DEF LogIn, DeviceInv
    <2> QED
      BY <2>2, <2>3, <2>4 DEF DeviceInv
  <1>3. CASE OpenSession
    BY <1>3 DEF OpenSession, DeviceInv
  <1>4. CASE WriteSession
    BY <1>4 DEF WriteSession, DeviceInv
  <1>5. CASE StartOver
    BY <1>5 DEF StartOver, DeviceInv, process
  <1>6. CASE \/ \E c \in {"run", "reset"} : Prepare(c)
             \/ Refuse \/ RestoreSession \/ Serve \/ Serving \/ Stop \/ OtherReplaces
    <2>1. UNCHANGED device /\ (pc' = pc \/ pc' \notin {"built", "save", "write"})
      BY <1>6 DEF Prepare, Refuse, RestoreSession, Serve, Serving, Stop, OtherReplaces, Exits, process
    <2> QED
      BY <2>1, DeviceKept
  <1>7. CASE \/ ReportCrossSigning \/ CheckDevice \/ TryStored \/ CheckTried
             \/ Generate \/ UploadKeys \/ UploadSignature \/ CheckReset
    <2>1. UNCHANGED device /\ (pc' = pc \/ pc' \notin {"built", "save", "write"})
      BY <1>7 DEF ReportCrossSigning, CheckDevice, TryStored, CheckTried, Generate, UploadKeys,
                  UploadSignature, CheckReset, Exits, process
    <2> QED
      BY <2>1, DeviceKept
  <1>8. CASE CopyStore \/ CopyFiles \/ RemoveFiles \/ RemoveDir \/ BackupFails
    <2>1. UNCHANGED device /\ pc' = pc
      BY <1>8 DEF CopyStore, CopyFiles, RemoveFiles, RemoveDir, BackupFails, process
    <2> QED
      BY <2>1, DeviceKept
  <1>9. CASE UNCHANGED dirVars
    BY <1>9, DeviceKept DEF dirVars, process
  <1> QED
    BY <1>1, <1>2, <1>3, <1>4, <1>5, <1>6, <1>7, <1>8, <1>9 DEF DirNext

\* It holds of every state.
LEMMA DeviceInvAlways == DirSpec => []DeviceInv
PROOF
  <1>1. DirInit => DeviceInv
    BY DEF DirInit, DeviceInv
  <1> QED
    BY <1>1, DeviceInvStep, PTL DEF DirSpec

\* The encryption store is of one login, and a readable session.json of the same one, at
\* whatever point a process is killed (build_client, login_or_restore).
THEOREM OneDevice == DirSpec => []StoreIsOneDevice
PROOF
  <1>1. DeviceInv => StoreIsOneDevice
    <2> SUFFICES ASSUME DeviceInv PROVE StoreIsOneDevice
      OBVIOUS
    <2>1. Cardinality({}) = 0 /\ Cardinality({logins}) = 1
      BY FS_EmptySet, FS_Singleton
    <2> QED
      BY <2>1 DEF DeviceInv, StoreIsOneDevice
  <1> QED
    BY <1>1, DeviceInvAlways, PTL
-----------------------------------------------------------------------------
\* A step that leaves the identity alone keeps the invariant unless it goes on to
\* replace it.
LEMMA SigningKept ==
    ASSUME SigningInv, UNCHANGED <<identity, made, own, signed>>,
           keys' = keys \/ (keys' = 0 /\ keys # identity /\ pc' # "upload"),
           pc' = pc \/ pc' \notin {"replace", "upload", "tried"}
    PROVE  SigningInv'
PROOF
  BY DEF SigningInv

\* Every step keeps the keys of the identity, and checks before it replaces one.
LEMMA SigningInvStep ==
    ASSUME SigningInv, [DirNext]_dirVars
    PROVE  SigningInv'
PROOF
  <1>1. CASE CheckDevice
    <2>1. identity \in own => keys' = identity /\ keys' # 0
      BY <1>1 DEF CheckDevice, Fetched, SigningInv
    <2>2. /\ UNCHANGED <<identity, made, own, signed>>
          /\ pc' \in {"off", "try", "replace"}
          /\ pc' = "replace" => keys' = 0
      BY <1>1 DEF CheckDevice, Exits
    <2> QED
      BY <2>1, <2>2 DEF SigningInv
  <1>2. CASE TryStored
    BY <1>2 DEF TryStored, SigningInv
  <1>3. CASE CheckTried
    <2>1. identity \in own => keys' = identity /\ signed
      BY <1>3 DEF CheckTried, Fetched, SigningInv
    <2>2. /\ UNCHANGED <<identity, made, own, signed>>
          /\ pc' \in {"off", "replace"}
          /\ pc' = "replace" => ~signed
      BY <1>3 DEF CheckTried, Exits
    <2> QED
      BY <2>1, <2>2 DEF SigningInv
  <1>4. CASE Generate
    BY <1>4 DEF Generate, SigningInv
  <1>5. CASE UploadKeys
    BY <1>5 DEF UploadKeys, SigningInv
  <1>6. CASE UploadSignature
    BY <1>6 DEF UploadSignature, SigningInv
  <1>7. CASE LogIn
    BY <1>7 DEF LogIn, SigningInv
  <1>8. CASE StartOver
    BY <1>8 DEF StartOver, SigningInv, process
  <1>9. CASE OtherReplaces
    BY <1>9 DEF OtherReplaces, SigningInv, process
  <1>10. CASE ReportCrossSigning \/ CheckReset
    <2>1. /\ UNCHANGED <<identity, made, own, signed>>
          /\ keys' = keys \/ (keys' = 0 /\ keys # identity /\ pc' # "upload")
          /\ pc' = pc \/ pc' \notin {"replace", "upload", "tried"}
      BY <1>10 DEF ReportCrossSigning, CheckReset, Fetched, Exits, process
    <2> QED
      BY <2>1, SigningKept
  <1>11. CASE \/ \E c \in {"run", "reset"} : Prepare(c)
              \/ Build \/ Refuse \/ RestoreSession \/ OpenSession \/ WriteSession
              \/ Serve \/ Serving \/ Stop
    <2>1. UNCHANGED signing /\ (pc' = pc \/ pc' \notin {"replace", "upload", "tried"})
      BY <1>11 DEF Prepare, Build, Refuse, RestoreSession, OpenSession, WriteSession, Serve,
                   Serving, Stop, Exits, process
    <2> QED
      BY <2>1, SigningKept DEF signing
  <1>12. CASE CopyStore \/ CopyFiles \/ RemoveFiles \/ RemoveDir \/ BackupFails
    <2>1. UNCHANGED signing /\ pc' = pc
      BY <1>12 DEF CopyStore, CopyFiles, RemoveFiles, RemoveDir, BackupFails, process
    <2> QED
      BY <2>1, SigningKept DEF signing
  <1>13. CASE UNCHANGED dirVars
    BY <1>13, SigningKept DEF dirVars, process, signing
  <1> QED
    BY <1>1, <1>2, <1>3, <1>4, <1>5, <1>6, <1>7, <1>8, <1>9, <1>10, <1>11, <1>12, <1>13
    DEF DirNext

\* An identity whose keys this store got the server to take is not replaced by another
\* reset: a rerun tries the stored keys first (reset_cross_signing).
THEOREM IdentityIsKept == DirSpec => IdentityReplacedOnce
PROOF
  <1>1. DirInit => SigningInv
    BY DEF DirInit, SigningInv
  <1>2. DirSpec => []SigningInv
    BY <1>1, SigningInvStep, PTL DEF DirSpec
  <1>3. SigningInv /\ [DirNext]_dirVars => [(identity \in own => identity' \in {identity, 0})]_dirVars
    <2> SUFFICES ASSUME SigningInv, DirNext, identity \in own
                 PROVE  identity' \in {identity, 0}
      OBVIOUS
    <2>1. CASE UploadKeys
      BY <2>1 DEF UploadKeys, SigningInv
    <2>2. CASE OtherReplaces
      BY <2>2 DEF OtherReplaces
    <2>3. CASE ReportCrossSigning \/ CheckDevice \/ TryStored \/ CheckTried
               \/ Generate \/ UploadSignature \/ CheckReset \/ LogIn \/ StartOver
      BY <2>3 DEF ReportCrossSigning, CheckDevice, TryStored, CheckTried, Generate,
                  UploadSignature, CheckReset, LogIn, StartOver
    <2>4. CASE \/ \E c \in {"run", "reset"} : Prepare(c)
               \/ Build \/ Refuse \/ RestoreSession \/ OpenSession \/ WriteSession
               \/ Serve \/ Serving \/ Stop
      BY <2>4 DEF Prepare, Build, Refuse, RestoreSession, OpenSession, WriteSession, Serve,
                  Serving, Stop, signing
    <2>5. CASE CopyStore \/ CopyFiles \/ RemoveFiles \/ RemoveDir \/ BackupFails
      BY <2>5 DEF CopyStore, CopyFiles, RemoveFiles, RemoveDir, BackupFails, signing
    <2> QED
      BY <2>1, <2>2, <2>3, <2>4, <2>5 DEF DirNext
  <1> QED
    BY <1>2, <1>3, PTL DEF DirSpec, IdentityReplacedOnce
-----------------------------------------------------------------------------
\* With one session every step of a write keeps the file ahead of the marks it held.
LEMMA WriterInvStep ==
    ASSUME \A s, t \in Session : s = t,
           MarksInv, MarksInv', WriterInv, MarksStep
    PROVE  WriterInv'
PROOF
  <1>0. /\ TypeOK /\ TypeOK'
        /\ \A s \in Session : at[s] # "idle" => setting[s] \in Event
        /\ \A s \in Session :
              /\ at[s] # "idle" => snap[s] = mem /\ Covers(mem, setting[s])
              /\ at[s] = "write" => fd[s] = "tmp" /\ tmp = Garbage
              /\ at[s] = "rename" => tmp = snap[s]
        /\ disk # Garbage
        /\ MarksStayOnDisk
        /\ pc = "up" => \A e \in durable : Covers(mem, e)
    BY DEF MarksInv, WriterInv
  <1>1. ASSUME pc = "up", NEW e \in Event, Admit(e)
        PROVE  WriterInv'
    BY <1>0, <1>1 DEF Admit, file, WriterInv, MarksStayOnDisk, Covers
  <1>2. ASSUME pc = "up", NEW s \in Session, NEW e \in Event, Set(s, e)
        PROVE  WriterInv'
    <2>1. Covers(mem', e) /\ \A d \in Event : Covers(mem, d) => Covers(mem', d)
      BY <1>2, SetMoves
    <2>2. durable' = durable /\ disk' = disk /\ durable \subseteq Event
      BY <1>0, <1>2 DEF Set, file, TypeOK
    <2>3. MarksStayOnDisk'
      BY <1>0, <2>2 DEF MarksStayOnDisk, Covers, Map
    <2>4. \A d \in durable' : Covers(mem', d)
      BY <1>0, <1>2, <2>1, <2>2
    <2>5. \A t \in Session : t = s /\ at[t] = "idle"
      BY <1>2 DEF Set
    <2>6. \/ /\ at' = at
          \/ /\ snap' = [snap EXCEPT ![s] = mem']
             /\ setting' = [setting EXCEPT ![s] = e]
             /\ at' = [at EXCEPT ![s] = "open"]
      BY <1>2 DEF Set
    <2>7. \A t \in Session :
             /\ at'[t] # "idle" => snap'[t] = mem' /\ Covers(mem', setting'[t])
             /\ at'[t] \notin {"write", "rename"}
      BY <1>0, <2>1, <2>5, <2>6 DEF TypeOK
    <2> QED
      BY <1>0, <2>2, <2>3, <2>4, <2>7 DEF WriterInv, Covers
  <1>3. ASSUME pc = "up", NEW s \in Session, OpenTmp(s)
        PROVE  WriterInv'
    <2>1. \A t \in Session : t = s
      BY <1>3
    <2>2. /\ UNCHANGED <<mem, disk, snap, setting, durable>>
          /\ at[s] = "open" /\ at'[s] = "write" /\ fd'[s] = "tmp" /\ tmp' = Garbage
      BY <1>0, <1>3 DEF OpenTmp, TypeOK
    <2> QED
      BY <1>0, <1>3, <2>1, <2>2 DEF WriterInv, MarksStayOnDisk, Covers, Map
  <1>4. ASSUME pc = "up", NEW s \in Session, WriteTmp(s)
        PROVE  WriterInv'
    <2>1. \A t \in Session : t = s
      BY <1>4
    <2>2. at[s] = "write" /\ fd[s] = "tmp" /\ tmp = Garbage
      BY <1>0, <1>4 DEF WriteTmp
    <2>3. /\ tmp' = snap[s]
          /\ UNCHANGED <<mem, disk, snap, setting, durable>>
          /\ at'[s] = "rename"
      BY <1>0, <1>4, <2>2 DEF WriteTmp, Overlay, TypeOK
    <2> QED
      BY <1>0, <1>4, <2>1, <2>2, <2>3 DEF WriterInv, MarksStayOnDisk, Covers, Map
  <1>5. ASSUME pc = "up", NEW s \in Session, RenameTmp(s)
        PROVE  WriterInv'
    <2>1. /\ at[s] = "rename" /\ tmp = mem /\ mem \in Map /\ tmp # NoFile
          /\ setting[s] \in Event /\ Covers(mem, setting[s])
      BY <1>0, <1>5, EmptyMap DEF RenameTmp, TypeOK
    <2>2. /\ disk' = mem
          /\ mem' = mem
          /\ durable' = durable \cup {setting[s]}
          /\ at'[s] = "idle"
      BY <1>0, <1>5, <2>1 DEF RenameTmp, TypeOK
    <2>3. \A e \in durable' : Covers(mem, e)
      BY <1>0, <1>5, <2>1, <2>2
    <2>4. \A t \in Session : at'[t] = "idle"
      BY <1>5, <2>2
    <2> QED
      BY <2>1, <2>2, <2>3, <2>4, EmptyMap DEF WriterInv, MarksStayOnDisk, Covers, Map
  <1>6. ASSUME pc = "up", NEW s \in Session, PersistFails(s)
        PROVE  WriterInv'
    <2>1. \A t \in Session : at'[t] = "idle"
      BY <1>0, <1>6 DEF PersistFails, TypeOK
    <2> QED
      BY <1>0, <1>6, <2>1 DEF PersistFails, WriterInv, MarksStayOnDisk, Covers, Map
  <1>7. CASE Restart
    <2>1. \A t \in Session : at'[t] = "idle"
      BY <1>7 DEF Restart, Forgotten
    <2>2. UNCHANGED <<disk, durable>> /\ (disk \in Map => mem' = disk)
      BY <1>7 DEF Restart
    <2>3. \A e \in durable' : Covers(mem', e)
      BY <1>0, <2>2 DEF MarksStayOnDisk
    <2> QED
      BY <1>0, <2>1, <2>2, <2>3 DEF WriterInv, MarksStayOnDisk, Covers, Map
  <1>8. CASE Halt /\ pc' # "up"
    <2>1. \A t \in Session : at'[t] = "idle"
      BY <1>8 DEF Halt, Forgotten
    <2>2. UNCHANGED <<disk, durable>>
      BY <1>8 DEF Halt
    <2> QED
      BY <1>0, <1>8, <2>1, <2>2 DEF WriterInv, MarksStayOnDisk, Covers, Map
  <1>9. CASE UNCHANGED vars /\ (pc' = "up" => pc = "up")
    BY <1>0, <1>9 DEF vars, file, WriterInv, MarksStayOnDisk, Covers, Map
  <1> QED
    BY <1>1, <1>2, <1>3, <1>4, <1>5, <1>6, <1>7, <1>8, <1>9 DEF MarksStep, Running

\* It holds of every state while one session is served.
LEMMA WriterInvAlways ==
    ASSUME \A s, t \in Session : s = t
    PROVE  DirSpec => []WriterInv
PROOF
  <1>1. DirInit => WriterInv
    BY MarksAssumption DEF DirInit, Init, WriterInv, MarksStayOnDisk
  <1>2. MarksInv /\ MarksInv' /\ WriterInv /\ [DirNext]_dirVars => WriterInv'
    BY DirStepIsMarksStep, WriterInvStep
  <1> QED
    BY <1>1, <1>2, MarksInvAlways, PTL DEF DirSpec

\* While one session is served, the file is readable and never behind a mark that set
\* returned from, after a crash or a failed write at any point (Marks::set, Marks::load).
\* With two sessions this is false: marks_sessions has the behaviour.
THEOREM MarksStay ==
    ASSUME \A s, t \in Session : s = t
    PROVE  DirSpec => []MarksStayOnDisk
PROOF
  <1>1. WriterInv => MarksStayOnDisk
    BY DEF WriterInv
  <1> QED
    BY <1>1, WriterInvAlways, PTL

\* While one session is served, no message whose mark was persisted is admitted by a
\* later run, except a twin of the same millisecond as the mark (verdict, admit).
THEOREM PersistedIsNotRedelivered ==
    ASSUME \A s, t \in Session : s = t
    PROVE  DirSpec => NoRedelivery
PROOF
  <1> DEFINE Once ==
        \A e \in durable : stage[e] = "unseen" /\ stage'[e] = "Deliver" =>
            \E d \in acked \ {e} : RoomOf[d] = RoomOf[e] /\ Ts[d] = Ts[e]
  <1>1. MarksInv /\ WriterInv /\ [DirNext]_dirVars => [Once]_vars
    <2> SUFFICES ASSUME MarksInv, WriterInv, MarksStep,
                        NEW e \in durable, stage[e] = "unseen", stage'[e] = "Deliver"
                 PROVE  \E d \in acked \ {e} : RoomOf[d] = RoomOf[e] /\ Ts[d] = Ts[e]
      BY DirStepIsMarksStep
    <2>0. e \in Event /\ TypeOK /\ RoomOf[e] \in Room
      BY MarksAssumption DEF MarksInv, TypeOK
    <2>1. pc = "up" /\ Admit(e)
      <3>1. ~(Restart \/ Halt \/ UNCHANGED vars)
        BY <2>0 DEF Restart, Halt, Forgotten, vars
      <3>2. ASSUME NEW s \in Session, NEW d \in Event, Set(s, d)
            PROVE  FALSE
        BY <2>0, <3>2 DEF Set, TypeOK
      <3>3. ASSUME NEW s \in Session, OpenTmp(s) \/ WriteTmp(s) \/ RenameTmp(s) \/ PersistFails(s)
            PROVE  FALSE
        BY <3>3 DEF OpenTmp, WriteTmp, RenameTmp, PersistFails
      <3>4. ASSUME NEW d \in Event, Admit(d), d # e
            PROVE  FALSE
        BY <2>0, <3>4 DEF Admit, TypeOK
      <3> QED
        BY <3>1, <3>2, <3>3, <3>4 DEF MarksStep, Running
    <2> DEFINE mark == mem[RoomOf[e]]
    <2>2. mark \in Event \cup {NoMark} /\ Covers(mem, e) /\ Means(mem)
      BY <2>0, <2>1 DEF MarksInv, WriterInv, TypeOK, Map
    <2>3. mark # NoMark /\ Ts[mark] >= Ts[e] /\ mark \in acked /\ RoomOf[mark] = RoomOf[e]
      BY <2>0, <2>2 DEF Covers, Means
    <2>4. ~(Ts[e] < Ts[mark]) /\ e # mark
      BY <2>0, <2>1, <2>3 DEF Admit, verdict, TypeOK
    <2>5. Ts[mark] = Ts[e]
      BY <2>0, <2>2, <2>3, <2>4, MarksAssumption
    <2> QED
      BY <2>3, <2>4, <2>5
  <1> QED
    BY <1>1, MarksInvAlways, WriterInvAlways, PTL DEF DirSpec, NoRedelivery
-----------------------------------------------------------------------------
\* What a step of the process may do to session.json while a backup is under way.
LEMMA SessionKept ==
    ASSUME DeviceInv, [DirNext]_dirVars, session \notin {NoFile, Garbage}
    PROVE  session' = session \/ (StartOver /\ session' = NoFile)
PROOF
  <1>1. CASE OpenSession \/ WriteSession
    BY <1>1 DEF OpenSession, WriteSession, DeviceInv
  <1>2. CASE StartOver
    BY <1>2 DEF StartOver
  <1>3. CASE \/ \E c \in {"run", "reset"} : Prepare(c)
             \/ Build \/ Refuse \/ RestoreSession \/ LogIn \/ Serve \/ Serving \/ Stop
             \/ OtherReplaces
    BY <1>3 DEF Prepare, Build, Refuse, RestoreSession, LogIn, Serve, Serving, Stop,
                OtherReplaces, device
  <1>4. CASE \/ ReportCrossSigning \/ CheckDevice \/ TryStored \/ CheckTried
             \/ Generate \/ UploadKeys \/ UploadSignature \/ CheckReset
    BY <1>4 DEF ReportCrossSigning, CheckDevice, TryStored, CheckTried, Generate, UploadKeys,
                UploadSignature, CheckReset, device
  <1>5. CASE \/ CopyStore \/ CopyFiles \/ RemoveFiles \/ RemoveDir \/ BackupFails
             \/ UNCHANGED dirVars
    BY <1>5 DEF CopyStore, CopyFiles, RemoveFiles, RemoveDir, BackupFails, dirVars, device
  <1> QED
    BY <1>1, <1>2, <1>3, <1>4, <1>5 DEF DirNext

\* Every step that is not the backup's keeps the draft and the copies.
LEMMA BackupKept ==
    ASSUME BackupInv, DeviceInv, [DirNext]_dirVars, UNCHANGED backup
    PROVE  BackupInv'
PROOF
  <1>1. CASE step = "files" /\ ~draft.early
    <2>1. session' = session
      BY <1>1, SessionKept DEF BackupInv, backup, StartOver
    <2> QED
      BY <2>1 DEF BackupInv, backup
  <1>2. CASE ~(step = "files" /\ ~draft.early)
    BY <1>2 DEF BackupInv, backup
  <1> QED
    BY <1>1, <1>2

\* The number of copies to keep is a number.
LEMMA KeepIsNat == Keep \in Nat
PROOF
  BY StateDirAssumption

\* Every step keeps all copies but the oldest of too many whole.
LEMMA BackupInvStep ==
    ASSUME BackupInv, DeviceInv, disk # Garbage, [DirNext]_dirVars
    PROVE  BackupInv'
PROOF
  <1>0. /\ copies \in Seq(BOOLEAN) /\ taken \in Nat /\ Len(copies) \in Nat
        /\ Len(copies) <= taken
        /\ Len(copies) >= taken \/ Len(copies) >= Keep
        /\ draft \in [store : SUBSET Nat, early : BOOLEAN]
        /\ step \in {"off", "files", "prune", "remove"}
        /\ step = "files" =>
              draft.early \/ (session \notin {NoFile, Garbage} /\ draft.store = {session})
        /\ step \in {"prune", "remove"} => Len(copies) > Keep
        /\ \A i \in 1..Len(copies) : i > 1 \/ Len(copies) <= Keep => copies[i]
    BY DEF BackupInv
  <1>a. NoDraft \in [store : SUBSET Nat, early : BOOLEAN]
    BY DEF NoDraft
  <1>1. CASE StartOver
    <2>1. /\ draft' = [draft EXCEPT !.early = (step # "off")]
          /\ UNCHANGED <<step, copies, taken>>
      BY <1>1 DEF StartOver
    <2>2. draft' \in [store : SUBSET Nat, early : BOOLEAN] /\ (step = "files" => draft'.early)
      BY <1>0, <2>1
    <2> QED
      BY <1>0, <2>1, <2>2 DEF BackupInv
  <1>2. CASE CopyStore
    <2>1. /\ step' = "files"
          /\ draft' = [NoDraft EXCEPT !.store = store, !.early = (session \in {NoFile, Garbage})]
          /\ UNCHANGED <<copies, taken, session>>
      BY <1>2 DEF CopyStore, device
    <2>2. store \in SUBSET Nat
      BY DEF DeviceInv
    <2>3. /\ draft' \in [store : SUBSET Nat, early : BOOLEAN]
          /\ draft'.store = store
          /\ draft'.early \/ session \notin {NoFile, Garbage}
      <3>1. draft' = [store |-> store, early |-> (session \in {NoFile, Garbage})]
        BY <2>1 DEF NoDraft
      <3>2. (session \in {NoFile, Garbage}) \in BOOLEAN
        OBVIOUS
      <3> QED
        BY <2>2, <3>1, <3>2
    <2>4. draft'.early \/ (session' \notin {NoFile, Garbage} /\ draft'.store = {session'})
      BY <2>1, <2>3 DEF DeviceInv
    <2> QED
      BY <1>0, <2>1, <2>3, <2>4 DEF BackupInv
  <1>3. CASE CopyFiles
    <2> DEFINE fit == Fit(disk)
    <2>1. /\ step = "files"
          /\ copies' = Append(copies, fit)
          /\ taken' = taken + 1
          /\ draft' = NoDraft
          /\ step' = Pruning(Len(copies'))
      BY <1>3 DEF CopyFiles
    <2>2. fit = TRUE
      BY <1>0, <2>1 DEF Fit
    <2> HIDE DEF fit
    <2>3. /\ copies' \in Seq(BOOLEAN)
          /\ Len(copies') = Len(copies) + 1
          /\ \A i \in 1..Len(copies) : copies'[i] = copies[i]
          /\ copies'[Len(copies) + 1] = TRUE
      BY <1>0, <2>1, <2>2
    <2>4. \A i \in 1..Len(copies') : i > 1 \/ Len(copies') <= Keep => copies'[i]
      BY <1>0, <2>3, KeepIsNat
    <2>5. /\ step' \in {"off", "prune"}
          /\ step' = "prune" => Len(copies') > Keep
      BY <2>1 DEF Pruning
    <2> QED
      BY <1>0, <1>a, <2>1, <2>3, <2>4, <2>5, KeepIsNat DEF BackupInv
  <1>4. CASE RemoveFiles
    <2>1. /\ step = "prune" /\ step' = "remove"
          /\ copies' = [copies EXCEPT ![1] = FALSE]
          /\ UNCHANGED <<draft, taken>>
      BY <1>4 DEF RemoveFiles
    <2>2. 1 \in 1..Len(copies)
      BY <1>0, <2>1, KeepIsNat
    <2>3. /\ copies' \in Seq(BOOLEAN)
          /\ Len(copies') = Len(copies)
          /\ \A i \in 1..Len(copies) : i # 1 => copies'[i] = copies[i]
      <3>1. FALSE \in BOOLEAN
        OBVIOUS
      <3> QED
        BY <1>0, <2>1, <2>2, <3>1, ExceptSeq
    <2> QED
      BY <1>0, <2>1, <2>3, KeepIsNat DEF BackupInv
  <1>5. CASE RemoveDir
    <2>1. /\ step = "remove"
          /\ copies' = Tail(copies)
          /\ step' = Pruning(Len(copies'))
          /\ UNCHANGED <<draft, taken>>
      BY <1>5 DEF RemoveDir
    <2>2. Len(copies) > Keep /\ Len(copies) > 0 /\ copies # << >>
      BY <1>0, <2>1, KeepIsNat
    <2>3. /\ copies' \in Seq(BOOLEAN)
          /\ Len(copies') = Len(copies) - 1
          /\ \A i \in 1..Len(copies') : copies'[i] = copies[i + 1]
      BY <1>0, <2>1, <2>2
    <2>4. \A i \in 1..Len(copies') : copies'[i]
      BY <1>0, <2>3
    <2>5. /\ step' \in {"off", "prune"}
          /\ step' = "prune" => Len(copies') > Keep
      BY <2>1 DEF Pruning
    <2> QED
      BY <1>0, <2>1, <2>2, <2>3, <2>4, <2>5, KeepIsNat DEF BackupInv
  <1>6. CASE BackupFails
    BY <1>0, <1>6, <1>a DEF BackupFails, BackupInv
  <1>7. CASE UNCHANGED backup
    BY <1>7, BackupKept
  <1>8. CASE \/ \E c \in {"run", "reset"} : Prepare(c)
             \/ Build \/ Refuse \/ RestoreSession \/ LogIn \/ OpenSession \/ WriteSession
             \/ Serve \/ Serving \/ Stop \/ OtherReplaces
    BY <1>7, <1>8 DEF Prepare, Build, Refuse, RestoreSession, LogIn, OpenSession, WriteSession,
                      Serve, Serving, Stop, OtherReplaces
  <1>9. CASE \/ ReportCrossSigning \/ CheckDevice \/ TryStored \/ CheckTried
             \/ Generate \/ UploadKeys \/ UploadSignature \/ CheckReset
    BY <1>7, <1>9 DEF ReportCrossSigning, CheckDevice, TryStored, CheckTried, Generate,
                      UploadKeys, UploadSignature, CheckReset
  <1>10. CASE UNCHANGED dirVars
    BY <1>7, <1>10 DEF dirVars
  <1> QED
    BY <1>1, <1>2, <1>3, <1>4, <1>5, <1>6, <1>8, <1>9, <1>10 DEF DirNext

\* The numbers up to n are n.
LEMMA CountToN ==
    ASSUME NEW n \in Nat
    PROVE  Cardinality(1..n) = n
PROOF
  <1>1. Cardinality(1..n) = IF 1 > n THEN 0 ELSE n - 1 + 1
    BY FS_Interval, SMT
  <1> QED
    BY <1>1

\* While one session is served, the newest --keep copies are there and whole whenever a
\* backup or the daemon is killed (backup.rs: run, prune).  The one session matters:
\* with two, delivered.json itself may be left half written.
THEOREM CopiesStayWhole ==
    ASSUME \A s, t \in Session : s = t
    PROVE  DirSpec => []CopiesAreWhole
PROOF
  <1>1. DirInit => BackupInv
    BY KeepIsNat DEF DirInit, BackupInv, NoDraft
  <1>2. WriterInv => disk # Garbage
    BY DEF WriterInv
  <1>3. BackupInv => CopiesAreWhole
    <2> SUFFICES ASSUME BackupInv PROVE CopiesAreWhole
      OBVIOUS
    <2> DEFINE n == Len(copies)
    <2>0. n \in Nat /\ taken \in Nat /\ Keep \in Nat /\ n <= taken /\ (n >= taken \/ n >= Keep)
      BY KeepIsNat DEF BackupInv
    <2>1. \A i \in Newest(Keep) : copies[i]
      BY <2>0 DEF BackupInv, Newest
    <2>2. Cardinality(Newest(Keep)) = (IF taken < Keep THEN taken ELSE Keep)
      <3>1. CASE n >= Keep
        <4>1. Newest(Keep) = (n - Keep + 1)..n
          BY <2>0, <3>1 DEF Newest
        <4>2. Cardinality((n - Keep + 1)..n) = n - (n - Keep + 1) + 1
          BY <2>0, <3>1, FS_Interval
        <4> QED
          BY <2>0, <3>1, <4>1, <4>2
      <3>2. CASE n < Keep
        <4>1. Newest(Keep) = 1..n /\ n = taken
          BY <2>0, <3>2 DEF Newest
        <4>2. Cardinality(1..n) = n
          BY <2>0, CountToN
        <4> QED
          BY <2>0, <3>2, <4>1, <4>2
      <3> QED
        BY <2>0, <3>1, <3>2
    <2> QED
      BY <2>1, <2>2 DEF CopiesAreWhole
  <1> QED
    BY <1>1, <1>2, <1>3, BackupInvStep, DeviceInvAlways, WriterInvAlways, PTL DEF DirSpec
=============================================================================
