---------------------------- MODULE ExchangeProofs ----------------------------
(***************************************************************************)
(* Proofs about module Exchange, for any calls, processes, files and       *)
(* restarts.                                                               *)
(***************************************************************************)
EXTENDS Exchange, SequenceTheorems, TLAPS

(* Every table has a last id, so the id TinyDB gives next is defined. *)
HasLast(t) == \E n \in DOMAIN t \cup {0} : \A m \in DOMAIN t : m <= n

LastsExist ==
    /\ \A f \in File : HasLast(file[f])
    /\ \A p \in Process : writing[p] # Idle => HasLast(writing[p].table)

TrailInv == TrailTypeOK /\ LastsExist

TypeInv == TypeOK /\ LastsExist

(* What any step does to the trail. *)
TrailStep ==
    \/ \E p \in Process :
          \/ \E e \in Entry : Begin(p, e)
          \/ Collide(p) \/ Write(p) \/ CannotWrite(p) \/ Forget(p)
    \/ UNCHANGED trailVars

-------------------------------------------------------------------------------
(* The last id of a table, and that of an empty one. *)
LEMMA LastIs ==
    ASSUME NEW t, DOMAIN t \subseteq Nat, HasLast(t)
    PROVE  Last(t) \in Nat /\ \A m \in DOMAIN t : m <= Last(t)
BY DEF Last, HasLast

(* The next id of a process is a number. *)
LEMMA NewIdIsNat ==
    ASSUME TrailInv, NEW p \in Process
    PROVE  NewId(p) \in Nat /\ NewId(p) + 1 \in Nat \ {0}
<1>1. collection_for(p) \in File
  BY FileOfAssumption DEF collection_for
<1>2. Last(file[collection_for(p)]) \in Nat
  BY <1>1, LastIs DEF TrailInv, TrailTypeOK, LastsExist, IsTable
<1> QED BY <1>2 DEF NewId, TrailInv, TrailTypeOK

(* A table with a row more is a table with a last id. *)
LEMMA RowAdded ==
    ASSUME NEW t, IsTable(t), HasLast(t), NEW i \in Nat, NEW e \in Entry
    PROVE  LET new == [j \in DOMAIN t \cup {i} |-> IF j = i THEN e ELSE t[j]] IN
           IsTable(new) /\ HasLast(new)
<1> DEFINE new == [j \in DOMAIN t \cup {i} |-> IF j = i THEN e ELSE t[j]]
<1>1. IsTable(new)
  BY DEF IsTable
<1>2. HasLast(new)
  <2>1. PICK n \in DOMAIN t \cup {0} : \A m \in DOMAIN t : m <= n
    BY DEF HasLast
  <2>2. n \in Nat /\ \A m \in DOMAIN t : m \in Nat
    BY DEF IsTable
  <2>3. CASE n <= i
    <3>1. \A m \in DOMAIN new : m <= i
      BY <2>1, <2>2, <2>3
    <3> QED BY <3>1 DEF HasLast
  <2>4. CASE i <= n
    <3>1. n \in DOMAIN new \cup {0} /\ \A m \in DOMAIN new : m <= n
      BY <2>1, <2>2, <2>4
    <3> QED BY <3>1 DEF HasLast
  <2> QED BY <2>2, <2>3, <2>4
<1> QED BY <1>1, <1>2

(* The trail's part of the invariant, through any step of the trail. *)
LEMMA TrailKeepsInv ==
    ASSUME TrailInv, TrailStep
    PROVE  TrailInv'
<1>1. CASE UNCHANGED trailVars
  BY <1>1 DEF trailVars, TrailInv, TrailTypeOK, LastsExist, IsTable, HasLast
<1>2. ASSUME NEW p \in Process, NEW e \in Entry, Begin(p, e)
      PROVE  TrailInv'
  <2>1. collection_for(p) \in File
    BY FileOfAssumption DEF collection_for
  <2>2. NewId(p) \in Nat /\ NewId(p) + 1 \in Nat
    BY NewIdIsNat
  <2>3. writing' = [writing EXCEPT ![p] =
          [file |-> collection_for(p), id |-> NewId(p), entry |-> e,
           table |-> file[collection_for(p)]]]
    BY <1>2 DEF Begin
  <2>4. TrailTypeOK'
    <3>1. nextId' \in [Process -> Nat]
      BY <1>2, <2>2 DEF Begin, TrailInv, TrailTypeOK
    <3>2. DOMAIN writing' = Process
      BY <2>3 DEF TrailInv, TrailTypeOK
    <3>3. \A q \in Process : writing'[q] # Idle =>
            /\ writing'[q].file \in File /\ writing'[q].id \in Nat
            /\ writing'[q].entry \in Entry /\ IsTable(writing'[q].table)
      BY <2>1, <2>2, <2>3 DEF TrailInv, TrailTypeOK
    <3> QED BY <1>2, <3>1, <3>2, <3>3 DEF Begin, TrailInv, TrailTypeOK, IsTable
  <2>5. LastsExist'
    <3>1. \A q \in Process : writing'[q] # Idle => HasLast(writing'[q].table)
      BY <2>1, <2>3 DEF TrailInv, TrailTypeOK, LastsExist
    <3> QED BY <1>2, <3>1 DEF Begin, TrailInv, LastsExist, HasLast
  <2> QED BY <2>4, <2>5 DEF TrailInv
<1>3. ASSUME NEW p \in Process, Collide(p)
      PROVE  TrailInv'
  <2>1. NewId(p) + 1 \in Nat
    BY NewIdIsNat
  <2> QED BY <1>3, <2>1 DEF Collide, TrailInv, TrailTypeOK, LastsExist, IsTable, HasLast
<1>4. ASSUME NEW p \in Process, Write(p)
      PROVE  TrailInv'
  <2> DEFINE w == writing[p]
             new == [i \in DOMAIN w.table \cup {w.id} |->
                       IF i = w.id THEN w.entry ELSE w.table[i]]
  <2>1. /\ w.file \in File /\ w.id \in Nat /\ w.entry \in Entry
        /\ IsTable(w.table) /\ HasLast(w.table)
    BY <1>4 DEF Write, TrailInv, TrailTypeOK, LastsExist
  <2>2. IsTable(new) /\ HasLast(new)
    BY <2>1, RowAdded
  <2>3. file' = [file EXCEPT ![w.file] = new]
    BY <1>4 DEF Write
  <2> HIDE DEF new
  <2>4. DOMAIN file' = File /\ \A f \in File : IsTable(file'[f]) /\ HasLast(file'[f])
    BY <2>1, <2>2, <2>3 DEF TrailInv, TrailTypeOK, LastsExist
  <2>5. /\ DOMAIN writing' = Process
        /\ \A q \in Process : writing'[q] # Idle =>
              writing'[q] = writing[q] /\ writing[q] # Idle
    BY <1>4 DEF Write, TrailInv, TrailTypeOK
  <2>6. nextId' = nextId /\ collided' = collided /\ kept' \subseteq Entry
    BY <1>4, <2>1 DEF Write, TrailInv, TrailTypeOK
  <2>7. \A q \in Process : writing'[q] # Idle =>
          /\ writing'[q].file \in File /\ writing'[q].id \in Nat
          /\ writing'[q].entry \in Entry
          /\ IsTable(writing'[q].table) /\ HasLast(writing'[q].table)
    BY <2>5 DEF TrailInv, TrailTypeOK, LastsExist
  <2> QED BY <2>4, <2>5, <2>6, <2>7 DEF TrailInv, TrailTypeOK, LastsExist, IsTable, HasLast
<1>5. ASSUME NEW p \in Process, CannotWrite(p) \/ Forget(p)
      PROVE  TrailInv'
  <2>1. /\ file' = file /\ kept' = kept /\ collided' = collided
        /\ nextId' \in [Process -> Nat]
        /\ DOMAIN writing' = Process
        /\ \A q \in Process : writing'[q] # Idle =>
              writing'[q] = writing[q] /\ writing[q] # Idle
    BY <1>5 DEF CannotWrite, Forget, TrailInv, TrailTypeOK
  <2>2. \A q \in Process : writing'[q] # Idle =>
          /\ writing'[q].file \in File /\ writing'[q].id \in Nat
          /\ writing'[q].entry \in Entry
          /\ IsTable(writing'[q].table) /\ HasLast(writing'[q].table)
    BY <2>1 DEF TrailInv, TrailTypeOK, LastsExist
  <2> QED BY <2>1, <2>2 DEF TrailInv, TrailTypeOK, LastsExist, IsTable, HasLast
<1> QED BY <1>1, <1>2, <1>3, <1>4, <1>5 DEF TrailStep

(* The initial trail. *)
LEMMA TrailInitInv == TrailInit => TrailInv
BY DEF TrailInit, TrailInv, TrailTypeOK, LastsExist, IsTable, HasLast

-------------------------------------------------------------------------------
(* One file per writer, and what it keeps apart. *)
OneWriter == \A p, q \in Process : FileOf[p] = FileOf[q] => p = q

(* The file a process appends to is as it was read, and its next id is     *)
(* free.                                                                   *)
Undisturbed(p) ==
    /\ nextId[p] # 0 => \A i \in DOMAIN file[FileOf[p]] : i < nextId[p]
    /\ writing[p] # Idle =>
          /\ writing[p].file = FileOf[p] /\ writing[p].table = file[FileOf[p]]
          /\ writing[p].id \notin DOMAIN file[FileOf[p]]
          /\ nextId[p] = writing[p].id + 1

(* What has been kept is in a file. *)
Filed == \A e \in kept : \E f \in File : \E i \in DOMAIN file[f] : file[f][i] = e

ContentionInv == NoneRefused /\ Filed /\ \A p \in Process : Undisturbed(p)

(* The next id of an undisturbed process is free, and so are those above it. *)
LEMMA NewIdIsFree ==
    ASSUME TrailInv, NEW p \in Process, Undisturbed(p)
    PROVE  /\ ~Taken(p)
           /\ \A i \in DOMAIN file[FileOf[p]] : i < NewId(p) + 1
<1> DEFINE t == file[FileOf[p]]
<1>1. FileOf[p] \in File /\ collection_for(p) = FileOf[p]
  BY FileOfAssumption DEF collection_for
<1>2. DOMAIN t \subseteq Nat /\ HasLast(t) /\ nextId[p] \in Nat
  BY <1>1 DEF TrailInv, TrailTypeOK, LastsExist, IsTable
<1>3. \A i \in DOMAIN t : i < NewId(p)
  <2>1. CASE nextId[p] # 0
    BY <2>1 DEF NewId, Undisturbed
  <2>2. CASE nextId[p] = 0
    <3>1. Last(t) \in Nat /\ \A i \in DOMAIN t : i <= Last(t)
      BY <1>2, LastIs
    <3>2. NewId(p) = Last(t) + 1
      BY <1>1, <2>2 DEF NewId
    <3> QED BY <1>2, <3>1, <3>2
  <2> QED BY <2>1, <2>2
<1>4. NewId(p) \in Nat
  BY NewIdIsNat
<1> QED BY <1>1, <1>2, <1>3, <1>4 DEF Taken

(* No step of the trail disturbs a writer that has its file to itself. *)
LEMMA TrailKeepsContention ==
    ASSUME OneWriter, TrailInv, ContentionInv, TrailStep
    PROVE  ContentionInv'
<1> USE DEF ContentionInv, Filed, NoneRefused
<1>1. CASE UNCHANGED trailVars
  BY <1>1 DEF trailVars, Undisturbed
<1>2. ASSUME NEW p \in Process, NEW e \in Entry, Begin(p, e)
      PROVE  ContentionInv'
  <2>1. ~Taken(p) /\ \A i \in DOMAIN file[FileOf[p]] : i < NewId(p) + 1
    BY NewIdIsFree
  <2>2. /\ file' = file /\ kept' = kept /\ collided' = collided
        /\ nextId' = [nextId EXCEPT ![p] = NewId(p) + 1]
        /\ writing' = [writing EXCEPT ![p] =
              [file |-> FileOf[p], id |-> NewId(p), entry |-> e,
               table |-> file[FileOf[p]]]]
        /\ NewId(p) \notin DOMAIN file[FileOf[p]]
    BY <1>2, <2>1 DEF Begin, collection_for, Taken
  <2>3. Undisturbed(p)'
    BY <2>1, <2>2 DEF Undisturbed, TrailInv, TrailTypeOK
  <2>4. \A q \in Process : q # p => Undisturbed(q)'
    BY <2>2 DEF Undisturbed, TrailInv, TrailTypeOK
  <2> QED BY <2>2, <2>3, <2>4
<1>3. ASSUME NEW p \in Process, Collide(p)
      PROVE  ContentionInv'
  BY <1>3, NewIdIsFree DEF Collide
<1>4. ASSUME NEW p \in Process, Write(p)
      PROVE  ContentionInv'
  <2> DEFINE w == writing[p]
             t == file[FileOf[p]]
             new == [i \in DOMAIN t \cup {w.id} |-> IF i = w.id THEN w.entry ELSE t[i]]
  <2>1. /\ w # Idle /\ w.file = FileOf[p] /\ w.table = t /\ w.id \notin DOMAIN t
        /\ nextId[p] = w.id + 1 /\ w.id \in Nat /\ FileOf[p] \in File
    BY <1>4, FileOfAssumption DEF Write, Undisturbed, TrailInv, TrailTypeOK
  <2>2. /\ file' = [file EXCEPT ![FileOf[p]] = new]
        /\ writing' = [writing EXCEPT ![p] = Idle]
        /\ kept' = kept \cup {w.entry}
        /\ nextId' = nextId /\ collided' = collided
    BY <1>4, <2>1 DEF Write
  <2>3. \A f \in File : file'[f] = IF f = FileOf[p] THEN new ELSE file[f]
    BY <2>1, <2>2 DEF TrailInv, TrailTypeOK
  <2>4. /\ DOMAIN new = DOMAIN t \cup {w.id} /\ new[w.id] = w.entry
        /\ \A i \in DOMAIN t : new[i] = t[i]
    BY <2>1
  <2> HIDE DEF new
  <2>5. Undisturbed(p)'
    <3>1. \A i \in DOMAIN new : i < nextId'[p]
      BY <2>1, <2>2, <2>4 DEF Undisturbed, TrailInv, TrailTypeOK, IsTable
    <3>2. writing'[p] = Idle /\ file'[FileOf[p]] = new
      BY <2>1, <2>2, <2>3 DEF TrailInv, TrailTypeOK
    <3> QED BY <3>1, <3>2 DEF Undisturbed
  <2>6. \A q \in Process : q # p => Undisturbed(q)'
    <3>1. TAKE q \in Process
    <3>2. HAVE q # p
    <3>3. FileOf[q] \in File /\ FileOf[q] # FileOf[p]
      BY <3>2, FileOfAssumption DEF OneWriter
    <3>4. file'[FileOf[q]] = file[FileOf[q]] /\ writing'[q] = writing[q] /\ nextId'[q] = nextId[q]
      BY <2>2, <2>3, <3>2, <3>3 DEF TrailInv, TrailTypeOK
    <3> QED BY <3>4 DEF Undisturbed
  <2>7. \A e \in kept' : \E f \in File : \E i \in DOMAIN file'[f] : file'[f][i] = e
    <3>1. TAKE e \in kept'
    <3>2. CASE e = w.entry
      BY <2>1, <2>3, <2>4, <3>2
    <3>3. CASE e \in kept
      <4>1. PICK f \in File : \E i \in DOMAIN file[f] : file[f][i] = e
        BY <3>3
      <4>2. PICK i \in DOMAIN file[f] : file[f][i] = e
        BY <4>1
      <4>3. i \in DOMAIN file'[f] /\ file'[f][i] = e
        BY <2>3, <2>4, <4>2
      <4> QED BY <4>3
    <3> QED BY <2>2, <3>2, <3>3
  <2> QED BY <2>2, <2>5, <2>6, <2>7
<1>5. ASSUME NEW p \in Process, CannotWrite(p) \/ Forget(p)
      PROVE  ContentionInv'
  <2>1. /\ file' = file /\ kept' = kept /\ collided' = collided
        /\ \A q \in Process :
              /\ nextId'[q] = nextId[q] \/ nextId'[q] = 0
              /\ \/ writing'[q] = Idle
                 \/ writing'[q] = writing[q] /\ nextId'[q] = nextId[q]
    BY <1>5 DEF CannotWrite, Forget, TrailInv, TrailTypeOK
  <2>2. \A q \in Process : Undisturbed(q)'
    BY <2>1 DEF Undisturbed
  <2> QED BY <2>1, <2>2
<1> QED BY <1>1, <1>2, <1>3, <1>4, <1>5 DEF TrailStep

-------------------------------------------------------------------------------
(* What is recorded of a call, and the process that records it. *)
LEMMA Entries ==
    ASSUME NEW c \in Call
    PROVE  /\ CallerOf[c] \in Process /\ AgentOf[c] \in Process
           /\ \A event \in {"asked", "answered", "received", "completed", "failed"} :
                 Is(c, event) \in Entry
BY PartiesAssumption, EntryAssumption DEF Is

LEMMA EntryParts ==
    ASSUME NEW e \in Entry
    PROVE  /\ e.call \in Call
           /\ e.event \in {"asked", "answered", "received", "completed", "failed"}
           /\ e = Is(e.call, e.event)
BY EntryAssumption DEF Is

(* Every step of a call is a step of the trail. *)
LEMMA StepIsATrailStep ==
    ASSUME [Next]_vars
    PROVE  TrailStep
<1>1. CASE UNCHANGED vars
  BY <1>1 DEF vars, TrailStep
<1>2. ASSUME NEW c \in Call, CallerStep(c) \/ AgentStep(c)
      PROVE  TrailStep
  BY <1>2, Entries DEF CallerStep, AgentStep, Ask, Send, Absorb, StreamEnds, Answer, Accept,
     Reject, Receive, StartWork, Fails, Publish, Complete, Close, TrailStep
<1>3. ASSUME NEW c \in Call, CannotConnect(c) \/ StreamBreaks(c) \/ Cancel(c)
      PROVE  TrailStep
  BY <1>3 DEF CannotConnect, StreamBreaks, Cancel, TrailStep
<1>4. ASSUME NEW p \in Process, Written(p) \/ NotWritten(p) \/ Restart(p)
      PROVE  TrailStep
  BY <1>4 DEF Written, NotWritten, Restart, TrailStep
<1> QED BY <1>1, <1>2, <1>3, <1>4 DEF Next

(* A stream with one event more, and one event less. *)
LEMMA Appended ==
    ASSUME NEW S, NEW s \in Seq(S), NEW e \in S
    PROVE  /\ Append(s, e) \in Seq(S)
           /\ Len(s) \in Nat /\ Len(Append(s, e)) = Len(s) + 1
           /\ Append(s, e) # <<>>
           /\ Append(s, e)[Len(s) + 1] = e
           /\ \A i \in 1..Len(s) : Append(s, e)[i] = s[i]
  OBVIOUS

LEMMA Absorbed ==
    ASSUME NEW S, NEW s \in Seq(S), s # <<>>
    PROVE  /\ Tail(s) \in Seq(S)
           /\ Len(s) \in Nat \ {0} /\ Len(Tail(s)) = Len(s) - 1
           /\ Head(s) \in S /\ Head(s) = s[1]
           /\ \A i \in 1..Len(s) - 1 : Tail(s)[i] = s[i + 1]
           /\ Tail(s) = <<>> <=> Len(s) = 1
<1>1. Len(s) \in Nat \ {0}
  BY EmptySeq
<1>2. /\ Tail(s) \in Seq(S) /\ Len(Tail(s)) = Len(s) - 1 /\ Head(s) \in S
      /\ \A i \in 1..Len(Tail(s)) : Tail(s)[i] = s[i + 1]
  BY HeadTailProperties
<1>3. Head(s) = s[1]
  BY <1>1
<1>4. Tail(s) = <<>> <=> Len(s) = 1
  <2> DEFINE t == Tail(s)
  <2>1. Len(<<>>) = 0 /\ (t # <<>> => Len(t) # 0)
    BY <1>2, EmptySeq
  <2>2. Len(t) = Len(s) - 1
    BY <1>2
  <2> HIDE DEF t
  <2>3. t = <<>> => Len(t) = 0
    BY <2>1
  <2>4. t = <<>> <=> Len(s) = 1
    BY <1>1, <2>1, <2>2, <2>3
  <2> QED BY <2>4 DEF t
<1> QED BY <1>1, <1>2, <1>3, <1>4

LEMMA ExchangeInit == Init => TypeInv
<1> SUFFICES ASSUME Init PROVE TypeInv
  OBVIOUS
<1>1. TrailInv
  BY TrailInitInv DEF Init
<1>2. <<>> \in Seq(Event)
  OBVIOUS
<1> QED BY <1>1, <1>2 DEF Init, TrailInv, TypeInv, TypeOK, Ended, Event, Terminal, Underway

(* Types through any step. *)
LEMMA ExchangeTypeStep ==
    ASSUME TypeInv, [Next]_vars
    PROVE  TypeInv'
<1>1. TrailInv'
  BY StepIsATrailStep, TrailKeepsInv DEF TypeInv, TypeOK, TrailInv
<1> SUFFICES TypeOK'
  BY <1>1 DEF TypeInv, TrailInv
<1>2. TrailTypeOK'
  BY <1>1 DEF TrailInv
<1>3. CASE UNCHANGED vars
  BY <1>2, <1>3 DEF vars, callVars, TypeInv, TypeOK
<1>4. ASSUME NEW c \in Call, CallerStep(c)
      PROVE  TypeOK'
  <2>1. CASE Ask(c) \/ Send(c) \/ StreamEnds(c) \/ Answer(c)
    BY <1>2, <2>1 DEF Ask, Send, StreamEnds, Answer, CallerGoes, AgentGoes, Ended, TypeInv,
       TypeOK
  <2>2. CASE Absorb(c)
    <3>1. Head(stream[c]) \in Event /\ Tail(stream[c]) \in Seq(Event)
      BY <2>2, Absorbed DEF Absorb, TypeInv, TypeOK
    <3>2. reply' \in [Call -> [state : Event \cup {""}, data : Call \cup {None}]]
      <4>1. Folded(reply[c], Head(stream[c]), c) \in
              [state : Event \cup {""}, data : Call \cup {None}]
        <5>1. reply[c] \in [state : Event \cup {""}, data : Call \cup {None}]
          BY DEF TypeInv, TypeOK
        <5> QED BY <3>1, <5>1 DEF Folded
      <4> QED BY <2>2, <4>1 DEF Absorb, TypeInv, TypeOK
    <3>3. stream' \in [Call -> Seq(Event)]
      BY <2>2, <3>1 DEF Absorb, TypeInv, TypeOK
    <3> QED BY <1>2, <2>2, <3>2, <3>3 DEF Absorb, TypeInv, TypeOK
  <2> QED BY <1>4, <2>1, <2>2 DEF CallerStep
<1>5. ASSUME NEW c \in Call, AgentStep(c) \/ Cancel(c)
      PROVE  TypeOK'
  <2>1. /\ \A e \in Event : Append(stream[c], e) \in Seq(Event)
        /\ Terminal \subseteq Event /\ {"submitted", "working", "artifact"} \subseteq Event
    BY Appended DEF TypeInv, TypeOK, Event
  <2>2. CASE Accept(c) \/ Reject(c) \/ StartWork(c) \/ Fails(c) \/ Complete(c)
    <3>1. /\ \E e \in Terminal \cup {"submitted", "working"} :
                stream' = [stream EXCEPT ![c] = Append(@, e)] /\ task' = [task EXCEPT ![c] = e]
          /\ \E to \in Underway \cup {"done"} : agent' = [agent EXCEPT ![c] = to]
          /\ UNCHANGED <<caller, http, reply, restarts>>
      BY <2>2 DEF Accept, Reject, StartWork, Fails, Complete, Tells, Says, AgentGoes,
         Terminal, Underway
    <3>2. stream' \in [Call -> Seq(Event)]
      <4>1. PICK e \in Terminal \cup {"submitted", "working"} :
              stream' = [stream EXCEPT ![c] = Append(@, e)]
        BY <3>1
      <4>2. Append(stream[c], e) \in Seq(Event)
        BY <2>1, <4>1
      <4> QED BY <4>1, <4>2 DEF TypeInv, TypeOK
    <3>3. task' \in [Call -> Terminal \cup {"none", "submitted", "working"}]
      BY <3>1 DEF TypeInv, TypeOK
    <3>4. agent' \in [Call -> Underway \cup {"none", "sent", "done", "died"}]
      BY <3>1 DEF TypeInv, TypeOK
    <3> QED BY <1>2, <3>1, <3>2, <3>3, <3>4 DEF TypeInv, TypeOK
  <2>3. CASE Publish(c)
    BY <1>2, <2>1, <2>3 DEF Publish, Says, AgentGoes, Underway, TypeInv, TypeOK
  <2>4. CASE Receive(c) \/ Close(c)
    BY <1>2, <2>4 DEF Receive, Close, AgentGoes, Underway, TypeInv, TypeOK
  <2>5. CASE Cancel(c)
    <3>1. /\ task' = [task EXCEPT ![c] = "canceled"]
          /\ \/ UNCHANGED stream
             \/ stream' = [stream EXCEPT ![c] = Append(@, "canceled")]
          /\ UNCHANGED agent \/ agent' = [agent EXCEPT ![c] = "done"]
          /\ UNCHANGED <<caller, http, reply, restarts>>
      BY <2>5 DEF Cancel, Tells, Says, AgentGoes
    <3>2. Append(stream[c], "canceled") \in Seq(Event) /\ "canceled" \in Terminal
      BY <2>1 DEF Terminal
    <3>3. stream' \in [Call -> Seq(Event)]
      BY <3>1, <3>2 DEF TypeInv, TypeOK
    <3>4. task' \in [Call -> Terminal \cup {"none", "submitted", "working"}]
      BY <3>1, <3>2 DEF TypeInv, TypeOK
    <3>5. agent' \in [Call -> Underway \cup {"none", "sent", "done", "died"}]
      BY <3>1 DEF TypeInv, TypeOK
    <3> QED BY <1>2, <3>1, <3>3, <3>4, <3>5 DEF TypeInv, TypeOK
  <2> QED BY <1>5, <2>2, <2>3, <2>4, <2>5 DEF AgentStep
<1>6. ASSUME NEW c \in Call, CannotConnect(c) \/ StreamBreaks(c)
      PROVE  TypeOK'
  BY <1>2, <1>6 DEF CannotConnect, StreamBreaks, CallerGoes, Ended, TypeInv, TypeOK
<1>7. ASSUME NEW p \in Process, Written(p) \/ NotWritten(p)
      PROVE  TypeOK'
  <2>1. writing[p].entry.call \in Call
    BY <1>7, EntryParts DEF Written, NotWritten, Write, CannotWrite, TypeInv, TypeOK, TrailTypeOK
  <2> QED BY <1>2, <1>7, <2>1 DEF Written, NotWritten, CallerGoes, AgentGoes, Ended, Underway, TypeInv,
       TypeOK
<1>8. ASSUME NEW p \in Process, Restart(p)
      PROVE  TypeOK'
  <2>1. caller' \in [Call -> Ended \cup {"new", "asking", "asked", "streaming", "closed", "answering"}]
    BY <1>8 DEF Restart, Ended, TypeInv, TypeOK
  <2>2. http' \in [Call -> {"none", "open", "closed"}]
    BY <1>8 DEF Restart, TypeInv, TypeOK
  <2>3. agent' \in [Call -> Underway \cup {"none", "sent", "done", "died"}]
    BY <1>8 DEF Restart, TypeInv, TypeOK
  <2>4. restarts' \in Nat /\ UNCHANGED <<reply, stream, task>>
    <3>1. restarts \in Nat
      BY DEF TypeInv, TypeOK
    <3> QED BY <1>8, <3>1 DEF Restart
  <2> QED BY <1>2, <2>1, <2>2, <2>3, <2>4 DEF TypeInv, TypeOK
<1> QED BY <1>3, <1>4, <1>5, <1>6, <1>7, <1>8 DEF Next

-------------------------------------------------------------------------------
(* What ask() has recorded, sent and left open, by where it is. *)
CallerSide(c) ==
    /\ caller[c] \in {"asked", "streaming", "closed", "answering", "returned"}
          \/ agent[c] # "none" \/ Is(c, "received") \in kept => Is(c, "asked") \in kept
    /\ caller[c] \in {"new", "asking", "asked"} => agent[c] = "none" /\ http[c] = "none"
    /\ caller[c] = "returned" <=> Is(c, "answered") \in kept
    /\ http[c] = "open" =>
          \/ caller[c] = "streaming"
          \/ caller[c] = "raised" /\ agent[c] = "none"

(* What execute() has told and recorded, by where it is. *)
AgentSide(c) ==
    /\ agent[c] \in {"none", "sent"} => task[c] = "none"
    /\ agent[c] \in {"accepted", "receiving", "received"} => task[c] = "submitted"
    /\ agent[c] \in {"working", "published"} => task[c] = "working"
    /\ agent[c] = "completed" => task[c] = "completed"
    /\ agent[c] = "failing" => task[c] = "failed"
    /\ agent[c] = "closing" => task[c] \in {"completed", "failed"}
    /\ agent[c] \in {"received", "working", "published", "completed", "failing", "closing"}
          \/ Is(c, "completed") \in kept \/ Is(c, "failed") \in kept =>
          Is(c, "received") \in kept
    /\ agent[c] = "done" => task[c] \in Terminal
    /\ agent[c] = "died" => task[c] # "none"
    /\ agent[c] = "done" /\ task[c] = "completed" => Is(c, "completed") \in kept
    /\ agent[c] = "done" /\ task[c] = "failed" /\ AgentOf[c] \notin Silent =>
          Is(c, "failed") \in kept

(* An append under way is the doing of its call's caller or agent, which   *)
(* waits for it.                                                           *)
Recording(q) ==
    writing[q] # Idle =>
        LET c == writing[q].entry.call  event == writing[q].entry.event IN
        /\ event = "asked" => q = CallerOf[c] /\ caller[c] = "asking"
        /\ event = "answered" => q = CallerOf[c] /\ caller[c] = "answering"
        /\ event = "received" => q = AgentOf[c] /\ agent[c] = "receiving"
        /\ event \in {"completed", "failed"} =>
              q = AgentOf[c] /\ agent[c] = "closing" /\ task[c] = event

RecordInv ==
    /\ \A c \in Call : CallerSide(c) /\ AgentSide(c)
    /\ \A q \in Process : Recording(q)

(* Two records are the same only if they are of the same call and event. *)
LEMMA RecordsDiffer ==
    ASSUME NEW c, NEW d, NEW e, NEW f, Is(c, e) = Is(d, f)
    PROVE  c = d /\ e = f
<1>1. Is(c, e).call = Is(d, f).call /\ Is(c, e).event = Is(d, f).event
  OBVIOUS
<1> QED BY <1>1 DEF Is

(* A call no step touches. *)
LEMMA SidesUntouched ==
    ASSUME NEW d \in Call, CallerSide(d), AgentSide(d),
           caller'[d] = caller[d], http'[d] = http[d], agent'[d] = agent[d], task'[d] = task[d],
           \A event \in {"asked", "answered", "received", "completed", "failed"} :
              Is(d, event) \in kept' <=> Is(d, event) \in kept
    PROVE  CallerSide(d)' /\ AgentSide(d)'
BY DEF CallerSide, AgentSide

(* An append under way whose call waits for it. *)
LEMMA RecordingUntouched ==
    ASSUME TypeInv, NEW q \in Process, Recording(q),
           writing'[q] # Idle => writing'[q] = writing[q],
           \A c \in Call : writing'[q] # Idle =>
              /\ q = CallerOf[c] => caller'[c] = caller[c]
              /\ q = AgentOf[c] => agent'[c] = agent[c] /\ task'[c] = task[c]
    PROVE  Recording(q)'
<1>1. CASE writing'[q] = Idle
  BY <1>1 DEF Recording
<1>2. CASE writing'[q] # Idle
  <2>1. writing[q].entry.call \in Call
    BY <1>2, EntryParts DEF TypeInv, TypeOK, TrailTypeOK
  <2> QED BY <1>2, <2>1 DEF Recording
<1> QED BY <1>1, <1>2

(* A new append, whose call begins to wait for it. *)
LEMMA RecordingBegun ==
    ASSUME TypeInv, NEW p \in Process, NEW c \in Call,
           NEW event \in {"asked", "answered", "received", "completed", "failed"},
           Begin(p, Is(c, event)),
           event = "asked" => p = CallerOf[c] /\ caller'[c] = "asking",
           event = "answered" => p = CallerOf[c] /\ caller'[c] = "answering",
           event = "received" => p = AgentOf[c] /\ agent'[c] = "receiving",
           event \in {"completed", "failed"} =>
              p = AgentOf[c] /\ agent'[c] = "closing" /\ task'[c] = event
    PROVE  Recording(p)' /\ kept' = kept /\ \A q \in Process : q # p => writing'[q] = writing[q]
<1>1. writing'[p].entry = Is(c, event)
  BY DEF Begin, TypeInv, TypeOK, TrailTypeOK
<1>2. Is(c, event).call = c /\ Is(c, event).event = event
  BY DEF Is
<1> QED BY <1>1, <1>2 DEF Recording, Begin, TypeInv, TypeOK, TrailTypeOK

(* The caller's steps keep the records in order. *)
LEMMA CallerKeepsRecords ==
    ASSUME TypeInv, RecordInv, NEW c \in Call,
           CallerStep(c) \/ CannotConnect(c) \/ StreamBreaks(c)
    PROVE  RecordInv'
<1> USE Entries
<1>1. \A d \in Call : CallerSide(d) /\ AgentSide(d)
  BY DEF RecordInv
<1>0. DOMAIN caller = Call /\ DOMAIN http = Call /\ DOMAIN agent = Call
  BY DEF TypeInv, TypeOK
<1>2. \A q \in Process : Recording(q)
  BY DEF RecordInv
<1>3. /\ kept' = kept /\ task' = task
      /\ \A d \in Call : d # c => /\ caller'[d] = caller[d] /\ http'[d] = http[d]
                                  /\ agent'[d] = agent[d]
  <2>1. CASE Ask(c) \/ Answer(c)
    BY <1>0, <2>1 DEF Ask, Answer, Begin, Collide, CallerGoes
  <2>2. CASE Send(c) \/ Absorb(c) \/ StreamEnds(c) \/ CannotConnect(c) \/ StreamBreaks(c)
    BY <1>0, <2>2 DEF Send, Absorb, StreamEnds, CannotConnect, StreamBreaks, CallerGoes, AgentGoes,
       trailVars
  <2> QED BY <2>1, <2>2 DEF CallerStep
<1>4. \A d \in Call : d # c => CallerSide(d)' /\ AgentSide(d)'
  BY <1>1, <1>3, SidesUntouched
<1>5. ASSUME NEW event \in {"asked", "answered"}, Begin(CallerOf[c], Is(c, event)),
             caller' = [caller EXCEPT ![c] = IF event = "asked" THEN "asking" ELSE "answering"],
             agent' = agent
      PROVE  \A q \in Process : Recording(q)'
  <2>0. caller'[c] = IF event = "asked" THEN "asking" ELSE "answering"
    BY <1>0, <1>5
  <2>1. /\ Recording(CallerOf[c])'
        /\ \A q \in Process : q # CallerOf[c] => writing'[q] = writing[q]
    BY <1>5, <2>0, RecordingBegun
  <2>2. ASSUME NEW q \in Process, q # CallerOf[c]
        PROVE  Recording(q)'
    BY <1>2, <1>3, <1>5, <2>1, <2>2, RecordingUntouched
  <2> QED BY <2>1, <2>2
<1>6. ASSUME writing[CallerOf[c]] = Idle, writing' = writing,
             agent' = agent \/ agent[c] = "none"
      PROVE  \A q \in Process : Recording(q)'
  <2>1. SUFFICES ASSUME NEW q \in Process
                 PROVE  Recording(q)'
    OBVIOUS
  <2>2. CASE writing[q] = Idle
    BY <1>6, <2>2 DEF Recording
  <2>3. CASE writing[q] # Idle /\ writing[q].entry.call # c
    <3>1. writing[q].entry.call \in Call
      BY <2>3, EntryParts DEF TypeInv, TypeOK, TrailTypeOK
    <3> QED BY <1>2, <1>3, <1>6, <2>3, <3>1 DEF Recording
  <2>4. CASE writing[q] # Idle /\ writing[q].entry.call = c
    <3>1. q # CallerOf[c] /\ writing[q].entry.event \in
            {"asked", "answered", "received", "completed", "failed"}
      BY <1>6, <2>4, EntryParts DEF TypeInv, TypeOK, TrailTypeOK
    <3> QED BY <1>2, <1>3, <1>6, <2>4, <3>1 DEF Recording
  <2> QED BY <2>2, <2>3, <2>4
<1>7. CASE Ask(c)
  <2>1. CallerSide(c)' /\ AgentSide(c)'
    <3>1. caller[c] = "new" /\ caller'[c] \in {"asking", "raised"}
      BY <1>0, <1>7 DEF Ask, CallerGoes
    <3>2. http' = http /\ agent' = agent
      BY <1>7 DEF Ask
    <3>3. CallerSide(c)'
      BY <1>1, <1>3, <3>1, <3>2 DEF CallerSide
    <3>4. AgentSide(c)'
      BY <1>1, <1>3, <3>2 DEF AgentSide
    <3> QED BY <3>3, <3>4
  <2>2. \A q \in Process : Recording(q)'
    <3>1. CASE Begin(CallerOf[c], Is(c, "asked"))
      BY <1>5, <1>7, <3>1 DEF Ask, CallerGoes, Collide, Begin
    <3>2. CASE Collide(CallerOf[c])
      BY <1>6, <1>7, <3>2 DEF Ask, Collide
    <3> QED BY <1>7, <3>1, <3>2 DEF Ask
  <2> QED BY <1>4, <2>1, <2>2 DEF RecordInv
<1>8. CASE Answer(c)
  <2>1. CallerSide(c)' /\ AgentSide(c)'
    <3>1. caller[c] = "closed" /\ caller'[c] \in {"answering", "raised"}
      BY <1>0, <1>8 DEF Answer, CallerGoes
    <3>2. http' = http /\ agent' = agent
      BY <1>8 DEF Answer
    <3>3. CallerSide(c)'
      BY <1>1, <1>3, <3>1, <3>2 DEF CallerSide
    <3>4. AgentSide(c)'
      BY <1>1, <1>3, <3>2 DEF AgentSide
    <3> QED BY <3>3, <3>4
  <2>2. \A q \in Process : Recording(q)'
    <3>1. CASE Begin(CallerOf[c], Is(c, "answered")) /\ CallerGoes(c, "answering")
      BY <1>5, <1>8, <3>1 DEF Answer, CallerGoes
    <3>2. CASE Collide(CallerOf[c])
      BY <1>6, <1>8, <3>2 DEF Answer, Collide
    <3> QED BY <1>8, <3>1, <3>2 DEF Answer
  <2> QED BY <1>4, <2>1, <2>2 DEF RecordInv
<1>9. CASE Send(c) \/ Absorb(c) \/ StreamEnds(c) \/ CannotConnect(c) \/ StreamBreaks(c)
  <2>1. CallerSide(c)' /\ AgentSide(c)'
    <3>1. CASE Send(c)
      <4>1. /\ caller'[c] = "streaming" /\ http'[c] = "open" /\ agent'[c] = "sent"
            /\ caller[c] = "asked"
        BY <3>1 DEF Send, CallerGoes, AgentGoes, TypeInv, TypeOK
      <4>2. /\ agent[c] = "none" /\ Is(c, "asked") \in kept /\ Is(c, "answered") \notin kept
            /\ task[c] = "none"
        BY <1>1, <4>1 DEF CallerSide, AgentSide
      <4>3. CallerSide(c)'
        <5>1. Is(c, "asked") \in kept' /\ Is(c, "answered") \notin kept'
          BY <1>3, <4>2
        <5>2. (caller[c] = "returned" <=> Is(c, "answered") \in kept)'
          BY <4>1, <5>1
        <5> QED BY <4>1, <5>1, <5>2 DEF CallerSide
      <4>4. AgentSide(c)'
        BY <1>1, <1>3, <4>1, <4>2 DEF AgentSide
      <4> QED BY <4>3, <4>4
    <3>2. CASE Absorb(c)
      BY <1>1, <1>3, <3>2 DEF Absorb, CallerSide, AgentSide
    <3>3. CASE StreamEnds(c) \/ CannotConnect(c) \/ StreamBreaks(c)
      <4>1. agent' = agent
        BY <3>3 DEF StreamEnds, CannotConnect, StreamBreaks
      <4>2. \/ /\ caller[c] = "streaming" /\ caller'[c] \in {"closed", "raised"}
               /\ http'[c] = "closed"
            \/ caller[c] = "asked" /\ caller'[c] = "raised" /\ http'[c] = "open"
        BY <1>0, <3>3 DEF StreamEnds, CannotConnect, StreamBreaks, CallerGoes
      <4>3. CallerSide(c)'
        BY <1>1, <1>3, <4>1, <4>2 DEF CallerSide
      <4>4. AgentSide(c)'
        BY <1>1, <1>3, <4>1 DEF AgentSide
      <4> QED BY <4>3, <4>4
    <3> QED BY <1>9, <3>1, <3>2, <3>3
  <2>2. \A q \in Process : Recording(q)'
    <3>1. writing[CallerOf[c]] = Idle /\ writing' = writing
      BY <1>9 DEF Send, Absorb, StreamEnds, CannotConnect, StreamBreaks, Free, trailVars
    <3>2. agent' = agent \/ caller[c] = "asked"
      BY <1>9 DEF Send, Absorb, StreamEnds, CannotConnect, StreamBreaks
    <3>3. caller[c] = "asked" => agent[c] = "none"
      BY <1>1 DEF CallerSide
    <3> QED BY <1>6, <3>1, <3>2, <3>3
  <2> QED BY <1>4, <2>1, <2>2 DEF RecordInv
<1> QED BY <1>7, <1>8, <1>9 DEF CallerStep

(* So do the agent's. *)
LEMMA AgentKeepsRecords ==
    ASSUME TypeInv, RecordInv, NEW c \in Call, AgentStep(c) \/ Cancel(c)
    PROVE  RecordInv'
<1> USE Entries
<1>1. \A d \in Call : CallerSide(d) /\ AgentSide(d)
  BY DEF RecordInv
<1>0. DOMAIN agent = Call /\ DOMAIN task = Call
  BY DEF TypeInv, TypeOK
<1>2. \A q \in Process : Recording(q)
  BY DEF RecordInv
<1>3. /\ kept' = kept /\ caller' = caller /\ http' = http
      /\ \A d \in Call : d # c => agent'[d] = agent[d] /\ task'[d] = task[d]
  <2>1. CASE Receive(c) \/ Close(c)
    BY <1>0, <2>1 DEF Receive, Close, Begin, Collide, AgentGoes
  <2>2. CASE Accept(c) \/ Reject(c) \/ StartWork(c) \/ Fails(c) \/ Publish(c) \/ Complete(c)
             \/ Cancel(c)
    BY <1>0, <2>2 DEF Accept, Reject, StartWork, Fails, Publish, Complete, Cancel, Tells, AgentGoes,
       trailVars
  <2> QED BY <2>1, <2>2 DEF AgentStep
<1>4. \A d \in Call : d # c => CallerSide(d)' /\ AgentSide(d)'
  BY <1>1, <1>3, SidesUntouched
<1>5. ASSUME NEW event \in {"received", "completed", "failed"}, Begin(AgentOf[c], Is(c, event)),
             agent' = [agent EXCEPT ![c] = IF event = "received" THEN "receiving" ELSE "closing"],
             task' = task, event # "received" => task[c] = event
      PROVE  \A q \in Process : Recording(q)'
  <2>1. /\ Recording(AgentOf[c])'
        /\ \A q \in Process : q # AgentOf[c] => writing'[q] = writing[q]
    <3>1. /\ agent'[c] = IF event = "received" THEN "receiving" ELSE "closing"
          /\ event # "received" => task'[c] = event
      BY <1>5 DEF TypeInv, TypeOK
    <3>2. CASE event = "received"
      BY <1>5, <3>1, <3>2, RecordingBegun
    <3>3. CASE event \in {"completed", "failed"}
      BY <1>5, <3>1, <3>3, RecordingBegun
    <3> QED BY <3>2, <3>3
  <2>2. ASSUME NEW q \in Process, q # AgentOf[c]
        PROVE  Recording(q)'
    BY <1>2, <1>3, <1>5, <2>1, <2>2, RecordingUntouched
  <2> QED BY <2>1, <2>2
<1>6. ASSUME writing[AgentOf[c]] = Idle, writing' = writing
      PROVE  \A q \in Process : Recording(q)'
  <2>1. SUFFICES ASSUME NEW q \in Process
                 PROVE  Recording(q)'
    OBVIOUS
  <2>2. CASE writing[q] = Idle
    BY <1>6, <2>2 DEF Recording
  <2>3. CASE writing[q] # Idle
    BY <1>2, <1>3, <1>6, <2>3, RecordingUntouched
  <2> QED BY <2>2, <2>3
<1>7. CASE Receive(c)
  <2>1. CallerSide(c)' /\ AgentSide(c)'
    <3>1. agent[c] = "accepted" /\ agent'[c] \in {"receiving", "died"} /\ task' = task
      BY <1>0, <1>7 DEF Receive, AgentGoes
    <3>2. CallerSide(c)'
      BY <1>1, <1>3, <3>1 DEF CallerSide
    <3>3. AgentSide(c)'
      BY <1>1, <1>3, <3>1 DEF AgentSide
    <3> QED BY <3>2, <3>3
  <2>2. \A q \in Process : Recording(q)'
    <3>1. CASE Begin(AgentOf[c], Is(c, "received")) /\ AgentGoes(c, "receiving")
      BY <1>5, <1>7, <3>1 DEF Receive, AgentGoes
    <3>2. CASE Collide(AgentOf[c])
      BY <1>6, <1>7, <3>2 DEF Receive, Collide
    <3> QED BY <1>7, <3>1, <3>2 DEF Receive
  <2> QED BY <1>4, <2>1, <2>2 DEF RecordInv
<1>8. CASE Close(c)
  <2>1. CallerSide(c)' /\ AgentSide(c)'
    <3>1. /\ agent[c] \in {"completed", "failing"} /\ agent'[c] \in {"closing", "died"}
          /\ task' = task
      BY <1>0, <1>8 DEF Close, AgentGoes
    <3>2. CallerSide(c)'
      BY <1>1, <1>3, <3>1 DEF CallerSide
    <3>3. AgentSide(c)'
      BY <1>1, <1>3, <3>1 DEF AgentSide
    <3> QED BY <3>2, <3>3
  <2>2. \A q \in Process : Recording(q)'
    <3>1. CASE /\ agent[c] = "completed" /\ Begin(AgentOf[c], Is(c, "completed"))
               /\ AgentGoes(c, "closing")
      BY <1>1, <1>5, <1>8, <3>1 DEF Close, AgentGoes, AgentSide
    <3>2. CASE /\ agent[c] = "failing" /\ Begin(AgentOf[c], Is(c, "failed"))
               /\ AgentGoes(c, "closing")
      BY <1>1, <1>5, <1>8, <3>2 DEF Close, AgentGoes, AgentSide
    <3>3. CASE Collide(AgentOf[c])
      BY <1>6, <1>8, <3>3 DEF Close, Collide
    <3> QED BY <1>8, <3>1, <3>2, <3>3 DEF Close
  <2> QED BY <1>4, <2>1, <2>2 DEF RecordInv
<1>9. CASE Accept(c) \/ Reject(c) \/ StartWork(c) \/ Fails(c) \/ Publish(c) \/ Complete(c)
           \/ Cancel(c)
  <2>1. writing[AgentOf[c]] = Idle /\ writing' = writing
    BY <1>9 DEF Accept, Reject, StartWork, Fails, Publish, Complete, Cancel, Free, trailVars
  <2>2. CallerSide(c)'
    <3>1. agent[c] # "none" /\ agent'[c] # "none"
      <4>1. CASE Cancel(c)
        BY <4>1 DEF Cancel, AgentGoes, Underway, TypeInv, TypeOK
      <4>2. CASE ~Cancel(c)
        BY <1>9, <4>2 DEF Accept, Reject, StartWork, Fails, Publish, Complete, AgentGoes, TypeInv,
           TypeOK
      <4> QED BY <4>1, <4>2
    <3> QED BY <1>1, <1>3, <3>1 DEF CallerSide
  <2>3. AgentSide(c)'
    <3>1. CASE Accept(c) \/ Reject(c) \/ StartWork(c)
      <4>1. \/ agent'[c] = "accepted" /\ task'[c] = "submitted" /\ agent[c] = "sent"
            \/ agent'[c] = "done" /\ task'[c] = "rejected" /\ agent[c] = "accepted"
            \/ agent'[c] = "working" /\ task'[c] = "working" /\ agent[c] = "received"
        BY <1>0, <3>1 DEF Accept, Reject, StartWork, Tells, AgentGoes
      <4> QED BY <1>1, <1>3, <4>1 DEF AgentSide, Terminal
    <3>2. CASE Fails(c)
      <4>1. /\ agent'[c] = (IF AgentOf[c] \in Silent THEN "done" ELSE "failing")
            /\ agent[c] = "working" /\ task'[c] = "failed"
        BY <1>0, <3>2 DEF Fails, Tells, AgentGoes
      <4> QED BY <1>1, <1>3, <4>1 DEF AgentSide, Terminal
    <3>3. CASE Publish(c) \/ Complete(c)
      <4>1. \/ agent[c] = "working" /\ agent'[c] = "published" /\ task' = task
            \/ agent[c] = "published" /\ agent'[c] = "completed" /\ task'[c] = "completed"
        BY <1>0, <3>3 DEF Publish, Complete, Tells, AgentGoes
      <4> QED BY <1>1, <1>3, <4>1 DEF AgentSide
    <3>4. CASE Cancel(c)
      <4>1. agent'[c] \in {"done", "died"} /\ task'[c] = "canceled"
        BY <1>0, <3>4 DEF Cancel, Tells, AgentGoes
      <4>2. Is(c, "completed") \in kept \/ Is(c, "failed") \in kept => Is(c, "received") \in kept
        BY <1>1 DEF AgentSide
      <4> QED BY <1>3, <4>1, <4>2 DEF AgentSide, Terminal
    <3> QED BY <1>9, <3>1, <3>2, <3>3, <3>4
  <2> QED BY <1>4, <1>6, <2>1, <2>2, <2>3 DEF RecordInv
<1> QED BY <1>7, <1>8, <1>9 DEF AgentStep

(* What an append that ends leaves of the appends under way. *)
LEMMA AppendEnds ==
    ASSUME TypeInv, RecordInv, NEW p \in Process, writing[p] # Idle,
           writing' = [writing EXCEPT ![p] = Idle], task' = task,
           NEW c \in Call,
           NEW event \in {"asked", "answered", "received", "completed", "failed"},
           writing[p].entry = Is(c, event),
           \A d \in Call : d # c => caller'[d] = caller[d] /\ agent'[d] = agent[d],
           event \in {"asked", "answered"} => agent' = agent,
           event \notin {"asked", "answered"} => caller' = caller
    PROVE  /\ event = "asked" => caller[c] = "asking"
           /\ event = "answered" => caller[c] = "answering"
           /\ event = "received" => agent[c] = "receiving"
           /\ event \in {"completed", "failed"} => agent[c] = "closing" /\ task[c] = event
           /\ \A q \in Process : Recording(q)'
<1>1. Is(c, event).call = c /\ Is(c, event).event = event
  BY DEF Is
<1>2. /\ event = "asked" => p = CallerOf[c] /\ caller[c] = "asking"
      /\ event = "answered" => p = CallerOf[c] /\ caller[c] = "answering"
      /\ event = "received" => p = AgentOf[c] /\ agent[c] = "receiving"
      /\ event \in {"completed", "failed"} =>
            p = AgentOf[c] /\ agent[c] = "closing" /\ task[c] = event
  BY <1>1 DEF RecordInv, Recording
<1>3. ASSUME NEW q \in Process
      PROVE  Recording(q)'
  <2>1. CASE q = p
    BY <2>1 DEF Recording, TypeInv, TypeOK, TrailTypeOK
  <2>2. CASE q # p
    <3>1. writing'[q] = writing[q] /\ Recording(q)
      BY <2>2 DEF RecordInv, TypeInv, TypeOK, TrailTypeOK
    <3>2. ASSUME NEW d \in Call
          PROVE  /\ q = CallerOf[d] => caller'[d] = caller[d]
                 /\ q = AgentOf[d] => agent'[d] = agent[d]
      BY <1>2, <2>2
    <3> QED BY <3>1, <3>2, RecordingUntouched
  <2> QED BY <2>1, <2>2
<1> QED BY <1>2, <1>3

(* An append that is done keeps the records in order. *)
LEMMA WrittenKeepsRecords ==
    ASSUME TypeInv, RecordInv, NEW p \in Process, Written(p)
    PROVE  RecordInv'
<1>1. writing[p] # Idle /\ writing' = [writing EXCEPT ![p] = Idle]
  BY DEF Written, Write
<1>2. PICK c \in Call : \E e \in {"asked", "answered", "received", "completed", "failed"} :
        writing[p].entry = Is(c, e)
  BY <1>1, EntryParts DEF TypeInv, TypeOK, TrailTypeOK
<1>3. PICK event \in {"asked", "answered", "received", "completed", "failed"} :
        writing[p].entry = Is(c, event)
  BY <1>2
<1>4. Is(c, event).call = c /\ Is(c, event).event = event
  BY DEF Is
<1>5. http' = http /\ task' = task /\ kept' = kept \cup {Is(c, event)}
  BY <1>3 DEF Written, Write
<1>6. /\ event \in {"asked", "answered"} => agent' = agent
      /\ event \notin {"asked", "answered"} => caller' = caller
      /\ event = "asked" => caller' = [caller EXCEPT ![c] = "asked"]
      /\ event = "answered" => caller' = [caller EXCEPT ![c] = "returned"]
      /\ event = "received" => agent' = [agent EXCEPT ![c] = "received"]
      /\ event \in {"completed", "failed"} => agent' = [agent EXCEPT ![c] = "done"]
  BY <1>3, <1>4 DEF Written, CallerGoes, AgentGoes
<1>7. \A d \in Call : d # c => caller'[d] = caller[d] /\ agent'[d] = agent[d]
  BY <1>6 DEF TypeInv, TypeOK
<1>8. /\ event = "asked" => caller[c] = "asking"
      /\ event = "answered" => caller[c] = "answering"
      /\ event = "received" => agent[c] = "receiving"
      /\ event \in {"completed", "failed"} => agent[c] = "closing" /\ task[c] = event
      /\ \A q \in Process : Recording(q)'
  BY <1>1, <1>3, <1>5, <1>6, <1>7, AppendEnds
<1>9. ASSUME NEW d \in Call, d # c
      PROVE  CallerSide(d)' /\ AgentSide(d)'
  <2>1. \A f \in {"asked", "answered", "received", "completed", "failed"} :
          Is(d, f) \in kept' <=> Is(d, f) \in kept
    BY <1>5, <1>9, RecordsDiffer
  <2>2. caller'[d] = caller[d] /\ agent'[d] = agent[d] /\ http'[d] = http[d] /\ task'[d] = task[d]
    BY <1>5, <1>7, <1>9
  <2> QED BY <2>1, <2>2, SidesUntouched DEF RecordInv
<1>10. CallerSide(c)' /\ AgentSide(c)'
  <2>1. /\ Is(c, event) \in kept'
        /\ \A f : f # event => (Is(c, f) \in kept' <=> Is(c, f) \in kept)
    BY <1>5, RecordsDiffer
  <2>2. CallerSide(c) /\ AgentSide(c)
    BY DEF RecordInv
  <2>3. CASE event = "asked"
    <3>1. caller'[c] = "asked" /\ agent'[c] = agent[c]
      BY <1>6, <2>3 DEF TypeInv, TypeOK
    <3> QED BY <1>5, <1>8, <2>1, <2>2, <2>3, <3>1 DEF CallerSide, AgentSide
  <2>4. CASE event = "answered"
    <3>1. caller'[c] = "returned" /\ agent'[c] = agent[c]
      BY <1>6, <2>4 DEF TypeInv, TypeOK
    <3> QED BY <1>5, <1>8, <2>1, <2>2, <2>4, <3>1 DEF CallerSide, AgentSide
  <2>5. CASE event = "received"
    <3>1. agent'[c] = "received" /\ caller'[c] = caller[c]
      BY <1>6, <2>5 DEF TypeInv, TypeOK
    <3> QED BY <1>5, <1>8, <2>1, <2>2, <2>5, <3>1 DEF CallerSide, AgentSide
  <2>6. CASE event \in {"completed", "failed"}
    <3>1. agent'[c] = "done" /\ caller'[c] = caller[c]
      BY <1>6, <2>6 DEF TypeInv, TypeOK
    <3>2. CallerSide(c)'
      BY <1>5, <1>8, <2>1, <2>2, <2>6, <3>1 DEF CallerSide
    <3>3. AgentSide(c)'
      BY <1>5, <1>8, <2>1, <2>2, <2>6, <3>1 DEF AgentSide, Terminal
    <3> QED BY <3>2, <3>3
  <2> QED BY <2>3, <2>4, <2>5, <2>6
<1> QED BY <1>8, <1>9, <1>10 DEF RecordInv

(* An append that fails keeps the records in order. *)
LEMMA NotWrittenKeepsRecords ==
    ASSUME TypeInv, RecordInv, NEW p \in Process, NotWritten(p)
    PROVE  RecordInv'
<1>1. writing[p] # Idle /\ writing' = [writing EXCEPT ![p] = Idle]
  BY DEF NotWritten, CannotWrite
<1>2. PICK c \in Call : \E e \in {"asked", "answered", "received", "completed", "failed"} :
        writing[p].entry = Is(c, e)
  BY <1>1, EntryParts DEF TypeInv, TypeOK, TrailTypeOK
<1>3. PICK event \in {"asked", "answered", "received", "completed", "failed"} :
        writing[p].entry = Is(c, event)
  BY <1>2
<1>4. Is(c, event).call = c /\ Is(c, event).event = event
  BY DEF Is
<1>5. http' = http /\ task' = task /\ kept' = kept
  BY DEF NotWritten, CannotWrite
<1>6. /\ event \in {"asked", "answered"} =>
            agent' = agent /\ caller' = [caller EXCEPT ![c] = "raised"]
      /\ event \notin {"asked", "answered"} =>
            caller' = caller /\ agent' = [agent EXCEPT ![c] = "died"]
  BY <1>3, <1>4 DEF NotWritten, CallerGoes, AgentGoes
<1>7. \A d \in Call : d # c => caller'[d] = caller[d] /\ agent'[d] = agent[d]
  BY <1>6 DEF TypeInv, TypeOK
<1>8. /\ event = "asked" => caller[c] = "asking"
      /\ event = "answered" => caller[c] = "answering"
      /\ event = "received" => agent[c] = "receiving"
      /\ event \in {"completed", "failed"} => agent[c] = "closing" /\ task[c] = event
      /\ \A q \in Process : Recording(q)'
  BY <1>1, <1>3, <1>5, <1>6, <1>7, AppendEnds
<1>9. ASSUME NEW d \in Call, d # c
      PROVE  CallerSide(d)' /\ AgentSide(d)'
  BY <1>5, <1>7, <1>9, SidesUntouched DEF RecordInv
<1>10. CallerSide(c)' /\ AgentSide(c)'
  <2>1. CallerSide(c) /\ AgentSide(c)
    BY DEF RecordInv
  <2>2. CASE event \in {"asked", "answered"}
    <3>1. caller'[c] = "raised" /\ agent'[c] = agent[c]
      BY <1>6, <2>2 DEF TypeInv, TypeOK
    <3> QED BY <1>5, <1>8, <2>1, <2>2, <3>1 DEF CallerSide, AgentSide
  <2>3. CASE event \notin {"asked", "answered"}
    <3>1. agent'[c] = "died" /\ caller'[c] = caller[c]
      BY <1>6, <2>3 DEF TypeInv, TypeOK
    <3> QED BY <1>5, <1>8, <2>1, <2>3, <3>1 DEF CallerSide, AgentSide
  <2> QED BY <2>2, <2>3
<1> QED BY <1>8, <1>9, <1>10 DEF RecordInv

(* So does a restart, of either end. *)
LEMMA RestartKeepsRecords ==
    ASSUME TypeInv, RecordInv, NEW p \in Process, Restart(p)
    PROVE  RecordInv'
<1>1. kept' = kept /\ task' = task /\ writing' = [writing EXCEPT ![p] = Idle]
  BY DEF Restart, Forget
<1>2. ASSUME NEW c \in Call
      PROVE  CallerSide(c)' /\ AgentSide(c)'
  <2>1. CallerSide(c) /\ AgentSide(c)
    BY DEF RecordInv
  <2>2. /\ caller'[c] = IF CallerOf[c] = p /\ caller[c] \notin Ended \cup {"new"}
                           THEN "gone" ELSE caller[c]
        /\ http'[c] = IF CallerOf[c] = p /\ http[c] = "open" THEN "closed" ELSE http[c]
        /\ agent'[c] = IF AgentOf[c] = p /\ agent[c] \in Underway THEN "died" ELSE agent[c]
    BY DEF Restart
  <2>3. CallerSide(c)'
    BY <1>1, <2>1, <2>2 DEF CallerSide, Ended, Underway
  <2>4. AgentSide(c)'
    <3>1. agent[c] \in Underway => task[c] # "none"
      BY <2>1 DEF AgentSide, Underway
    <3> QED BY <1>1, <2>1, <2>2, <3>1 DEF AgentSide
  <2> QED BY <2>3, <2>4
<1>3. ASSUME NEW q \in Process
      PROVE  Recording(q)'
  <2>1. CASE q = p
    BY <1>1, <2>1 DEF Recording, TypeInv, TypeOK, TrailTypeOK
  <2>2. CASE q # p
    <3>1. writing'[q] = writing[q] /\ Recording(q)
      BY <1>1, <2>2 DEF RecordInv, TypeInv, TypeOK, TrailTypeOK
    <3>2. ASSUME NEW d \in Call
          PROVE  /\ q = CallerOf[d] => caller'[d] = caller[d]
                 /\ q = AgentOf[d] => agent'[d] = agent[d]
      BY <2>2 DEF Restart
    <3> QED BY <1>1, <3>1, <3>2, RecordingUntouched
  <2> QED BY <2>1, <2>2
<1> QED BY <1>2, <1>3 DEF RecordInv

LEMMA RecordsStep ==
    ASSUME TypeInv, RecordInv, [Next]_vars
    PROVE  RecordInv'
<1>1. CASE UNCHANGED vars
  BY <1>1 DEF vars, callVars, trailVars, RecordInv, CallerSide, AgentSide, Recording
<1> QED BY <1>1, CallerKeepsRecords, AgentKeepsRecords, WrittenKeepsRecords,
     NotWrittenKeepsRecords, RestartKeepsRecords DEF Next

LEMMA RecordsInit == Init => RecordInv
<1> SUFFICES ASSUME Init PROVE RecordInv
  OBVIOUS
<1>1. /\ kept = {} /\ \A q \in Process : writing[q] = Idle
      /\ \A c \in Call : caller[c] = "new" /\ http[c] = "none" /\ agent[c] = "none" /\ task[c] = "none"
  BY DEF Init, TrailInit
<1>2. \A c \in Call : CallerSide(c)
  BY <1>1 DEF CallerSide
<1>3. \A c \in Call : AgentSide(c)
  BY <1>1 DEF AgentSide
<1> QED BY <1>1, <1>2, <1>3 DEF RecordInv, Recording

-------------------------------------------------------------------------------
(* Data on its way to the caller, or there. *)
Proposed(c) ==
    reply[c].data # None \/ \E i \in 1..Len(stream[c]) : stream[c][i] = "artifact"

(* The status the stream leads to: that of the reply once all is absorbed, *)
(* the last one sent until then.                                           *)
Leads(c, state) ==
    IF stream[c] = <<>>
      THEN reply[c].state = state
      ELSE LET n == Len(stream[c]) IN
           \/ stream[c][n] = state
           \/ /\ stream[c][n] = "artifact" /\ state = "working"
              /\ (IF n = 1 THEN reply[c].state ELSE stream[c][n - 1]) = "working"

(* The run died and its task was closed later, by a cancel the caller does *)
(* not hear of.                                                            *)
Unheard(c) ==
    /\ agent[c] = "died" /\ task[c] = "canceled"
    /\ \/ Leads(c, "working")
       \/ Leads(c, "submitted") /\ ~Proposed(c)

(* The stream leads to the state of the task, data goes ahead of           *)
(* completed, and a caller that has heard the end has heard everything.    *)
Flow(c) ==
    /\ Leads(c, IF task[c] = "none" THEN "" ELSE task[c]) \/ Unheard(c)
    /\ reply[c].data \in {None, c}
    /\ Proposed(c) =>
          /\ agent[c] \in {"published", "completed", "closing", "done", "died"}
          /\ task[c] \in {"working", "completed", "canceled"}
          /\ Is(c, "received") \in kept
    /\ agent[c] = "published" \/ task[c] = "completed" => Proposed(c)
    /\ caller[c] \in {"closed", "answering", "returned"} =>
          /\ stream[c] = <<>>
          /\ agent[c] \in {"done", "died"} \/ task[c] \in Terminal

FlowInv == \A c \in Call : Flow(c)

(* A call whose stream, reply and task a step leaves alone. *)
LEMMA FlowUntouched ==
    ASSUME NEW c \in Call, Flow(c), kept \subseteq kept',
           stream'[c] = stream[c], reply'[c] = reply[c], task'[c] = task[c],
           agent'[c] = agent[c]
              \/ agent'[c] \in {"closing", "done", "died"}
              \/ (~Proposed(c) /\ agent[c] \notin {"done", "died"} /\ agent'[c] # "published"),
           caller'[c] \in {"closed", "answering", "returned"} =>
              caller[c] \in {"closed", "answering", "returned"},
           agent[c] \in {"done", "died"} => agent'[c] = agent[c]
    PROVE  Flow(c)'
<1>1. /\ Proposed(c)' <=> Proposed(c)
      /\ \A state : Leads(c, state)' <=> Leads(c, state)
  BY DEF Proposed, Leads
<1>2. Leads(c, IF task[c] = "none" THEN "" ELSE task[c])' \/ Unheard(c)'
  <2>1. CASE Leads(c, IF task[c] = "none" THEN "" ELSE task[c])
    BY <2>1 DEF Leads
  <2>2. CASE Unheard(c)
    BY <1>1, <2>2 DEF Unheard
  <2> QED BY <2>1, <2>2 DEF Flow
<1> QED BY <1>1, <1>2 DEF Flow

(* A status that is sent. *)
LEMMA FlowTells ==
    ASSUME TypeInv, NEW c \in Call, Flow(c), NEW e \in Terminal \cup {"submitted", "working"},
           Tells(c, e), reply' = reply, caller' = caller, kept' = kept,
           task[c] \notin Terminal, agent[c] \notin {"done", "died"} \/ caller[c] = "streaming",
           agent'[c] # "published",
           Proposed(c) =>
              e \in {"completed", "canceled"} /\ agent'[c] \in {"completed", "done", "died"},
           e = "completed" => Proposed(c)
    PROVE  Flow(c)'
<1> DEFINE s == stream[c]
           t == Append(s, e)
<1>1. stream'[c] = t /\ task'[c] = e /\ s \in Seq(Event) /\ e \in Event
  BY DEF Tells, Says, TypeInv, TypeOK, Event
<1>2. /\ Len(s) \in Nat /\ Len(t) = Len(s) + 1 /\ t # <<>> /\ t[Len(s) + 1] = e
      /\ \A i \in 1..Len(s) : t[i] = s[i]
  BY <1>1, Appended
<1> HIDE DEF t
<1>3. e # "artifact" /\ e # "none"
  BY DEF Terminal
<1>4. Leads(c, e)'
  BY <1>1, <1>2 DEF Leads
<1>5. Proposed(c)' <=> Proposed(c)
  <2>1. ASSUME Proposed(c) PROVE Proposed(c)'
    <3>1. CASE reply[c].data # None
      BY <3>1 DEF Proposed
    <3>2. ASSUME NEW i \in 1..Len(s), s[i] = "artifact"
          PROVE  Proposed(c)'
      BY <1>1, <1>2, <3>2 DEF Proposed
    <3> QED BY <2>1, <3>1, <3>2 DEF Proposed
  <2>2. ASSUME Proposed(c)' PROVE Proposed(c)
    <3>1. CASE reply[c].data # None
      BY <3>1 DEF Proposed
    <3>2. CASE \E i \in 1..Len(t) : t[i] = "artifact"
      <4>1. PICK i \in 1..Len(t) : t[i] = "artifact"
        BY <3>2
      <4>2. i \in 1..Len(s) /\ s[i] = "artifact"
        BY <1>2, <1>3, <4>1
      <4> QED BY <4>2 DEF Proposed
    <3> QED BY <1>1, <2>2, <3>1, <3>2 DEF Proposed
  <2> QED BY <2>1, <2>2
<1>6. caller[c] \notin {"closed", "answering", "returned"}
  BY DEF Flow
<1> QED BY <1>1, <1>3, <1>4, <1>5, <1>6 DEF Flow

(* A cancel that finds the run dead and does not reach the caller. *)
LEMMA FlowUnheard ==
    ASSUME TypeInv, NEW c \in Call, Flow(c), agent[c] = "died",
           task[c] \notin Terminal \cup {"none"}, task'[c] = "canceled",
           UNCHANGED <<stream, agent, reply, caller, kept>>
    PROVE  Flow(c)'
<1>1. /\ Proposed(c)' <=> Proposed(c)
      /\ \A state : Leads(c, state)' <=> Leads(c, state)
  BY DEF Proposed, Leads
<1>2. task[c] \in {"submitted", "working"} /\ Leads(c, task[c])
  BY DEF Flow, Unheard, TypeInv, TypeOK, Terminal
<1>3. task[c] = "submitted" => ~Proposed(c)
  BY DEF Flow
<1>4. Unheard(c)'
  BY <1>1, <1>2, <1>3 DEF Unheard
<1> QED BY <1>1, <1>4 DEF Flow

(* The artifact that is sent. *)
LEMMA FlowPublish ==
    ASSUME TypeInv, NEW c \in Call, Flow(c), AgentSide(c), Publish(c)
    PROVE  Flow(c)'
<1> DEFINE s == stream[c]
           t == Append(s, "artifact")
<1>1. /\ stream'[c] = t /\ s \in Seq(Event) /\ "artifact" \in Event
      /\ agent[c] = "working" /\ agent'[c] = "published" /\ task[c] = "working"
      /\ reply' = reply /\ caller' = caller /\ kept' = kept /\ task' = task
  BY DEF Publish, Says, AgentGoes, AgentSide, trailVars, TypeInv, TypeOK, Event
<1>2. /\ Len(s) \in Nat /\ Len(t) = Len(s) + 1 /\ t # <<>> /\ t[Len(s) + 1] = "artifact"
      /\ \A i \in 1..Len(s) : t[i] = s[i]
  BY <1>1, Appended
<1>3. ~Proposed(c) /\ Leads(c, "working") /\ Is(c, "received") \in kept
  BY <1>1 DEF Flow, Unheard, AgentSide
<1>4. IF s = <<>> THEN Len(s) = 0 ELSE Len(s) \in 1..Len(s)
  BY <1>1, EmptySeq
<1> HIDE DEF t
<1>5. Leads(c, "working")'
  <2>1. CASE s = <<>>
    BY <1>1, <1>2, <1>3, <1>4, <2>1 DEF Leads
  <2>2. CASE s # <<>>
    <3>1. s[Len(s)] # "artifact"
      BY <1>3, <1>4, <2>2 DEF Proposed
    <3>2. s[Len(s)] = "working"
      BY <1>3, <2>2, <3>1 DEF Leads
    <3>3. Len(t) # 1 /\ t[Len(t)] = "artifact" /\ t[Len(t) - 1] = "working"
      BY <1>2, <1>4, <2>2, <3>2
    <3> QED BY <1>1, <1>2, <3>3 DEF Leads
  <2> QED BY <2>1, <2>2
<1>6. Proposed(c)'
  BY <1>1, <1>2 DEF Proposed
<1>7. caller[c] \notin {"closed", "answering", "returned"}
  BY <1>1 DEF Flow, Terminal
<1> QED BY <1>1, <1>3, <1>5, <1>6, <1>7 DEF Flow

(* An event that is absorbed. *)
LEMMA FlowAbsorb ==
    ASSUME TypeInv, NEW c \in Call, Flow(c), Absorb(c)
    PROVE  Flow(c)'
<1> DEFINE s == stream[c]
           t == Tail(s)
           r == reply[c]
           u == Folded(r, Head(s), c)
<1>1. /\ s # <<>> /\ s \in Seq(Event) /\ stream'[c] = t /\ reply'[c] = u
      /\ caller' = caller /\ kept' = kept /\ task' = task /\ agent' = agent
      /\ caller[c] = "streaming"
      /\ r \in [state : Event \cup {""}, data : Call \cup {None}]
  BY DEF Absorb, trailVars, TypeInv, TypeOK
<1>2. /\ Len(s) \in Nat \ {0} /\ Len(t) = Len(s) - 1 /\ Head(s) = s[1]
      /\ \A i \in 1..Len(s) - 1 : t[i] = s[i + 1]
      /\ t = <<>> <=> Len(s) = 1
  BY <1>1, Absorbed
<1>3. /\ u.state = IF s[1] = "artifact" THEN r.state ELSE s[1]
      /\ u.data = IF s[1] = "artifact" /\ r.data = None THEN c ELSE r.data
  BY <1>1, <1>2 DEF Folded
<1> HIDE DEF t, u
<1>4. ASSUME NEW state, state # "artifact", Leads(c, state)
      PROVE  Leads(c, state)'
  <2>1. CASE Len(s) = 1
    <3>1. u.state = state /\ t = <<>>
      BY <1>1, <1>2, <1>3, <1>4, <2>1 DEF Leads
    <3> QED BY <1>1, <3>1 DEF Leads
  <2>2. CASE Len(s) # 1
    <3>1. t # <<>> /\ Len(s) - 1 \in 1..Len(s) - 1 /\ t[Len(t)] = s[Len(s)]
      BY <1>2, <2>2
    <3>2. CASE Len(s) = 2
      <4>1. Len(t) = 1 /\ (s[1] = "working" => u.state = "working")
        BY <1>2, <1>3, <3>2
      <4>2. s[2] = state \/ (s[2] = "artifact" /\ state = "working" /\ s[1] = "working")
        <5>1. \/ s[Len(s)] = state
              \/ s[Len(s)] = "artifact" /\ state = "working" /\ s[Len(s) - 1] = "working"
          BY <1>1, <1>4, <2>2 DEF Leads
        <5>2. Len(s) - 1 = 1
          BY <3>2
        <5> QED BY <3>2, <5>1, <5>2
      <4>3. t[1] = s[2]
        BY <3>1, <3>2, <4>1
      <4> QED BY <1>1, <3>1, <4>1, <4>2, <4>3 DEF Leads
    <3>3. CASE Len(s) # 2
      <4>1. Len(s) - 2 \in 1..Len(s) - 1 /\ Len(t) - 1 = Len(s) - 2 /\ (Len(s) - 2) + 1 = Len(s) - 1
        <5>1. ASSUME NEW n \in Nat \ {0}, n # 1, n # 2
              PROVE  n - 2 \in 1..n - 1 /\ (n - 1) - 1 = n - 2 /\ (n - 2) + 1 = n - 1
          BY <5>1
        <5> QED BY <1>2, <2>2, <3>3, <5>1
      <4>2. Len(t) # 1 /\ t[Len(t) - 1] = s[Len(s) - 1]
        <5>1. t[Len(s) - 2] = s[(Len(s) - 2) + 1]
          BY <1>2, <4>1
        <5> QED BY <1>2, <3>3, <4>1, <5>1
      <4> QED BY <1>1, <1>2, <1>4, <2>2, <3>1, <4>2 DEF Leads
    <3> QED BY <3>2, <3>3
  <2> QED BY <2>1, <2>2
<1>5. Proposed(c)' <=> Proposed(c)
  <2>1. ASSUME Proposed(c) PROVE Proposed(c)'
    <3>1. CASE r.data # None \/ s[1] = "artifact"
      BY <1>1, <1>3, <3>1, NoneAssumption DEF Proposed
    <3>2. ASSUME NEW i \in 1..Len(s), s[i] = "artifact", s[1] # "artifact"
          PROVE  Proposed(c)'
      <4>1. i - 1 \in 1..Len(t) /\ t[i - 1] = "artifact"
        BY <1>2, <3>2
      <4> QED BY <1>1, <4>1 DEF Proposed
    <3> QED BY <2>1, <3>1, <3>2 DEF Proposed
  <2>2. ASSUME Proposed(c)' PROVE Proposed(c)
    <3>1. CASE u.data # None
      BY <1>2, <1>3, <3>1 DEF Proposed
    <3>2. ASSUME NEW i \in 1..Len(t), t[i] = "artifact"
          PROVE  Proposed(c)
      <4>1. i + 1 \in 1..Len(s) /\ s[i + 1] = "artifact"
        BY <1>2, <3>2
      <4> QED BY <4>1 DEF Proposed
    <3> QED BY <1>1, <2>2, <3>1, <3>2 DEF Proposed
  <2> QED BY <2>1, <2>2
<1>6. reply'[c].data \in {None, c}
  BY <1>1, <1>3 DEF Flow
<1>7. Leads(c, IF task[c] = "none" THEN "" ELSE task[c])' \/ Unheard(c)'
  <2> DEFINE state == IF task[c] = "none" THEN "" ELSE task[c]
  <2>1. state # "artifact" /\ state' = state
    BY <1>1 DEF TypeInv, TypeOK, Terminal
  <2>2. CASE Leads(c, state)
    BY <1>1, <1>4, <2>1, <2>2
  <2>3. CASE Unheard(c)
    <3>1. Leads(c, "working") => Leads(c, "working")'
      BY <1>4
    <3>2. Leads(c, "submitted") => Leads(c, "submitted")'
      BY <1>4
    <3> QED BY <1>1, <1>5, <2>3, <3>1, <3>2 DEF Unheard
  <2> QED BY <2>2, <2>3 DEF Flow
<1> QED BY <1>1, <1>5, <1>6, <1>7 DEF Flow

(* Every step keeps every call's stream, reply and task in step. *)
LEMMA FlowStep ==
    ASSUME TypeInv, RecordInv, FlowInv, [Next]_vars
    PROVE  FlowInv'
<1> SUFFICES ASSUME NEW d \in Call
             PROVE  Flow(d)'
  BY DEF FlowInv
<1>1. Flow(d) /\ CallerSide(d) /\ AgentSide(d)
  BY DEF FlowInv, RecordInv
<1>2. CASE UNCHANGED vars
  BY <1>1, <1>2, FlowUntouched DEF vars, callVars, trailVars
<1>3. ASSUME NEW c \in Call, d # c,
             CallerStep(c) \/ AgentStep(c) \/ CannotConnect(c) \/ StreamBreaks(c) \/ Cancel(c)
      PROVE  Flow(d)'
  <2>1. kept' = kept /\ stream'[d] = stream[d] /\ reply'[d] = reply[d]
    BY <1>3 DEF CallerStep, AgentStep, Ask, Send, Absorb, StreamEnds, Answer, Accept,
       Reject, Receive, StartWork, Fails, Publish, Complete, Close, CannotConnect, StreamBreaks,
       Cancel, Begin, Collide, Tells, Says, trailVars, TypeInv, TypeOK
  <2>2. task'[d] = task[d] /\ agent'[d] = agent[d] /\ caller'[d] = caller[d]
    <3>1. DOMAIN caller = Call /\ DOMAIN agent = Call /\ DOMAIN task = Call
      BY DEF TypeInv, TypeOK
    <3>2. CASE CallerStep(c) \/ CannotConnect(c) \/ StreamBreaks(c)
      BY <1>3, <3>1, <3>2 DEF CallerStep, Ask, Send, Absorb, StreamEnds, Answer, CannotConnect,
         StreamBreaks, CallerGoes, AgentGoes
    <3>3. CASE AgentStep(c) \/ Cancel(c)
      BY <1>3, <3>1, <3>3 DEF AgentStep, Accept, Reject, Receive, StartWork, Fails, Publish,
         Complete, Close, Cancel, Tells, AgentGoes
    <3> QED BY <1>3, <3>2, <3>3
  <2> QED BY <1>1, <2>1, <2>2, FlowUntouched
<1>4. CASE Ask(d) \/ CannotConnect(d) \/ StreamBreaks(d) \/ Answer(d)
  <2>1. /\ kept' = kept /\ stream' = stream /\ reply' = reply /\ task' = task /\ agent' = agent
    BY <1>4 DEF Ask, CannotConnect, StreamBreaks, Answer, Begin, Collide, trailVars
  <2>2. caller'[d] \in {"closed", "answering", "returned"} => caller[d] = "closed"
    BY <1>4 DEF Ask, CannotConnect, StreamBreaks, Answer, CallerGoes, TypeInv, TypeOK
  <2> QED BY <1>1, <2>1, <2>2, FlowUntouched
<1>5. CASE Send(d)
  <2>1. /\ kept' = kept /\ stream' = stream /\ reply' = reply /\ task' = task
        /\ agent'[d] = "sent" /\ caller'[d] = "streaming" /\ agent[d] = "none"
    BY <1>1, <1>5 DEF Send, CallerGoes, AgentGoes, trailVars, CallerSide, TypeInv, TypeOK
  <2>2. ~Proposed(d)
    BY <1>1, <2>1 DEF Flow
  <2> QED BY <1>1, <2>1, <2>2, FlowUntouched
<1>6. CASE StreamEnds(d)
  <2>1. /\ kept' = kept /\ stream' = stream /\ reply' = reply /\ task' = task /\ agent' = agent
        /\ stream[d] = <<>> /\ (reply[d].state \in Terminal \/ agent[d] \in {"done", "died"})
    BY <1>6 DEF StreamEnds, Over, trailVars
  <2>2. agent[d] \in {"done", "died"} \/ task[d] \in Terminal
    BY <1>1, <2>1 DEF Flow, Unheard, Leads, Terminal
  <2>3. /\ Proposed(d)' <=> Proposed(d)
        /\ \A state : Leads(d, state)' <=> Leads(d, state)
    BY <2>1 DEF Leads, Proposed
  <2>4. Leads(d, IF task[d] = "none" THEN "" ELSE task[d])' \/ Unheard(d)'
    <3>1. CASE Leads(d, IF task[d] = "none" THEN "" ELSE task[d])
      BY <2>1, <3>1 DEF Leads
    <3>2. CASE Unheard(d)
      BY <2>1, <2>3, <3>2 DEF Unheard
    <3> QED BY <1>1, <3>1, <3>2 DEF Flow
  <2> QED BY <1>1, <2>1, <2>2, <2>3, <2>4 DEF Flow
<1>7. CASE Accept(d) \/ Reject(d) \/ StartWork(d) \/ Fails(d) \/ Complete(d) \/ Cancel(d)
  <2>1. reply' = reply /\ caller' = caller /\ kept' = kept
    BY <1>7 DEF Accept, Reject, StartWork, Fails, Complete, Cancel, trailVars
  <2>2. CASE Accept(d)
    <3>1. agent'[d] = "accepted" /\ Tells(d, "submitted") /\ agent[d] = "sent" /\ task[d] = "none"
      BY <1>1, <2>2 DEF Accept, AgentGoes, AgentSide, TypeInv, TypeOK
    <3>2. ~Proposed(d) /\ task[d] \notin Terminal
      BY <1>1, <3>1 DEF Flow, Terminal
    <3> QED BY <1>1, <2>1, <3>1, <3>2, FlowTells
  <2>3. CASE Reject(d)
    <3>1. agent'[d] = "done" /\ Tells(d, "rejected") /\ agent[d] = "accepted" /\ task[d] = "submitted"
      BY <1>1, <2>3 DEF Reject, AgentGoes, AgentSide, TypeInv, TypeOK
    <3>2. ~Proposed(d) /\ task[d] \notin Terminal /\ "rejected" \in Terminal
      BY <1>1, <3>1 DEF Flow, Terminal
    <3> QED BY <1>1, <2>1, <3>1, <3>2, FlowTells
  <2>4. CASE StartWork(d)
    <3>1. agent'[d] = "working" /\ Tells(d, "working") /\ agent[d] = "received" /\ task[d] = "submitted"
      BY <1>1, <2>4 DEF StartWork, AgentGoes, AgentSide, TypeInv, TypeOK
    <3>2. ~Proposed(d) /\ task[d] \notin Terminal
      BY <1>1, <3>1 DEF Flow, Terminal
    <3> QED BY <1>1, <2>1, <3>1, <3>2, FlowTells
  <2>5. CASE Fails(d)
    <3>1. /\ agent'[d] \in {"done", "failing"} /\ Tells(d, "failed")
          /\ agent[d] = "working" /\ task[d] = "working"
      BY <1>1, <2>5 DEF Fails, AgentGoes, AgentSide, TypeInv, TypeOK
    <3>2. ~Proposed(d) /\ task[d] \notin Terminal /\ "failed" \in Terminal
      BY <1>1, <3>1 DEF Flow, Terminal
    <3> QED BY <1>1, <2>1, <3>1, <3>2, FlowTells
  <2>6. CASE Complete(d)
    <3>1. /\ agent'[d] = "completed" /\ Tells(d, "completed")
          /\ agent[d] = "published" /\ task[d] = "working"
      BY <1>1, <2>6 DEF Complete, AgentGoes, AgentSide, TypeInv, TypeOK
    <3>2. Proposed(d) /\ task[d] \notin Terminal /\ "completed" \in Terminal
      BY <1>1, <3>1 DEF Flow, Terminal
    <3> QED BY <1>1, <2>1, <3>1, <3>2, FlowTells
  <2>7. CASE Cancel(d)
    <3>1. task[d] \notin Terminal \cup {"none"} /\ "canceled" \in Terminal
      BY <2>7 DEF Cancel, Terminal
    <3>2. CASE agent[d] \in Underway /\ Tells(d, "canceled") /\ AgentGoes(d, "done")
      <4>1. agent'[d] = "done" /\ agent[d] \notin {"done", "died"}
        BY <3>2 DEF AgentGoes, Underway, TypeInv, TypeOK
      <4> QED BY <1>1, <2>1, <3>1, <3>2, <4>1, FlowTells
    <3>3. CASE agent[d] = "died" /\ caller[d] = "streaming" /\ Tells(d, "canceled")
               /\ UNCHANGED agent
      BY <1>1, <2>1, <3>1, <3>3, FlowTells
    <3>4. CASE agent[d] = "died" /\ task' = [task EXCEPT ![d] = "canceled"]
               /\ UNCHANGED <<stream, agent>>
      <4>1. task'[d] = "canceled"
        BY <3>4 DEF TypeInv, TypeOK
      <4> QED BY <1>1, <2>1, <3>1, <3>4, <4>1, FlowUnheard
    <3> QED BY <2>7, <3>2, <3>3, <3>4 DEF Cancel
  <2> QED BY <1>7, <2>2, <2>3, <2>4, <2>5, <2>6, <2>7
<1>8. CASE Receive(d) \/ Close(d)
  <2>1. /\ kept' = kept /\ stream' = stream /\ reply' = reply /\ task' = task /\ caller' = caller
    BY <1>8 DEF Receive, Close, Begin, Collide
  <2>2. CASE Receive(d)
    <3>1. agent[d] = "accepted" /\ agent'[d] \in {"receiving", "died"}
      BY <2>2 DEF Receive, AgentGoes, TypeInv, TypeOK
    <3>2. ~Proposed(d)
      BY <1>1, <3>1 DEF Flow
    <3> QED BY <1>1, <2>1, <3>1, <3>2, FlowUntouched
  <2>3. CASE Close(d)
    <3>1. agent[d] \in {"completed", "failing"} /\ agent'[d] \in {"closing", "died"}
      BY <2>3 DEF Close, AgentGoes, TypeInv, TypeOK
    <3> QED BY <1>1, <2>1, <3>1, FlowUntouched
  <2> QED BY <1>8, <2>2, <2>3
<1>9. ASSUME NEW p \in Process, Written(p) \/ NotWritten(p)
      PROVE  Flow(d)'
  <2>1. /\ stream' = stream /\ reply' = reply /\ task' = task /\ kept \subseteq kept'
        /\ writing[p] # Idle
    BY <1>9 DEF Written, NotWritten, Write, CannotWrite
  <2>2. /\ writing[p].entry.call \in Call
        /\ writing[p].entry.event \in {"asked", "answered", "received", "completed", "failed"}
    BY <2>1, EntryParts DEF TypeInv, TypeOK, TrailTypeOK
  <2>3. CASE d # writing[p].entry.call
    <3>1. caller'[d] = caller[d] /\ agent'[d] = agent[d]
      BY <1>9, <2>2, <2>3 DEF Written, NotWritten, CallerGoes, AgentGoes, TypeInv, TypeOK
    <3> QED BY <1>1, <2>1, <3>1, FlowUntouched
  <2>4. CASE d = writing[p].entry.call /\ writing[p].entry.event \in {"asked", "answered"}
    <3>1. /\ agent' = agent
          /\ \/ caller'[d] \in {"asked", "raised"}
             \/ caller'[d] = "returned" /\ writing[p].entry.event = "answered"
      BY <1>9, <2>4 DEF Written, NotWritten, CallerGoes, TypeInv, TypeOK
    <3>2. writing[p].entry.event = "answered" => caller[d] = "answering"
      BY <2>1, <2>4 DEF RecordInv, Recording
    <3> QED BY <1>1, <2>1, <3>1, <3>2, FlowUntouched
  <2>5. CASE d = writing[p].entry.call /\ writing[p].entry.event \notin {"asked", "answered"}
    <3>1. /\ caller' = caller
          /\ \/ agent'[d] \in {"done", "died"}
             \/ agent'[d] = "received" /\ writing[p].entry.event = "received"
      BY <1>9, <2>5 DEF Written, NotWritten, AgentGoes, TypeInv, TypeOK
    <3>2. /\ writing[p].entry.event = "received" => agent[d] = "receiving"
          /\ agent[d] \in {"receiving", "closing"}
      BY <2>1, <2>2, <2>5 DEF RecordInv, Recording
    <3>3. agent[d] = "receiving" => ~Proposed(d)
      BY <1>1 DEF Flow
    <3> QED BY <1>1, <2>1, <3>1, <3>2, <3>3, FlowUntouched
  <2> QED BY <2>3, <2>4, <2>5
<1>10. ASSUME NEW p \in Process, Restart(p)
       PROVE  Flow(d)'
  <2>1. kept' = kept /\ stream' = stream /\ reply' = reply /\ task' = task
    BY <1>10 DEF Restart, Forget
  <2>2. /\ caller'[d] \in {caller[d], "gone"}
        /\ agent'[d] \in {agent[d], "died"}
        /\ agent[d] \in {"done", "died"} => agent'[d] = agent[d]
    BY <1>10 DEF Restart, Underway
  <2> QED BY <1>1, <2>1, <2>2, FlowUntouched
<1>11. CASE CallerStep(d) \/ AgentStep(d) \/ CannotConnect(d) \/ StreamBreaks(d) \/ Cancel(d)
  BY <1>1, <1>4, <1>5, <1>6, <1>7, <1>8, <1>11, FlowAbsorb, FlowPublish DEF CallerStep, AgentStep
<1> QED BY <1>2, <1>3, <1>9, <1>10, <1>11 DEF Next

LEMMA FlowInit == Init => FlowInv
<1> SUFFICES ASSUME Init, NEW c \in Call PROVE Flow(c)
  BY DEF FlowInv
<1>1. /\ stream[c] = <<>> /\ reply[c].state = "" /\ reply[c].data = None
      /\ caller[c] = "new" /\ agent[c] = "none" /\ task[c] = "none"
  BY DEF Init
<1>2. ~Proposed(c)
  <2>1. Len(stream[c]) = 0 /\ reply[c].data = None
    BY <1>1, EmptySeq
  <2>2. \A i \in 1..Len(stream[c]) : FALSE
    BY <2>1
  <2> QED BY <2>1, <2>2 DEF Proposed
<1> QED BY <1>1, <1>2 DEF Flow, Leads

-------------------------------------------------------------------------------
ExchangeInv == TypeInv /\ RecordInv /\ FlowInv

LEMMA ExchangeInvariant == Spec => []ExchangeInv
<1>1. Init => ExchangeInv
  BY ExchangeInit, RecordsInit, FlowInit DEF ExchangeInv
<1>2. ExchangeInv /\ [Next]_vars => ExchangeInv'
  BY ExchangeTypeStep, RecordsStep, FlowStep DEF ExchangeInv
<1> QED BY <1>1, <1>2, PTL DEF Spec

(* Every variable of a call and of the trail keeps its type, whatever      *)
(* processes restart and whichever appends fail.                           *)
THEOREM ExchangeTypeCorrect == Spec => []TypeOK
<1>1. ExchangeInv => TypeOK
  BY DEF ExchangeInv, TypeInv
<1> QED BY <1>1, ExchangeInvariant, PTL

(* An ask() that comes back holds what became of its task.                 *)
THEOREM ExchangeReply == Spec => []ReplyIsTheTask
<1>1. ExchangeInv => ReplyIsTheTask
  <2> SUFFICES ASSUME ExchangeInv, NEW c \in Call, caller[c] \in {"closed", "answering", "returned"}
               PROVE  /\ reply[c].state # task[c] =>
                            /\ agent[c] = "died" /\ reply[c].state \notin Terminal
                            /\ task[c] = "canceled"
                      /\ reply[c].state \notin Terminal => agent[c] = "died"
                      /\ reply[c].state = "completed" => reply[c].data = c
                      /\ reply[c].data # None =>
                            reply[c].state \in {"working", "completed", "canceled"}
    BY DEF ReplyIsTheTask
  <2>1. /\ Flow(c) /\ CallerSide(c) /\ AgentSide(c)
    BY DEF ExchangeInv, FlowInv, RecordInv
  <2>2. stream[c] = <<>> /\ (agent[c] \in {"done", "died"} \/ task[c] \in Terminal)
    BY <2>1 DEF Flow
  <2>3. Proposed(c) <=> reply[c].data # None
    <3>1. Len(stream[c]) = 0
      BY <2>2, EmptySeq
    <3>2. \A i \in 1..Len(stream[c]) : FALSE
      BY <3>1
    <3> QED BY <3>2 DEF Proposed
  <2>4. task[c] # "none"
    <3>1. task[c] = "none" => agent[c] = "died"
      BY <2>1, <2>2 DEF AgentSide, Terminal
    <3> QED BY <2>1, <3>1 DEF AgentSide
  <2>5. task[c] \in Terminal \/ agent[c] = "died"
    BY <2>1, <2>2 DEF AgentSide
  <2>6. CASE reply[c].state = task[c]
    BY <2>1, <2>3, <2>5, <2>6 DEF Flow
  <2>7. CASE Unheard(c)
    <3>1. /\ agent[c] = "died" /\ task[c] = "canceled"
          /\ reply[c].state = "working" \/ (reply[c].state = "submitted" /\ ~Proposed(c))
      BY <2>2, <2>7 DEF Unheard, Leads
    <3> QED BY <2>3, <3>1 DEF Terminal
  <2>8. reply[c].state = task[c] \/ Unheard(c)
    BY <2>1, <2>2, <2>4 DEF Flow, Leads
  <2> QED BY <2>6, <2>7, <2>8
<1> QED BY <1>1, ExchangeInvariant, PTL

(* What an append under way says of its call. *)
LEMMA BegunOrKept ==
    ASSUME ExchangeInv, NEW c \in Call,
           NEW event \in {"asked", "answered", "received", "completed", "failed"},
           Is(c, event) \in Begun, Is(c, event) \notin kept
    PROVE  /\ event = "asked" => caller[c] = "asking"
           /\ event = "answered" => caller[c] = "answering"
           /\ event = "received" => agent[c] = "receiving"
           /\ event \in {"completed", "failed"} => agent[c] = "closing"
<1>1. PICK q \in Process : writing[q] # Idle /\ writing[q].entry = Is(c, event)
  BY DEF Begun
<1>2. Is(c, event).call = c /\ Is(c, event).event = event
  BY DEF Is
<1> QED BY <1>1, <1>2 DEF ExchangeInv, RecordInv, Recording

(* The trail never tells of an effect before its cause, and tells the      *)
(* whole of a call that ended well.                                        *)
THEOREM ExchangeTrail == Spec => []RecordsTellTheCall
<1>1. ExchangeInv => RecordsTellTheCall
  <2> SUFFICES ASSUME ExchangeInv, NEW c \in Call
               PROVE  /\ Is(c, "received") \in Begun => Is(c, "asked") \in kept
                      /\ Is(c, "completed") \in Begun \/ Is(c, "failed") \in Begun =>
                            Is(c, "received") \in kept
                      /\ Is(c, "answered") \in Begun =>
                            /\ Is(c, "asked") \in kept
                            /\ reply[c].data # None => Is(c, "received") \in kept
                      /\ caller[c] = "returned" => Is(c, "answered") \in kept
                      /\ agent[c] = "done" /\ task[c] = "completed" => Is(c, "completed") \in kept
                      /\ agent[c] = "done" /\ task[c] = "failed" /\ AgentOf[c] \notin Silent =>
                            Is(c, "failed") \in kept
    BY DEF RecordsTellTheCall
  <2>1. CallerSide(c) /\ AgentSide(c) /\ Flow(c)
    BY DEF ExchangeInv, RecordInv, FlowInv
  <2>2. Is(c, "received") \in Begun => agent[c] = "receiving" \/ Is(c, "received") \in kept
    BY BegunOrKept
  <2>3. Is(c, "completed") \in Begun => agent[c] = "closing" \/ Is(c, "completed") \in kept
    BY BegunOrKept
  <2>4. Is(c, "failed") \in Begun => agent[c] = "closing" \/ Is(c, "failed") \in kept
    BY BegunOrKept
  <2>5. Is(c, "answered") \in Begun => caller[c] = "answering" \/ Is(c, "answered") \in kept
    BY BegunOrKept
  <2>6. Is(c, "received") \in kept => Is(c, "asked") \in kept
    BY <2>1 DEF CallerSide
  <2>7. reply[c].data # None => Is(c, "received") \in kept
    BY <2>1 DEF Flow, Proposed
  <2> QED BY <2>1, <2>2, <2>3, <2>4, <2>5, <2>6, <2>7 DEF CallerSide, AgentSide
<1> QED BY <1>1, ExchangeInvariant, PTL

(* A call that has ended leaves its HTTP client open only if nothing was   *)
(* ever sent.                                                              *)
THEOREM ExchangeLeak == Spec => []LeakIsUnsent
<1>1. ExchangeInv => LeakIsUnsent
  <2> SUFFICES ASSUME ExchangeInv, NEW c \in Call, http[c] = "open", caller[c] \in Ended
               PROVE  agent[c] = "none" /\ Is(c, "answered") \notin Begun
    BY DEF LeakIsUnsent
  <2>1. CallerSide(c)
    BY DEF ExchangeInv, RecordInv
  <2>2. caller[c] = "raised" /\ agent[c] = "none" /\ Is(c, "answered") \notin kept
    BY <2>1 DEF CallerSide, Ended
  <2>3. Is(c, "answered") \in Begun => caller[c] = "answering" \/ Is(c, "answered") \in kept
    BY BegunOrKept
  <2> QED BY <2>2, <2>3
<1> QED BY <1>1, ExchangeInvariant, PTL

(* "One file per writer removes the contention entirely": as long as no    *)
(* two processes append to one file, no append is refused and none that    *)
(* returned is lost, however many processes write and restart.             *)
THEOREM ExchangeContention == ASSUME OneWriter PROVE Spec => []NoContention
<1>1. Init => ContentionInv
  <2> SUFFICES ASSUME Init
               PROVE  ContentionInv
    OBVIOUS
  <2>1. NoneRefused /\ Filed
    BY DEF Init, TrailInit, NoneRefused, Filed
  <2>2. ASSUME NEW p \in Process
        PROVE  Undisturbed(p)
    <3>1. nextId[p] = 0 /\ writing[p] = Idle
      BY ZenonT(20) DEF Init, TrailInit
    <3> QED BY <3>1 DEF Undisturbed
  <2> QED BY <2>1, <2>2 DEF ContentionInv
<1>2. TypeInv /\ ContentionInv /\ [Next]_vars => ContentionInv'
  <2>1. SUFFICES ASSUME TypeInv, ContentionInv, [Next]_vars
                 PROVE  ContentionInv'
    OBVIOUS
  <2>2. TrailInv
    BY <2>1 DEF TypeInv, TypeOK, TrailInv
  <2>3. TrailStep
    BY <2>1, StepIsATrailStep
  <2> QED BY <2>1, <2>2, <2>3, TrailKeepsContention
<1>3. TypeInv /\ ContentionInv => NoContention
  BY DEF ContentionInv, Filed, NoContention, trail, TypeInv, TypeOK, TrailInv, TrailTypeOK
<1>4. Spec => []TypeInv
  <2>1. ExchangeInv => TypeInv
    BY DEF ExchangeInv
  <2> QED BY <2>1, ExchangeInvariant, PTL
<1> QED BY <1>1, <1>2, <1>3, <1>4, PTL DEF Spec
===============================================================================
