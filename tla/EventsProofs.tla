---------------------------- MODULE EventsProofs ----------------------------
(***************************************************************************)
(* Proofs about Events: for any number of operations, in and beside the    *)
(* transaction, and any subscriptions, whoever subscribed to a type by its *)
(* name is told of each operation exactly as often as is due.              *)
(***************************************************************************)
EXTENDS Events, FiniteSetTheorems, TLAPS

(* The events s is told of: a write's success in the transaction once      *)
(* that has committed and the hook of the operation has run.               *)
Due(o, type) ==
  \/ type = <<OpKind[o], "start">> /\ stage[o] # "none"
  \/ type = <<OpKind[o], "failed">> /\ stage[o] = "failed"
  \/ /\ type = <<OpKind[o], "success">>
     /\ stage[o] = "succeeded"
     /\ o \in Deferring => txStatus = "committed" /\ ~Hooked(o)

Names(s, type) == Pattern[s].exact /\ Pattern[s].types = {type}

ToldWhatIsDue ==
  \A s \in Subscribers, o \in Operations, type \in EventTypes :
    Names(s, type) /\ type # AnyType =>
      Told(s, o, type) = IF Due(o, type) THEN 1 ELSE 0

EventsTypes ==
  /\ stage \in [Operations -> {"none", "running", "failed", "succeeded", "late"}]
  /\ hooks \in Seq(Deferring)
  /\ deferred = [o \in Operations |-> deferred[o]]
  /\ txStatus \in {"open", "committed", "rolled back"}

(* One hook per operation; while it waits, the operation's queue holds its *)
(* success and nothing else, once it has succeeded.                        *)
HooksWait ==
  /\ \A i, j \in DOMAIN hooks : hooks[i] = hooks[j] => i = j
  /\ \A o \in Operations :
       /\ Hooked(o) =>
            /\ stage[o] \in {"running", "failed", "succeeded"}
            /\ deferred[o] = IF stage[o] = "succeeded"
                             THEN Emitted(o, "success") ELSE <<>>
       /\ stage[o] = "none" => deferred[o] = <<>>
       /\ o \in Deferring /\ stage[o] # "none" /\ ~Hooked(o) =>
            txStatus # "open"

EventsInv == EventsTypes /\ HooksWait /\ ToldWhatIsDue

----------------------------------------------------------------------------
(* Delivery.                                                               *)

LEMMA TopicIs ==
  ASSUME NEW s \in Subscribers, NEW type, Names(s, type)
  PROVE  Topic(s) = type
BY DEF Names, Topic

(* Of the four publications of an event, a subscriber by name gets one.    *)
LEMMA EmittedReaches ==
  ASSUME NEW s \in Subscribers, NEW type, Names(s, type), type # AnyType,
         NEW o, NEW st \in Stages, NEW other
  PROVE  Reaching(Emitted(o, st), s, <<other, type>>)
           = IF other = o /\ type = <<OpKind[o], st>> THEN {1} ELSE {}
<1>. DEFINE t == <<OpKind[o], st>>
            e == Emitted(o, st)
<1>1. /\ DOMAIN e = 1 .. 4
      /\ e[1] = Publication(o, t, t)
      /\ e[2] = Publication(o, t, AnyType)
      /\ e[3] = Publication(o, AnyType, AnyType)
      /\ e[4] = Publication(o, AnyType, AnyType)
  BY DEF Emitted, EmitEvent
<1>2. Topic(s) = type /\ Pattern[s].exact
  BY TopicIs DEF Names
<1>. HIDE DEF e, t
<1>3. Reaching(e, s, <<other, type>>)
        = {i \in 1 .. 4 : /\ e[i].op = other
                          /\ e[i].type = type
                          /\ e[i].topic = type}
  BY <1>1, <1>2 DEF Reaching, FilterPasses
<1>4. \A i \in 1 .. 4 : i # 1 => e[i].topic = AnyType
  BY <1>1 DEF Publication
<1>5. e[1].op = o /\ e[1].type = t /\ e[1].topic = t
  BY <1>1 DEF Publication
<1>6. Reaching(e, s, <<other, type>>)
        = IF other = o /\ type = t THEN {1} ELSE {}
  BY <1>3, <1>4, <1>5
<1> QED
  BY <1>6 DEF e, t

LEMMA NothingReaches ==
  ASSUME NEW s, NEW e
  PROVE  Cardinality(Reaching(<<>>, s, e)) = 0
<1>1. Reaching(<<>>, s, e) = {}
  BY DEF Reaching
<1> QED
  BY <1>1, FS_EmptySet

LEMMA DeliverTells ==
  ASSUME NEW publications, Deliver(publications),
         NEW s \in Subscribers, NEW o \in Operations, NEW type \in EventTypes
  PROVE  Told(s, o, type)' = Told(s, o, type)
           + Cardinality(Reaching(publications, s, <<o, type>>))
<1>. DEFINE all == Subscribers \X Operations \X EventTypes
            then(e) == ThenTold(publications, e[1], e[2], e[3])
            event == <<s, o, type>>
<1>1. delivered' = [e \in {f \in all : then(f) # 0} |-> then(e)]
  BY DEF Deliver
<1>2. event \in all /\ event[1] = s /\ event[2] = o /\ event[3] = type
  OBVIOUS
<1>3. then(event) = ThenTold(publications, s, o, type)
  BY <1>2
<1>4. event \in DOMAIN delivered' <=> then(event) # 0
  BY <1>1, <1>2
<1>5. event \in DOMAIN delivered' => delivered'[event] = then(event)
  BY <1>1
<1>6. Told(s, o, type)' = IF event \in DOMAIN delivered' THEN delivered'[event] ELSE 0
  BY DEF Told
<1>. HIDE DEF then, event, all
<1>7. Told(s, o, type)' = then(event)
  BY <1>4, <1>5, <1>6
<1> QED
  BY <1>3, <1>7 DEF ThenTold

LEMMA EmittedTells ==
  ASSUME NEW o, NEW st \in Stages, Deliver(Emitted(o, st)),
         NEW s \in Subscribers, NEW other \in Operations,
         NEW type \in EventTypes, Names(s, type), type # AnyType
  PROVE  Told(s, other, type)' = Told(s, other, type)
           + (IF other = o /\ type = <<OpKind[o], st>> THEN 1 ELSE 0)
<1>. DEFINE reached == Reaching(Emitted(o, st), s, <<other, type>>)
<1>1. Told(s, other, type)' = Told(s, other, type) + Cardinality(reached)
  BY DeliverTells
<1>2. reached = IF other = o /\ type = <<OpKind[o], st>> THEN {1} ELSE {}
  BY EmittedReaches
<1>. HIDE DEF reached
<1>3. Cardinality(reached)
        = IF other = o /\ type = <<OpKind[o], st>> THEN 1 ELSE 0
  BY <1>2, FS_EmptySet, FS_Singleton
<1> QED
  BY <1>1, <1>3

LEMMA NothingTells ==
  ASSUME Deliver(<<>>), ToldWhatIsDue,
         NEW s \in Subscribers, NEW o \in Operations,
         NEW type \in EventTypes, Names(s, type), type # AnyType
  PROVE  Told(s, o, type)' = Told(s, o, type)
<1>. DEFINE reached == Cardinality(Reaching(<<>>, s, <<o, type>>))
<1>0. reached = 0
  BY NothingReaches
<1>1. Told(s, o, type)' = Told(s, o, type) + reached
  BY DeliverTells
<1>. HIDE DEF reached
<1>2. Told(s, o, type) \in {0, 1}
  BY DEF ToldWhatIsDue
<1> QED
  BY <1>0, <1>1, <1>2

----------------------------------------------------------------------------
LEMMA EventsInitially == EventsInit => EventsInv
<1>. SUFFICES ASSUME EventsInit PROVE EventsInv
  OBVIOUS
<1>. USE DEF EventsInit
<1>1. EventsTypes
  BY DEF EventsTypes
<1>2. HooksWait
  BY InTransactionAssumption DEF HooksWait, Hooked
<1>3. ToldWhatIsDue
  BY DEF ToldWhatIsDue, Due, Told
<1> QED
  BY <1>1, <1>2, <1>3 DEF EventsInv

(* What a step must show of ToldWhatIsDue: where it delivers, and what of  *)
(* it is due from then on.                                                 *)
LEMMA StartStep ==
  ASSUME EventsInv, NEW o \in Operations, StartOperation(o)
  PROVE  EventsInv'
<1>1. /\ stage[o] = "none"
      /\ o \in InTransaction => txStatus = "open"
      /\ stage' = [stage EXCEPT ![o] = "running"]
      /\ hooks' = IF o \in Deferring THEN Append(hooks, o) ELSE hooks
      /\ Deliver(Emitted(o, "start"))
      /\ UNCHANGED <<deferred, txStatus>>
  BY DEF StartOperation
<1>2. EventsTypes'
  <2>0. hooks \in Seq(Deferring)
    BY DEF EventsInv, EventsTypes
  <2>1. hooks' \in Seq(Deferring)
    <3>1. CASE o \in Deferring
      BY <1>1, <2>0, <3>1
    <3>2. CASE o \notin Deferring
      BY <1>1, <2>0, <3>2
    <3> QED
      BY <3>1, <3>2
  <2>2. stage' \in [Operations -> {"none", "running", "failed", "succeeded", "late"}]
    BY <1>1 DEF EventsInv, EventsTypes
  <2>3. /\ deferred' = [x \in Operations |-> deferred'[x]]
        /\ txStatus' \in {"open", "committed", "rolled back"}
    BY <1>1 DEF EventsInv, EventsTypes
  <2> QED
    BY <2>1, <2>2, <2>3 DEF EventsTypes
<1>3. ~Hooked(o)
  BY <1>1 DEF EventsInv, HooksWait
<1>4. \A x \in Operations :
        Hooked(x)' <=> Hooked(x) \/ (x = o /\ o \in Deferring)
  <2>1. CASE o \notin Deferring
    BY <1>1, <2>1 DEF Hooked
  <2>2. CASE o \in Deferring
    <3>0. hooks \in Seq(Deferring)
      BY DEF EventsInv, EventsTypes
    <3>1. /\ Len(hooks) \in Nat
          /\ DOMAIN hooks = 1 .. Len(hooks)
          /\ DOMAIN hooks' = 1 .. Len(hooks) + 1
          /\ hooks'[Len(hooks) + 1] = o
          /\ \A i \in 1 .. Len(hooks) : hooks'[i] = hooks[i]
      BY <1>1, <2>2, <3>0
    <3>2. \A i \in 1 .. Len(hooks) + 1 : i \in 1 .. Len(hooks) \/ i = Len(hooks) + 1
      BY <3>1
    <3>3. Len(hooks) + 1 \in 1 .. Len(hooks) + 1
      BY <3>1
    <3>4. \A i \in 1 .. Len(hooks) : i \in 1 .. Len(hooks) + 1
      BY <3>1
    <3> QED
      BY <2>2, <3>1, <3>2, <3>3, <3>4 DEF Hooked
  <2> QED
    BY <2>1, <2>2
<1>5. \A i, j \in DOMAIN hooks' : hooks'[i] = hooks'[j] => i = j
  <2>1. CASE o \notin Deferring
    BY <1>1, <2>1 DEF EventsInv, HooksWait
  <2>2. CASE o \in Deferring
    <3>0. hooks \in Seq(Deferring)
      BY DEF EventsInv, EventsTypes
    <3>1. /\ Len(hooks) \in Nat
          /\ DOMAIN hooks = 1 .. Len(hooks)
          /\ DOMAIN hooks' = 1 .. Len(hooks) + 1
          /\ hooks'[Len(hooks) + 1] = o
          /\ \A i \in 1 .. Len(hooks) : hooks'[i] = hooks[i]
      BY <1>1, <2>2, <3>0
    <3>2. \A i \in 1 .. Len(hooks) + 1 : i \in 1 .. Len(hooks) \/ i = Len(hooks) + 1
      BY <3>1
    <3>3. \A i \in 1 .. Len(hooks) : hooks[i] # o
      BY <1>3, <3>1 DEF Hooked
    <3>4. \A i, j \in 1 .. Len(hooks) : hooks[i] = hooks[j] => i = j
      BY <3>1 DEF EventsInv, HooksWait
    <3> QED
      BY <3>1, <3>2, <3>3, <3>4
  <2> QED
    BY <2>1, <2>2
<1>6. HooksWait'
  <2>. SUFFICES ASSUME NEW x \in Operations
                PROVE  /\ Hooked(x)' =>
                            /\ stage'[x] \in {"running", "failed", "succeeded"}
                            /\ deferred'[x] = IF stage'[x] = "succeeded"
                                              THEN Emitted(x, "success") ELSE <<>>
                       /\ stage'[x] = "none" => deferred'[x] = <<>>
                       /\ x \in Deferring /\ stage'[x] # "none" /\ ~Hooked(x)' =>
                            txStatus' # "open"
    BY <1>5 DEF HooksWait, Emitted, EmitEvent, Publication
  <2>1. stage'[x] = IF x = o THEN "running" ELSE stage[x]
    BY <1>1 DEF EventsInv, EventsTypes
  <2> QED
    BY <1>1, <1>4, <2>1 DEF EventsInv, HooksWait
<1>7. ToldWhatIsDue'
  <2>. SUFFICES ASSUME NEW s \in Subscribers, NEW x \in Operations,
                       NEW type \in EventTypes, Names(s, type), type # AnyType
                PROVE  Told(s, x, type)' = IF Due(x, type)' THEN 1 ELSE 0
    BY DEF ToldWhatIsDue, Names
  <2>1. Told(s, x, type)' = Told(s, x, type)
          + (IF x = o /\ type = <<OpKind[o], "start">> THEN 1 ELSE 0)
    BY <1>1, EmittedTells DEF Stages
  <2>2. Told(s, x, type) = IF Due(x, type) THEN 1 ELSE 0
    BY DEF EventsInv, ToldWhatIsDue
  <2>3. stage'[x] = IF x = o THEN "running" ELSE stage[x]
    BY <1>1 DEF EventsInv, EventsTypes
  <2>4. CASE x = o
    <3>1. Due(x, type)' <=> type = <<OpKind[o], "start">>
      BY <2>3, <2>4 DEF Due
    <3>2. ~Due(x, type)
      BY <1>1, <2>4 DEF Due
    <3> QED
      BY <2>1, <2>2, <2>4, <3>1, <3>2
  <2>5. CASE x # o
    <3>1. Due(x, type)' <=> Due(x, type)
      BY <1>1, <1>4, <2>3, <2>5 DEF Due
    <3> QED
      BY <2>1, <2>2, <2>5, <3>1
  <2> QED
    BY <2>4, <2>5
<1> QED
  BY <1>2, <1>6, <1>7 DEF EventsInv

LEMMA FailStep ==
  ASSUME EventsInv, NEW o \in Operations, OperationFails(o)
  PROVE  EventsInv'
<1>1. /\ stage[o] = "running"
      /\ stage' = [stage EXCEPT ![o] = "failed"]
      /\ Deliver(Emitted(o, "failed"))
      /\ UNCHANGED <<deferred, hooks, txStatus>>
  BY DEF OperationFails
<1>2. EventsTypes'
  BY <1>1 DEF EventsInv, EventsTypes
<1>3. \A x : Hooked(x)' <=> Hooked(x)
  BY <1>1 DEF Hooked
<1>4. HooksWait'
  <2>. SUFFICES ASSUME NEW x \in Operations
                PROVE  /\ Hooked(x)' =>
                            /\ stage'[x] \in {"running", "failed", "succeeded"}
                            /\ deferred'[x] = IF stage'[x] = "succeeded"
                                              THEN Emitted(x, "success") ELSE <<>>
                       /\ stage'[x] = "none" => deferred'[x] = <<>>
                       /\ x \in Deferring /\ stage'[x] # "none" /\ ~Hooked(x)' =>
                            txStatus' # "open"
    BY <1>1 DEF EventsInv, HooksWait, Emitted, EmitEvent, Publication
  <2>1. stage'[x] = IF x = o THEN "failed" ELSE stage[x]
    BY <1>1 DEF EventsInv, EventsTypes
  <2> QED
    BY <1>1, <1>3, <2>1 DEF EventsInv, HooksWait
<1>5. ToldWhatIsDue'
  <2>. SUFFICES ASSUME NEW s \in Subscribers, NEW x \in Operations,
                       NEW type \in EventTypes, Names(s, type), type # AnyType
                PROVE  Told(s, x, type)' = IF Due(x, type)' THEN 1 ELSE 0
    BY DEF ToldWhatIsDue, Names
  <2>1. Told(s, x, type)' = Told(s, x, type)
          + (IF x = o /\ type = <<OpKind[o], "failed">> THEN 1 ELSE 0)
    BY <1>1, EmittedTells DEF Stages
  <2>2. Told(s, x, type) = IF Due(x, type) THEN 1 ELSE 0
    BY DEF EventsInv, ToldWhatIsDue
  <2>3. stage'[x] = IF x = o THEN "failed" ELSE stage[x]
    BY <1>1 DEF EventsInv, EventsTypes
  <2>4. CASE x = o
    <3>1. Due(x, type)' <=> \/ type = <<OpKind[o], "start">>
                            \/ type = <<OpKind[o], "failed">>
      BY <2>3, <2>4 DEF Due
    <3>2. Due(x, type) <=> type = <<OpKind[o], "start">>
      BY <1>1, <2>4 DEF Due
    <3>3. <<OpKind[o], "start">> # <<OpKind[o], "failed">>
      OBVIOUS
    <3> QED
      BY <2>1, <2>2, <2>4, <3>1, <3>2, <3>3
  <2>5. CASE x # o
    <3>1. Due(x, type)' <=> Due(x, type)
      BY <1>1, <1>3, <2>3, <2>5 DEF Due
    <3> QED
      BY <2>1, <2>2, <2>5, <3>1
  <2> QED
    BY <2>4, <2>5
<1> QED
  BY <1>2, <1>4, <1>5 DEF EventsInv

LEMMA SuccessStep ==
  ASSUME EventsInv, NEW o \in Operations, OperationSucceeds(o)
  PROVE  EventsInv'
<1>. DEFINE now == IF o \in Deferring /\ ~Hooked(o) THEN "late" ELSE "succeeded"
<1>1. /\ stage[o] = "running"
      /\ stage' = [stage EXCEPT ![o] = now]
      /\ UNCHANGED <<hooks, txStatus>>
  BY DEF OperationSucceeds
<1>2. CASE o \in Deferring
  <2>1. /\ deferred' = [deferred EXCEPT ![o] = @ \o Emitted(o, "success")]
        /\ UNCHANGED delivered
    BY <1>2 DEF OperationSucceeds
  <2>2. EventsTypes'
    BY <1>1, <2>1 DEF EventsInv, EventsTypes
  <2>3. \A x : Hooked(x)' <=> Hooked(x)
    BY <1>1 DEF Hooked
  <2>4. Hooked(o) => /\ now = "succeeded"
                     /\ deferred'[o] = Emitted(o, "success")
    <3>1. Hooked(o) => deferred[o] = <<>>
      BY <1>1 DEF EventsInv, HooksWait
    <3>2. <<>> \o Emitted(o, "success") = Emitted(o, "success")
      BY DEF Emitted, EmitEvent
    <3>3. deferred'[o] = deferred[o] \o Emitted(o, "success")
      BY <2>1 DEF EventsInv, EventsTypes
    <3> QED
      BY <3>1, <3>2, <3>3
  <2>5. ~Hooked(o) => now = "late"
    BY <1>2
  <2>. HIDE DEF now
  <2>6. HooksWait'
    <3>. SUFFICES ASSUME NEW x \in Operations
                  PROVE  /\ Hooked(x)' =>
                              /\ stage'[x] \in {"running", "failed", "succeeded"}
                              /\ deferred'[x] = IF stage'[x] = "succeeded"
                                                THEN Emitted(x, "success") ELSE <<>>
                         /\ stage'[x] = "none" => deferred'[x] = <<>>
                         /\ x \in Deferring /\ stage'[x] # "none" /\ ~Hooked(x)' =>
                              txStatus' # "open"
      BY <1>1 DEF EventsInv, HooksWait, Emitted, EmitEvent, Publication
    <3>1. /\ stage'[x] = IF x = o THEN now ELSE stage[x]
          /\ x # o => deferred'[x] = deferred[x]
      BY <1>1, <2>1 DEF EventsInv, EventsTypes
    <3>2. CASE x # o
      BY <1>1, <2>3, <3>1, <3>2 DEF EventsInv, HooksWait
    <3>3. CASE x = o
      <4>1. ~Hooked(o) => txStatus # "open"
        BY <1>1, <1>2 DEF EventsInv, HooksWait
      <4> QED
        BY <1>1, <2>3, <2>4, <2>5, <3>1, <3>3, <4>1
    <3> QED
      BY <3>2, <3>3
  <2>7. ToldWhatIsDue'
    <3>. SUFFICES ASSUME NEW s \in Subscribers, NEW x \in Operations,
                         NEW type \in EventTypes, Names(s, type), type # AnyType
                  PROVE  Told(s, x, type)' = IF Due(x, type)' THEN 1 ELSE 0
      BY DEF ToldWhatIsDue, Names
    <3>1. Told(s, x, type)' = IF Due(x, type) THEN 1 ELSE 0
      BY <2>1 DEF EventsInv, ToldWhatIsDue, Told
    <3>2. stage'[x] = IF x = o THEN now ELSE stage[x]
      BY <1>1 DEF EventsInv, EventsTypes
    <3>3. Due(x, type)' <=> Due(x, type)
      <4>1. CASE x # o
        BY <1>1, <2>3, <3>2, <4>1 DEF Due
      <4>2. CASE x = o
        BY <1>1, <1>2, <2>3, <2>4, <2>5, <3>2, <4>2 DEF Due
      <4> QED
        BY <4>1, <4>2
    <3> QED
      BY <3>1, <3>3
  <2> QED
    BY <2>2, <2>6, <2>7 DEF EventsInv
<1>3. CASE o \notin Deferring
  <2>1. /\ Deliver(Emitted(o, "success"))
        /\ UNCHANGED deferred
        /\ now = "succeeded"
    BY <1>3 DEF OperationSucceeds
  <2>2. EventsTypes'
    BY <1>1, <2>1 DEF EventsInv, EventsTypes
  <2>3. \A x : Hooked(x)' <=> Hooked(x)
    BY <1>1 DEF Hooked
  <2>4. ~Hooked(o)
    <3>0. hooks \in Seq(Deferring)
      BY DEF EventsInv, EventsTypes
    <3>1. \A i \in DOMAIN hooks : hooks[i] \in Deferring
      BY <3>0
    <3> QED
      BY <1>3, <3>1 DEF Hooked
  <2>. HIDE DEF now
  <2>5. HooksWait'
    <3>. SUFFICES ASSUME NEW x \in Operations
                  PROVE  /\ Hooked(x)' =>
                              /\ stage'[x] \in {"running", "failed", "succeeded"}
                              /\ deferred'[x] = IF stage'[x] = "succeeded"
                                                THEN Emitted(x, "success") ELSE <<>>
                         /\ stage'[x] = "none" => deferred'[x] = <<>>
                         /\ x \in Deferring /\ stage'[x] # "none" /\ ~Hooked(x)' =>
                              txStatus' # "open"
      BY <1>1 DEF EventsInv, HooksWait, Emitted, EmitEvent, Publication
    <3>1. stage'[x] = IF x = o THEN "succeeded" ELSE stage[x]
      BY <1>1, <2>1 DEF EventsInv, EventsTypes
    <3> QED
      BY <1>1, <1>3, <2>1, <2>3, <2>4, <3>1 DEF EventsInv, HooksWait
  <2>6. ToldWhatIsDue'
    <3>. SUFFICES ASSUME NEW s \in Subscribers, NEW x \in Operations,
                         NEW type \in EventTypes, Names(s, type), type # AnyType
                  PROVE  Told(s, x, type)' = IF Due(x, type)' THEN 1 ELSE 0
      BY DEF ToldWhatIsDue, Names
    <3>1. Told(s, x, type)' = Told(s, x, type)
            + (IF x = o /\ type = <<OpKind[o], "success">> THEN 1 ELSE 0)
      BY <2>1, EmittedTells DEF Stages
    <3>2. Told(s, x, type) = IF Due(x, type) THEN 1 ELSE 0
      BY DEF EventsInv, ToldWhatIsDue
    <3>3. stage'[x] = IF x = o THEN "succeeded" ELSE stage[x]
      BY <1>1, <2>1 DEF EventsInv, EventsTypes
    <3>4. CASE x = o
      <4>1. Due(x, type)' <=> \/ type = <<OpKind[o], "start">>
                              \/ type = <<OpKind[o], "success">>
        BY <1>3, <3>3, <3>4 DEF Due
      <4>2. Due(x, type) <=> type = <<OpKind[o], "start">>
        BY <1>1, <3>4 DEF Due
      <4>3. <<OpKind[o], "start">> # <<OpKind[o], "success">>
        OBVIOUS
      <4> QED
        BY <3>1, <3>2, <3>4, <4>1, <4>2, <4>3
    <3>5. CASE x # o
      <4>1. Due(x, type)' <=> Due(x, type)
        BY <1>1, <2>3, <3>3, <3>5 DEF Due
      <4> QED
        BY <3>1, <3>2, <3>5, <4>1
    <3> QED
      BY <3>4, <3>5
  <2> QED
    BY <2>2, <2>5, <2>6 DEF EventsInv
<1> QED
  BY <1>2, <1>3

(* While the transaction is open every hook of a started operation waits,  *)
(* so its end alone makes no success due.                                  *)
LEMMA EndStep ==
  ASSUME EventsInv, TransactionEnds
  PROVE  EventsInv'
<1>1. /\ txStatus = "open"
      /\ txStatus' \in {"committed", "rolled back"}
      /\ UNCHANGED <<stage, deferred, hooks, delivered>>
  BY DEF TransactionEnds
<1>2. EventsTypes'
  BY <1>1 DEF EventsInv, EventsTypes
<1>3. \A x : Hooked(x)' <=> Hooked(x)
  BY <1>1 DEF Hooked
<1>4. HooksWait'
  BY <1>1, <1>3 DEF EventsInv, HooksWait, Emitted, EmitEvent, Publication
<1>5. ToldWhatIsDue'
  <2>. SUFFICES ASSUME NEW s \in Subscribers, NEW x \in Operations,
                       NEW type \in EventTypes, Names(s, type), type # AnyType
                PROVE  Told(s, x, type)' = IF Due(x, type)' THEN 1 ELSE 0
    BY DEF ToldWhatIsDue, Names
  <2>1. Told(s, x, type)' = IF Due(x, type) THEN 1 ELSE 0
    BY <1>1 DEF EventsInv, ToldWhatIsDue, Told
  <2>2. x \in Deferring /\ stage[x] = "succeeded" => Hooked(x)
    BY <1>1 DEF EventsInv, HooksWait
  <2>3. Due(x, type)' <=> Due(x, type)
    BY <1>1, <1>3, <2>2 DEF Due
  <2> QED
    BY <2>1, <2>3
<1> QED
  BY <1>2, <1>4, <1>5 DEF EventsInv

(* The first hook runs, and its operation has none any more.               *)
LEMMA HookStep ==
  ASSUME EventsInv, RunHook
  PROVE  EventsInv'
<1>. DEFINE h == Head(hooks)
<1>1. /\ txStatus # "open"
      /\ hooks # <<>>
      /\ hooks' = Tail(hooks)
      /\ deferred' = [deferred EXCEPT ![h] = <<>>]
      /\ IF txStatus = "committed" THEN Deliver(deferred[h])
         ELSE UNCHANGED delivered
      /\ UNCHANGED <<stage, txStatus>>
  BY DEF RunHook
<1>2. hooks \in Seq(Deferring)
  BY DEF EventsInv, EventsTypes
<1>3. /\ hooks' \in Seq(Deferring)
      /\ Len(hooks) \in Nat \ {0}
      /\ DOMAIN hooks = 1 .. Len(hooks)
      /\ DOMAIN hooks' = 1 .. Len(hooks) - 1
      /\ \A i \in 1 .. Len(hooks) - 1 : hooks'[i] = hooks[i + 1]
      /\ h = hooks[1]
  BY <1>1, <1>2
<1>4. \A i, j \in 1 .. Len(hooks) : hooks[i] = hooks[j] => i = j
  BY <1>3 DEF EventsInv, HooksWait
<1>5. h \in Deferring /\ h \in Operations /\ Hooked(h)
  <2>1. 1 \in DOMAIN hooks /\ hooks[1] \in Deferring
    BY <1>2, <1>3
  <2> QED
    BY <1>3, <2>1, InTransactionAssumption DEF Hooked, Deferring
<1>. HIDE DEF h
<1>6. EventsTypes'
  BY <1>1, <1>3 DEF EventsInv, EventsTypes
<1>7. \A i, j \in DOMAIN hooks' : hooks'[i] = hooks'[j] => i = j
  <2>1. \A i \in 1 .. Len(hooks) - 1 : i + 1 \in 1 .. Len(hooks)
    BY <1>3
  <2>2. \A i, j \in 1 .. Len(hooks) - 1 :
          hooks'[i] = hooks'[j] => i + 1 = j + 1
    BY <1>3, <1>4, <2>1
  <2>3. \A i, j \in 1 .. Len(hooks) - 1 : i + 1 = j + 1 => i = j
    BY <1>3
  <2> QED
    BY <1>3, <2>2, <2>3
<1>8. \A x : Hooked(x)' <=> Hooked(x) /\ x # h
  <2>1. ASSUME NEW x, Hooked(x)' PROVE Hooked(x) /\ x # h
    <3>1. PICK i \in 1 .. Len(hooks) - 1 : hooks'[i] = x
      BY <1>3, <2>1 DEF Hooked
    <3>2. /\ i + 1 \in 1 .. Len(hooks)
          /\ 1 \in 1 .. Len(hooks)
          /\ i + 1 # 1
          /\ hooks[i + 1] = x
      BY <1>3, <3>1
    <3> QED
      BY <1>3, <1>4, <3>2 DEF Hooked
  <2>2. ASSUME NEW x, Hooked(x), x # h PROVE Hooked(x)'
    <3>1. PICK i \in 1 .. Len(hooks) : hooks[i] = x
      BY <1>3, <2>2 DEF Hooked
    <3>2. i # 1
      BY <1>3, <2>2, <3>1
    <3>3. i - 1 \in 1 .. Len(hooks) - 1 /\ (i - 1) + 1 = i
      BY <1>3, <3>2
    <3>4. hooks'[i - 1] = x
      BY <1>3, <3>1, <3>3
    <3> QED
      BY <1>3, <3>3, <3>4 DEF Hooked
  <2> QED
    BY <2>1, <2>2
<1>9. HooksWait'
  <2>. SUFFICES ASSUME NEW x \in Operations
                PROVE  /\ Hooked(x)' =>
                            /\ stage'[x] \in {"running", "failed", "succeeded"}
                            /\ deferred'[x] = IF stage'[x] = "succeeded"
                                              THEN Emitted(x, "success") ELSE <<>>
                       /\ stage'[x] = "none" => deferred'[x] = <<>>
                       /\ x \in Deferring /\ stage'[x] # "none" /\ ~Hooked(x)' =>
                            txStatus' # "open"
    BY <1>7 DEF HooksWait, Emitted, EmitEvent, Publication
  <2>1. deferred'[x] = IF x = h THEN <<>> ELSE deferred[x]
    BY <1>1 DEF EventsInv, EventsTypes
  <2> QED
    BY <1>1, <1>8, <2>1 DEF EventsInv, HooksWait
<1>10. ToldWhatIsDue'
  <2>. SUFFICES ASSUME NEW s \in Subscribers, NEW x \in Operations,
                       NEW type \in EventTypes, Names(s, type), type # AnyType
                PROVE  Told(s, x, type)' = IF Due(x, type)' THEN 1 ELSE 0
    BY DEF ToldWhatIsDue, Names
  <2>1. Told(s, x, type) = IF Due(x, type) THEN 1 ELSE 0
    BY DEF EventsInv, ToldWhatIsDue
  <2>2. CASE txStatus # "committed"
    <3>1. Told(s, x, type)' = Told(s, x, type)
      BY <1>1, <2>2 DEF Told
    <3>2. Due(x, type)' <=> Due(x, type)
      BY <1>1, <1>5, <1>8, <2>2 DEF Due
    <3> QED
      BY <2>1, <3>1, <3>2
  <2>3. CASE txStatus = "committed" /\ stage[h] # "succeeded"
    <3>1. deferred[h] = <<>>
      BY <1>5, <2>3 DEF EventsInv, HooksWait
    <3>2. Deliver(<<>>)
      BY <1>1, <2>3, <3>1
    <3>3. Told(s, x, type)' = Told(s, x, type)
      BY <3>2, NothingTells DEF EventsInv
    <3>4. Due(x, type)' <=> Due(x, type)
      BY <1>1, <1>8, <2>3 DEF Due
    <3> QED
      BY <2>1, <3>3, <3>4
  <2>4. CASE txStatus = "committed" /\ stage[h] = "succeeded"
    <3>1. deferred[h] = Emitted(h, "success")
      BY <1>5, <2>4 DEF EventsInv, HooksWait
    <3>2. Deliver(Emitted(h, "success"))
      BY <1>1, <2>4, <3>1
    <3>3. Told(s, x, type)' = Told(s, x, type)
            + (IF x = h /\ type = <<OpKind[h], "success">> THEN 1 ELSE 0)
      BY <3>2, EmittedTells DEF Stages
    <3>4. CASE x # h
      <4>1. Due(x, type)' <=> Due(x, type)
        BY <1>1, <1>8, <3>4 DEF Due
      <4> QED
        BY <2>1, <3>3, <3>4, <4>1
    <3>5. CASE x = h
      <4>1. Due(x, type) <=> type = <<OpKind[h], "start">>
        BY <1>5, <2>4, <3>5 DEF Due
      <4>2. Due(x, type)' <=> \/ type = <<OpKind[h], "start">>
                              \/ type = <<OpKind[h], "success">>
        BY <1>1, <1>8, <2>4, <3>5 DEF Due
      <4>3. <<OpKind[h], "start">> # <<OpKind[h], "success">>
        OBVIOUS
      <4> QED
        BY <2>1, <3>3, <3>5, <4>1, <4>2, <4>3
    <3> QED
      BY <3>4, <3>5
  <2> QED
    BY <2>2, <2>3, <2>4
<1> QED
  BY <1>6, <1>9, <1>10 DEF EventsInv

LEMMA EventsUnchanged ==
  ASSUME EventsInv, UNCHANGED eventVars
  PROVE  EventsInv'
<1>1. UNCHANGED <<stage, deferred, hooks, txStatus, delivered>>
  BY DEF eventVars
<1>2. \A x : Hooked(x)' <=> Hooked(x)
  BY <1>1 DEF Hooked
<1>3. EventsTypes'
  BY <1>1 DEF EventsInv, EventsTypes
<1>4. HooksWait'
  BY <1>1, <1>2 DEF EventsInv, HooksWait, Emitted, EmitEvent, Publication
<1>5. ToldWhatIsDue'
  BY <1>1, <1>2 DEF EventsInv, ToldWhatIsDue, Names, Due, Told
<1> QED
  BY <1>3, <1>4, <1>5 DEF EventsInv

LEMMA EventsInvariant == EventsSpec => []EventsInv
<1>1. EventsInv /\ [EventsNext]_eventVars => EventsInv'
  BY StartStep, FailStep, SuccessStep, EndStep, HookStep, EventsUnchanged
     DEF EventsNext
<1> QED
  BY <1>1, EventsInitially, PTL DEF EventsSpec

LEMMA DueIsTold == EventsInv => ToldExactlyOnce
<1>. SUFFICES ASSUME EventsInv, NEW s \in Subscribers, Pattern[s].exact,
                     NEW o \in Operations, NEW type \in Pattern[s].types
              PROVE  IF type[1] = OpKind[o] /\ Expected(o, type)
                     THEN \/ Told(s, o, type) = 1
                          \/ /\ type[2] = "success"
                             /\ Told(s, o, type) = 0
                             /\ Hooked(o)
                     ELSE Told(s, o, type) = 0
  BY DEF ToldExactlyOnce
<1>1. type \in EventTypes /\ type # AnyType /\ Names(s, type)
  BY PatternAssumption DEF Names
<1>2. PICK p \in Operations, st \in Stages : type = <<OpKind[p], st>>
  BY <1>1 DEF EventTypes
<1>3. Told(s, o, type) = IF Due(o, type) THEN 1 ELSE 0
  BY <1>1 DEF EventsInv, ToldWhatIsDue
<1>4. type[1] = OpKind[p] /\ type[2] = st
  BY <1>2
<1>5. \A x \in Stages : type = <<OpKind[o], x>> <=> type[1] = OpKind[o] /\ st = x
  BY <1>2, <1>4
<1>6. CASE st = "start"
  <2>1. Due(o, type) <=> type[1] = OpKind[o] /\ Expected(o, type)
    BY <1>4, <1>5, <1>6 DEF Due, Expected, Stages
  <2> QED
    BY <1>3, <2>1
<1>7. CASE st = "failed"
  <2>1. Due(o, type) <=> type[1] = OpKind[o] /\ Expected(o, type)
    BY <1>4, <1>5, <1>7 DEF Due, Expected, Stages
  <2> QED
    BY <1>3, <2>1
<1>8. CASE st = "success"
  <2>1. Expected(o, type) <=> /\ stage[o] = "succeeded"
                              /\ o \in Deferring => txStatus = "committed"
    BY <1>4, <1>8 DEF Expected
  <2>2. Due(o, type) <=> /\ type[1] = OpKind[o]
                         /\ stage[o] = "succeeded"
                         /\ o \in Deferring =>
                              txStatus = "committed" /\ ~Hooked(o)
    BY <1>5, <1>8 DEF Due, Stages
  <2> QED
    BY <1>3, <1>4, <1>8, <2>1, <2>2
<1> QED
  BY <1>2, <1>6, <1>7, <1>8 DEF Stages

(* Whatever runs beside it, and in whichever order operations, the commit  *)
(* and the hooks come: one event per operation and stage, a write's        *)
(* success in the transaction after the commit and never without one, a    *)
(* read's at once.                                                         *)
THEOREM ToldTheorem == EventsSpec => []ToldExactlyOnce
BY EventsInvariant, DueIsTold, PTL

=============================================================================
