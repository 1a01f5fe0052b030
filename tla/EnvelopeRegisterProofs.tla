----------------------- MODULE EnvelopeRegisterProofs -----------------------
(***************************************************************************)
(* Proofs about EnvelopeRegister, where the calls that overlap leave each  *)
(* other's files alone.  How far a call has come is told by the number of  *)
(* steps it has left; what it has read still stands when it writes.        *)
(***************************************************************************)
EXTENDS EnvelopeRegister, SequenceTheorems, TLAPS

(***************************************************************************)
(* The steps of a call.                                                    *)
(***************************************************************************)
CallType == [op : DOMAIN Route \union {"none"}, id : Ids,
             todo : Seq(Stages), rows : Register, side : Sidecar]

Left(a) == Len(call[a].todo)
Path(a) == IF a = Unit THEN UnitSteps ELSE Route[call[a].op]

(* A call has the last steps of its path to take.                          *)
Routed(a) ==
  /\ call[a].op = "none" => call[a] = NoCall
  /\ call[a].op # "none" =>
       /\ Left(a) \in 1..Len(Path(a))
       /\ \A i \in 1..Left(a) : call[a].todo[i] = Path(a)[Len(Path(a)) - Left(a) + i]
       /\ a = Unit => box = "installed" /\ call[a].op \in {"ratify", "revoke"}
       /\ a # Unit => call[a].op \in Offered

LEMMA Ops == DOMAIN Route = {"propose", "reject", "list", "ratify", "revoke", "retire"}
BY DEF Route

LEMMA Paths ==
  /\ \A op \in DOMAIN Route : Route[op] \in Seq(Stages) /\ Len(Route[op]) >= 1
  /\ UnitSteps \in Seq(Stages) /\ Len(UnitSteps) = 5 /\ UnitSteps[5] = "file"
  /\ <<"file">> \in Seq(Stages) /\ Len(<<"file">>) = 1 /\ <<"file">>[1] = "file"
  /\ Len(Route["retire"]) = 4
<1>1. /\ Route["propose"] \in Seq(Stages) /\ Len(Route["propose"]) >= 1
      /\ Route["reject"] \in Seq(Stages) /\ Len(Route["reject"]) >= 1
      /\ Route["list"] \in Seq(Stages) /\ Len(Route["list"]) >= 1
  BY DEF Route, Stages
<1>2. /\ Route["ratify"] \in Seq(Stages) /\ Len(Route["ratify"]) >= 1
  BY DEF Route, RatifySteps, Stages
<1>3. /\ Route["revoke"] \in Seq(Stages) /\ Len(Route["revoke"]) >= 1
  BY DEF Route, Stages
<1>4. /\ Route["retire"] \in Seq(Stages) /\ Len(Route["retire"]) = 4
  BY DEF Route, RetireSteps, Stages
<1>5. UnitSteps \in Seq(Stages) /\ Len(UnitSteps) = 5 /\ UnitSteps[5] = "file"
  BY DEF UnitSteps, Stages
<1>6. <<"file">> \in Seq(Stages) /\ Len(<<"file">>) = 1 /\ <<"file">>[1] = "file"
  BY DEF Stages
<1>7. ASSUME NEW op \in DOMAIN Route PROVE Route[op] \in Seq(Stages) /\ Len(Route[op]) >= 1
  <2>1. CASE op \in {"propose", "reject", "list"}
    BY <1>1, <2>1
  <2>2. CASE op \in {"ratify", "revoke", "retire"}
    <3>1. CASE op = "ratify" BY <1>2, <3>1
    <3>2. CASE op = "revoke" BY <1>3, <3>2
    <3>3. CASE op = "retire" BY <1>4, <3>3
    <3> QED BY <2>2, <3>1, <3>2, <3>3
  <2> QED BY <2>1, <2>2, <1>7, Ops
<1> QED BY <1>4, <1>5, <1>6, <1>7

(* A sequence with a first element, and the rest of it.                    *)
LEMMA FirstAndRest ==
  ASSUME NEW S, NEW s \in Seq(S), s # <<>>
  PROVE  /\ Head(s) = s[1] /\ Len(s) >= 1 /\ Len(s) \in Nat
         /\ Tail(s) \in Seq(S) /\ Len(Tail(s)) = Len(s) - 1
         /\ \A i \in 1..Len(Tail(s)) : Tail(s)[i] = s[i + 1]
OBVIOUS

LEMMA Empties == NoCall \in CallType /\ NoCall.todo = <<>> /\ NoCall.op = "none"
BY EnvelopesAssumption DEF NoCall, CallType, NoRows, Nothing, Register, Sidecar

(* The step a call is at, by the steps it has left.                        *)
LEMMA Stations ==
  ASSUME EnvelopesTypeOK, NEW a \in Actors, Routed(a), NEW s, At(a, s)
  PROVE  /\ call[a].op # "none" /\ Left(a) \in 1..Len(Path(a))
         /\ s = Path(a)[Len(Path(a)) - Left(a) + 1]
<1>1. call[a].todo \in Seq(Stages)
  BY DEF EnvelopesTypeOK
<1>2. call[a].todo # <<>> /\ s = call[a].todo[1] /\ Left(a) >= 1
  BY <1>1, FirstAndRest DEF At, Left
<1>3. call[a].op # "none"
  BY <1>2, Empties DEF Routed
<1> QED BY <1>2, <1>3 DEF Routed

LEMMA UnitStations ==
  ASSUME EnvelopesTypeOK, Routed(Unit), NEW s, At(Unit, s)
  PROVE  /\ box = "installed" /\ call[Unit].op \in {"ratify", "revoke"}
         /\ s = "register" => Left(Unit) = 5
         /\ s = "sign" => Left(Unit) = 4
         /\ s = "saveRegister" => Left(Unit) = 3
         /\ s = "ink" => Left(Unit) = 2
         /\ s = "file" => Left(Unit) = 1
         /\ s \notin {"lock", "sidecar", "saveSidecar"}
<1> DEFINE n == Left(Unit)
<1>1. s = UnitSteps[5 - n + 1] /\ n \in 1..5
  BY Stations, Paths DEF Path, Actors
<1>2. box = "installed" /\ call[Unit].op \in {"ratify", "revoke"}
  BY Stations DEF Routed, Actors
<1> HIDE DEF n
<1>3. /\ s = "register" => n = 5
      /\ s = "sign" => n = 4
      /\ s = "saveRegister" => n = 3
      /\ s = "ink" => n = 2
      /\ s = "file" => n = 1
      /\ s \notin {"lock", "sidecar", "saveSidecar"}
  BY <1>1 DEF UnitSteps
<1> QED BY <1>2, <1>3 DEF n

(* The step a broker's call of op is at, with n left.                      *)
Station(op, n, s) ==
  /\ s = "lock" => op = "retire" /\ n = 4
  /\ s = "register" => \/ op \in {"propose", "reject"} /\ n = 4
                       \/ op \in {"list", "retire"} /\ n = 3
                       \/ op = "ratify" /\ n = 5
                       \/ op = "revoke" /\ n = 2
  /\ s = "sidecar" => \/ op \in {"propose", "reject"} /\ n = 3
                      \/ op = "list" /\ n = 2
                      \/ op = "ratify" /\ n = 4
  /\ s = "saveRegister" => \/ op = "ratify" /\ n = 3
                           \/ op = "revoke" /\ n = 1
                           \/ op = "retire" /\ n = 2
  /\ s = "saveSidecar" => \/ op \in {"propose", "reject", "ratify"} /\ n = 2
                          \/ op = "list" /\ n = 1
  /\ s = "ink" => op \in {"propose", "reject", "ratify", "retire"} /\ n = 1
  /\ s \notin {"sign", "file"}

LEMMA RouteStations ==
  ASSUME NEW op \in DOMAIN Route, NEW n \in 1..Len(Route[op]),
         NEW s, s = Route[op][Len(Route[op]) - n + 1]
  PROVE  Station(op, n, s)
<1> USE DEF Station
<1>1. CASE op = "propose"
  BY <1>1 DEF Route
<1>2. CASE op = "reject"
  BY <1>2 DEF Route
<1>3. CASE op = "list"
  BY <1>3 DEF Route
<1>4. CASE op = "ratify"
  <2>1. /\ s = "register" => n = 5
        /\ s = "sidecar" => n = 4
        /\ s = "saveRegister" => n = 3
        /\ s = "saveSidecar" => n = 2
        /\ s = "ink" => n = 1
        /\ s \notin {"lock", "sign", "file"}
    BY <1>4 DEF Route, RatifySteps
  <2> QED BY <1>4, <2>1
<1>5. CASE op = "revoke"
  <2>1. /\ s = "register" => n = 2
        /\ s = "saveRegister" => n = 1
        /\ s \notin {"lock", "sidecar", "saveSidecar", "ink", "sign", "file"}
    BY <1>5 DEF Route
  <2> QED BY <1>5, <2>1
<1>6. CASE op = "retire"
  <2>1. /\ s = "lock" => n = 4
        /\ s = "register" => n = 3
        /\ s = "saveRegister" => n = 2
        /\ s = "ink" => n = 1
        /\ s \notin {"sidecar", "saveSidecar", "sign", "file"}
    BY <1>6 DEF Route, RetireSteps
  <2> QED BY <1>6, <2>1
<1> QED BY <1>1, <1>2, <1>3, <1>4, <1>5, <1>6, Ops

LEMMA CallStations ==
  ASSUME EnvelopesTypeOK, NEW a \in Actors, a # Unit, Routed(a), NEW s, At(a, s)
  PROVE  /\ call[a].op \in DOMAIN Route /\ call[a].op \in Offered
         /\ Station(call[a].op, Left(a), s)
<1>1. /\ call[a].op \in DOMAIN Route /\ call[a].op \in Offered
      /\ Left(a) \in 1..Len(Route[call[a].op])
      /\ s = Route[call[a].op][Len(Route[call[a].op]) - Left(a) + 1]
  BY Stations, Ops DEF Path, Routed, Offered
<1> QED BY <1>1, RouteStations

(* A step that is taken off.                                               *)
LEMMA Onwards ==
  ASSUME NEW k \in CallType, k.todo # <<>>
  PROVE  /\ Len(k.todo) = 1 => Onward(k) = NoCall
         /\ Len(k.todo) # 1 =>
              /\ Len(k.todo) > 1 /\ Onward(k) \in CallType
              /\ Onward(k).op = k.op /\ Onward(k).id = k.id
              /\ Onward(k).rows = k.rows /\ Onward(k).side = k.side
              /\ Len(Onward(k).todo) = Len(k.todo) - 1
              /\ \A i \in 1..Len(Onward(k).todo) : Onward(k).todo[i] = k.todo[i + 1]
<1>1. k.todo \in Seq(Stages)
  BY DEF CallType
<1>2. /\ Len(k.todo) >= 1 /\ Len(k.todo) \in Nat
      /\ Tail(k.todo) \in Seq(Stages) /\ Len(Tail(k.todo)) = Len(k.todo) - 1
      /\ \A i \in 1..Len(Tail(k.todo)) : Tail(k.todo)[i] = k.todo[i + 1]
  BY <1>1, FirstAndRest
<1>0. Len(k.todo) >= 1 /\ Len(k.todo) \in Nat
  BY <1>2
<1>3. CASE Len(k.todo) = 1
  BY <1>3 DEF Onward
<1>4. CASE Len(k.todo) # 1
  <2>1. /\ Onward(k) \in CallType /\ Onward(k).todo = Tail(k.todo)
        /\ Onward(k).op = k.op /\ Onward(k).id = k.id
        /\ Onward(k).rows = k.rows /\ Onward(k).side = k.side
    BY <1>2, <1>4 DEF Onward, CallType
  <2>4. Onward(k).todo = Tail(k.todo)
    BY <2>1
  <2>2. Len(k.todo) > 1 /\ Len(Onward(k).todo) = Len(k.todo) - 1
    <3> DEFINE m == Len(k.todo)
    <3>1. m > 1
      <4>1. m >= 1 /\ m \in Nat /\ m # 1
        BY <1>0, <1>4
      <4> HIDE DEF m
      <4> QED BY <4>1
    <3> QED BY <1>2, <2>4, <3>1
  <2>3. ASSUME NEW i \in 1..Len(Onward(k).todo) PROVE Onward(k).todo[i] = k.todo[i + 1]
    BY <1>2, <2>1
  <2> QED BY <1>4, <2>1, <2>2, <2>3
<1> QED BY <1>3, <1>4

(***************************************************************************)
(* What a step does to the calls.                                          *)
(***************************************************************************)
Routing == \A a \in Actors : Routed(a)
Unasked == box = "single" => queue = {}

Moves(a) ==
  /\ call'[a].op = call[a].op /\ call'[a].id = call[a].id
  /\ call[a].op # "none"
  /\ Left(a) > 1 /\ Len(call'[a].todo) = Left(a) - 1
  /\ \A i \in 1..(Left(a) - 1) : call'[a].todo[i] = call[a].todo[i + 1]
Ends(a) == call'[a] = NoCall
Files(a) == /\ a = Unit /\ call[a].op # "none"
            /\ call'[a].op = call[a].op /\ call'[a].todo = <<"file">>
Starts(a) ==
  /\ call[a].op = "none"
  /\ \/ /\ a \in Calls /\ call'[a].op \in Offered /\ call'[a].todo = Route[call'[a].op]
        /\ \A d \in Calls : call[d].op # "none" => {call'[a].op, call[d].op} \in Overlap
     \/ /\ a = Unit /\ box = "installed"
        /\ call'[a].op \in {"ratify", "revoke"} /\ call'[a].todo = UnitSteps

Effect(a) ==
  /\ box' = box /\ call' \in [Actors -> CallType]
  /\ \A b \in Actors \ {a} : call'[b] = call[b]
  /\ Ends(a) \/ Files(a) \/ Moves(a) \/ Starts(a)

LEMMA RoutingKept ==
  ASSUME EnvelopesTypeOK, Routing, NEW a \in Actors, Effect(a)
  PROVE  Routing'
<1> SUFFICES ASSUME NEW b \in Actors PROVE Routed(b)'
  BY DEF Routing
<1>0. Routed(b)
  BY DEF Routing
<1>1. CASE b # a
  BY <1>0, <1>1 DEF Effect, Routed, Left, Path, Offered
<1>2. CASE b = a /\ Ends(a)
  BY <1>2, Empties DEF Ends, Routed
<1>3. CASE b = a /\ Files(a)
  <2>1. /\ a = Unit /\ box' = "installed" /\ call'[a].op \in {"ratify", "revoke"}
        /\ call'[a].todo = <<"file">>
    BY <1>0, <1>3 DEF Files, Routed, Effect
  <2>2. /\ Path(a)' = UnitSteps /\ Left(a)' = 1 /\ call'[a].todo[1] = UnitSteps[5]
        /\ Len(UnitSteps) = 5
    BY <2>1, Paths DEF Path, Left
  <2>3. \A i \in 1..1 : call'[a].todo[i] = UnitSteps[5 - 1 + i]
    BY <2>2
  <2>4. 1 \in 1..5 /\ call'[a].op # "none"
    BY <2>1
  <2> QED BY <1>3, <2>1, <2>2, <2>3, <2>4 DEF Routed
<1>4. CASE b = a /\ Moves(a)
  <2> DEFINE n == Left(a)
             L == Len(Path(a))
  <2>1. /\ n \in 1..L /\ L \in Nat
        /\ \A i \in 1..n : call[a].todo[i] = Path(a)[L - n + i]
        /\ a = Unit => box = "installed" /\ call[a].op \in {"ratify", "revoke"}
        /\ a # Unit => call[a].op \in Offered
    <3>1. /\ n \in 1..L
          /\ \A i \in 1..n : call[a].todo[i] = Path(a)[L - n + i]
          /\ a = Unit => box = "installed" /\ call[a].op \in {"ratify", "revoke"}
          /\ a # Unit => call[a].op \in Offered
      BY <1>0, <1>4 DEF Moves, Routed
    <3>2. a # Unit => call[a].op \in DOMAIN Route
      BY <3>1, Ops DEF Offered
    <3>3. L \in Nat
      BY <3>2, Paths DEF Path
    <3> QED BY <3>1, <3>3
  <2>2. Path(a)' = Path(a) /\ Offered' = Offered /\ Left(a)' = n - 1 /\ n > 1
    BY <1>4 DEF Moves, Effect, Path, Offered, Left
  <2>3. \A i \in 1..(n - 1) : call'[a].todo[i] = Path(a)[L - (n - 1) + i]
    <3> HIDE DEF n, L
    <3> TAKE i \in 1..(n - 1)
    <3>1. call'[a].todo[i] = call[a].todo[i + 1]
      BY <1>4 DEF Moves, n
    <3>2. i + 1 \in 1..n /\ L - n + (i + 1) = L - (n - 1) + i
      BY <2>1
    <3> QED BY <2>1, <3>1, <3>2
  <2> QED BY <1>4, <2>1, <2>2, <2>3 DEF Routed, Moves, Effect
<1>5. CASE b = a /\ Starts(a)
  <2>1. CASE a \in Calls
    <3>1. /\ a # Unit /\ call'[a].op \in Offered' /\ call'[a].op \in DOMAIN Route
          /\ call'[a].todo = Route[call'[a].op]
      BY <1>5, <2>1, EnvelopesAssumption, Ops DEF Starts, Effect, Offered
    <3>2. /\ Path(a)' = Route[call'[a].op] /\ call'[a].todo = Path(a)'
          /\ Len(Path(a)') \in Nat /\ Len(Path(a)') >= 1 /\ Left(a)' = Len(Path(a)')
      BY <3>1, Paths DEF Path, Left
    <3>3. call'[a].op # "none"
      BY <3>1, Ops
    <3> DEFINE L == Len(Path(a)')
    <3>4. L \in Nat /\ L >= 1 /\ Left(a)' = L
      BY <3>2
    <3>5. \A i \in 1..L : call'[a].todo[i] = Path(a)'[L - L + i]
      <4> HIDE DEF L
      <4> TAKE i \in 1..L
      <4>1. L - L + i = i
        BY <3>4
      <4> QED BY <4>1, <3>2
    <3>6. Left(a)' \in 1..L
      BY <3>4
    <3>7. Routed(a)'
      BY <3>1, <3>3, <3>4, <3>5, <3>6 DEF Routed
    <3> QED BY <1>5, <3>7
  <2>2. CASE a = Unit
    <3>1. /\ box' = "installed" /\ call'[a].op \in {"ratify", "revoke"}
          /\ call'[a].todo = UnitSteps
      BY <1>5, <2>2, EnvelopesAssumption DEF Starts, Effect
    <3>2. /\ Path(a)' = UnitSteps /\ Left(a)' = 5 /\ Len(UnitSteps) = 5
          /\ call'[a].todo = UnitSteps
      BY <2>2, <3>1, Paths DEF Path, Left
    <3>3. \A i \in 1..5 : call'[a].todo[i] = UnitSteps[5 - 5 + i]
      BY <3>2
    <3>4. Routed(a)'
      BY <2>2, <3>1, <3>2, <3>3 DEF Routed
    <3> QED BY <1>5, <3>4
  <2> QED BY <2>1, <2>2 DEF Actors
<1> QED BY <1>1, <1>2, <1>3, <1>4, <1>5 DEF Effect
(* The parts of the state, typed.                                          *)
LEMMA Parts ==
  ASSUME EnvelopesTypeOK
  PROVE  /\ call \in [Actors -> CallType]
         /\ register \in Register /\ sidecar \in Sidecar
         /\ \A a \in Actors : /\ call[a] \in CallType /\ call[a].todo \in Seq(Stages)
                            /\ Left(a) \in Nat /\ call[a].id \in Ids
BY DEF EnvelopesTypeOK, CallType, Left

(* A call that takes a step, and keeps what else it carries but new copies. *)
LEMMA StepEffect ==
  ASSUME EnvelopesTypeOK, Routing, NEW a \in Actors, NEW s, At(a, s), box' = box,
         \/ call' = [call EXCEPT ![a] = Onward(call[a])]
         \/ Left(a) # 1 /\ call' = [call EXCEPT ![a] = [Onward(call[a]) EXCEPT !.rows = register]]
         \/ Left(a) # 1 /\ call' = [call EXCEPT ![a] = [Onward(call[a]) EXCEPT !.side = sidecar]]
  PROVE  /\ Effect(a)
         /\ Left(a) = 1 => Ends(a)
         /\ Left(a) # 1 => Moves(a)
<1>0. call[a].todo # <<>> /\ call[a] \in CallType /\ call[a].op # "none" /\ Left(a) >= 1
  BY Parts, Stations DEF At, Routing
<1>1. /\ Left(a) = 1 => Onward(call[a]) = NoCall
      /\ Left(a) # 1 =>
           /\ Left(a) > 1 /\ Onward(call[a]) \in CallType
           /\ Onward(call[a]).op = call[a].op /\ Onward(call[a]).id = call[a].id
           /\ Len(Onward(call[a]).todo) = Left(a) - 1
           /\ \A i \in 1..Len(Onward(call[a]).todo) :
                Onward(call[a]).todo[i] = call[a].todo[i + 1]
  BY <1>0, Onwards DEF Left
<1>2. CASE Left(a) = 1
  <2>1. call' = [call EXCEPT ![a] = NoCall]
    BY <1>1, <1>2
  <2>2. call' \in [Actors -> CallType] /\ Ends(a) /\ \A b \in Actors \ {a} : call'[b] = call[b]
    BY <2>1, Parts, Empties DEF Ends
  <2> QED BY <1>2, <2>2 DEF Effect
<1>3. CASE Left(a) # 1
  <2>1. PICK n \in CallType :
          /\ call' = [call EXCEPT ![a] = n]
          /\ n.op = Onward(call[a]).op /\ n.id = Onward(call[a]).id
          /\ n.todo = Onward(call[a]).todo
    <3>1. Onward(call[a]) \in CallType
      BY <1>1, <1>3
    <3>2. /\ [Onward(call[a]) EXCEPT !.rows = register] \in CallType
          /\ [Onward(call[a]) EXCEPT !.side = sidecar] \in CallType
      BY <3>1, Parts DEF CallType
    <3> QED BY <1>3, <3>1, <3>2 DEF CallType
  <2>2. call' \in [Actors -> CallType] /\ call'[a] = n /\ \A b \in Actors \ {a} : call'[b] = call[b]
    BY <2>1, Parts
  <2>3. Moves(a)
    BY <1>0, <1>1, <1>3, <2>1, <2>2 DEF Moves
  <2> QED BY <1>3, <2>2, <2>3 DEF Effect
<1> QED BY <1>2, <1>3

(* A call that ends, or a request the unit is to file as refused.          *)
LEMMA EndEffect ==
  ASSUME EnvelopesTypeOK, NEW a \in Actors, call[a].op # "none", box' = box,
         \/ call' = [call EXCEPT ![a] = NoCall]
         \/ call' = [call EXCEPT ![a] = Refused(a)]
  PROVE  Effect(a) /\ (Ends(a) \/ Files(a))
<1>1. call[a] \in CallType
  BY Parts
<1>2. [NoCall EXCEPT !.op = call[a].op, !.id = call[a].id, !.todo = <<"file">>] \in CallType
  BY <1>1, Empties, Paths DEF CallType
<1>3. \/ call' = [call EXCEPT ![a] = NoCall]
      \/ /\ a = Unit
         /\ call' = [call EXCEPT ![a] = [NoCall EXCEPT !.op = call[a].op, !.id = call[a].id,
                                                       !.todo = <<"file">>]]
  BY DEF Refused
<1>4. CASE call' = [call EXCEPT ![a] = NoCall]
  BY <1>4, Parts, Empties DEF Effect, Ends
<1>5. CASE /\ a = Unit
           /\ call' = [call EXCEPT ![a] = [NoCall EXCEPT !.op = call[a].op, !.id = call[a].id,
                                                         !.todo = <<"file">>]]
  <2>1. /\ call' \in [Actors -> CallType] /\ \A b \in Actors \ {a} : call'[b] = call[b]
        /\ call'[a].op = call[a].op /\ call'[a].todo = <<"file">>
    BY <1>2, <1>5, Parts, Empties DEF CallType
  <2> QED BY <1>5, <2>1 DEF Effect, Files
<1> QED BY <1>3, <1>4, <1>5

(* A call that is made.                                                    *)
LEMMA StartEffect ==
  ASSUME EnvelopesTypeOK, Unasked, NEW a \in Actors,
         \/ a \in Calls /\ \E op \in DOMAIN Route : BeginCall(a, op)
         \/ a = Unit /\ \E op \in {"ratify", "revoke"}, i \in Ids : TakeUp(op, i)
  PROVE  Effect(a) /\ Starts(a)
<1>1. CASE a \in Calls /\ \E op \in DOMAIN Route : BeginCall(a, op)
  <2>1. PICK op \in DOMAIN Route : BeginCall(a, op)
    BY <1>1
  <2>2. PICK i \in Subjects(op) :
          call' = [call EXCEPT ![a] = [NoCall EXCEPT !.op = op, !.id = i, !.todo = Route[op]]]
    BY <2>1 DEF BeginCall
  <2>3. i \in Ids
    BY Empties DEF Subjects, EnvelopesTypeOK, CallType
  <2>4. [NoCall EXCEPT !.op = op, !.id = i, !.todo = Route[op]] \in CallType
    BY <2>3, Empties, Paths DEF CallType
  <2>5. /\ call' \in [Actors -> CallType] /\ \A b \in Actors \ {a} : call'[b] = call[b]
        /\ call'[a].op = op /\ call'[a].todo = Route[op]
    BY <2>2, <2>4, Parts, Empties DEF CallType
  <2> QED BY <1>1, <2>1, <2>5 DEF BeginCall, Effect, Starts
<1>2. CASE a = Unit /\ \E op \in {"ratify", "revoke"}, i \in Ids : TakeUp(op, i)
  <2>1. PICK op \in {"ratify", "revoke"}, i \in Ids : TakeUp(op, i)
    BY <1>2
  <2>2. call' = [call EXCEPT ![a] = [NoCall EXCEPT !.op = op, !.id = i, !.todo = UnitSteps]]
    BY <1>2, <2>1 DEF TakeUp
  <2>3. [NoCall EXCEPT !.op = op, !.id = i, !.todo = UnitSteps] \in CallType
    BY Empties, Paths, Ops DEF CallType
  <2>4. /\ call' \in [Actors -> CallType] /\ \A b \in Actors \ {a} : call'[b] = call[b]
        /\ call'[a].op = op /\ call'[a].todo = UnitSteps
    BY <2>2, <2>3, Parts, Empties DEF CallType
  <2>5. box = "installed"
    BY <2>1, EnvelopesAssumption DEF TakeUp, Unasked, EnvelopesTypeOK
  <2> QED BY <1>2, <2>1, <2>4, <2>5 DEF TakeUp, Effect, Starts
<1> QED BY <1>1, <1>2

(***************************************************************************)
(* What calls may rely on.                                                 *)
(***************************************************************************)

(* Calls that overlap are of those that may.                               *)
Apart ==
  \A c, d \in Calls :
    c # d /\ call[c].op # "none" /\ call[d].op # "none" => {call[c].op, call[d].op} \in Overlap

(* One sweep at a time is past the lock.                                   *)
OneSweep ==
  \A a, b \in Calls :
    /\ call[a].op = "retire" /\ Left(a) < 4
    /\ call[b].op = "retire" /\ Left(b) < 4
    => a = b

(* A call that has read the register, or the sidecar, and is to write it.  *)
Editing(a) ==
  \/ a = Unit /\ Left(a) \in {3, 4}
  \/ a # Unit /\ call[a].op = "ratify" /\ Left(a) \in {3, 4}
  \/ a # Unit /\ call[a].op = "revoke" /\ Left(a) = 1
  \/ a # Unit /\ call[a].op = "retire" /\ Left(a) = 2
Sorting(a) ==
  /\ a # Unit
  /\ \/ call[a].op \in {"propose", "reject"} /\ Left(a) = 2
     \/ call[a].op = "list" /\ Left(a) = 1
     \/ call[a].op = "ratify" /\ Left(a) \in {2, 3}

(* An id that was proposed is somewhere.                                   *)
Entered(i) == i \in sidecar.pending \union sidecar.archived \union Granted(register)

EditTrue(a) ==
  Editing(a) => /\ call[a].rows = register
                /\ call[a].op # "ratify" => /\ register[call[a].id] # <<>>
                                            /\ register[call[a].id][1] = "active"
                /\ a = Unit /\ call[a].op = "ratify" => register[call[a].id] = <<>>
SortTrue(a) == Sorting(a) => call[a].side = sidecar
ListTrue(a) == a # Unit /\ call[a].op = "list" /\ Left(a) \in {1, 2}
                 => Granted(call[a].rows) \subseteq Granted(register)
RatifyTrue(a) == call[a].op = "ratify" /\ (Left(a) = 2 \/ (a # Unit /\ Left(a) = 1))
                   => register[call[a].id] # <<>>
ProposeTrue(a) == a # Unit /\ call[a].op = "propose" /\ Left(a) = 1 => Entered(call[a].id)

CopiesTrue(a) == EditTrue(a) /\ SortTrue(a) /\ ListTrue(a) /\ RatifyTrue(a) /\ ProposeTrue(a)
Copies == \A a \in Actors : CopiesTrue(a)

LEMMA Pair ==
  ASSUME Overlap \subseteq WithSweeps, NEW x, NEW y, {x, y} \in Overlap
  PROVE  \/ x = "retire" /\ y \in {"retire", "propose", "reject", "list"}
         \/ y = "retire" /\ x \in {"retire", "propose", "reject", "list"}
<1>1. PICK z \in {"retire", "propose", "reject", "list"} : {x, y} = {"retire", z}
  BY DEF WithSweeps
<1>2. x \in {"retire", z} /\ y \in {"retire", z} /\ "retire" \in {x, y}
  BY <1>1
<1> QED BY <1>2

(* Overlap and the lock are kept by whatever steps a call takes.           *)
LEMMA ApartKept ==
  ASSUME EnvelopesTypeOK, Apart, NEW a \in Actors, Effect(a)
  PROVE  Apart'
<1> SUFFICES ASSUME NEW c \in Calls, NEW d \in Calls, c # d,
                    call'[c].op # "none", call'[d].op # "none"
             PROVE  {call'[c].op, call'[d].op} \in Overlap
  BY DEF Apart
<1>0. c \in Actors /\ d \in Actors /\ Unit \notin Calls
  BY EnvelopesAssumption DEF Actors
<1>1. ASSUME NEW e \in Calls, e # a PROVE call'[e] = call[e]
  BY <1>1 DEF Effect, Actors
<1>2. CASE Starts(a)
  <2>1. ASSUME NEW e \in Calls, e # a, a \in Calls, call[e].op # "none"
        PROVE {call'[a].op, call[e].op} \in Overlap
    BY <1>0, <1>2, <2>1 DEF Starts
  <2>2. CASE c = a
    <3>1. d # a /\ call'[d] = call[d]
      BY <1>1, <2>2
    <3> QED BY <2>1, <2>2, <3>1
  <2>3. CASE d = a
    <3>1. c # a /\ call'[c] = call[c]
      BY <1>1, <2>3
    <3>2. {call'[d].op, call'[c].op} \in Overlap
      BY <2>1, <2>3, <3>1
    <3>3. {call'[d].op, call'[c].op} = {call'[c].op, call'[d].op}
      OBVIOUS
    <3> QED BY <3>2, <3>3
  <2>4. CASE c # a /\ d # a
    BY <1>1, <2>4 DEF Apart
  <2> QED BY <2>2, <2>3, <2>4
<1>3. CASE ~Starts(a)
  <2>1. ASSUME NEW e \in Calls, call'[e].op # "none" PROVE call'[e].op = call[e].op
    BY <1>0, <1>1, <1>3, <2>1, Empties DEF Effect, Ends, Files, Moves
  <2> QED BY <2>1 DEF Apart
<1> QED BY <1>2, <1>3

LEMMA OneSweepKept ==
  ASSUME EnvelopesTypeOK, OneSweep, NEW a \in Actors, Effect(a),
         Moves(a) /\ call[a].op = "retire" /\ Left(a) = 4
           => \A b \in Calls : call[b].op = "retire" => Left(b) = 4
  PROVE  OneSweep'
<1>0. Unit \notin Calls /\ Calls \subseteq Actors
  BY EnvelopesAssumption DEF Actors
<1>1. ASSUME NEW e \in Calls, call'[e].op = "retire", Left(e)' < 4
      PROVE  /\ call[e].op = "retire"
             /\ \/ Left(e) < 4
                \/ e = a /\ Left(e) = 4 /\ Moves(e)
  <2>1. CASE e # a
    <3>1. call'[e] = call[e]
      BY <1>0, <2>1 DEF Effect
    <3> QED BY <1>1, <3>1 DEF Left
  <2>2. CASE e = a
    <3>1. ~Ends(a) /\ ~Files(a)
      BY <1>0, <1>1, <2>2, Empties DEF Ends, Files
    <3>2. ~Starts(a)
      <4> SUFFICES ASSUME Starts(a) PROVE FALSE
        OBVIOUS
      <4>1. call'[e].todo = Route["retire"]
        BY <1>0, <1>1, <2>2 DEF Starts
      <4>2. Left(e)' = 4
        BY <4>1, Paths DEF Left
      <4> QED BY <1>1, <4>2
    <3>3. Moves(a) /\ call[e].op = "retire" /\ Left(e)' = Left(e) - 1
      BY <1>1, <2>2, <3>1, <3>2 DEF Effect, Moves, Left
    <3> QED BY <1>0, <1>1, <2>2, <3>3, Parts
  <2> QED BY <2>1, <2>2
<1> SUFFICES ASSUME NEW c \in Calls, NEW d \in Calls,
                    call'[c].op = "retire", Left(c)' < 4,
                    call'[d].op = "retire", Left(d)' < 4
             PROVE  c = d
  BY DEF OneSweep
<1>2. CASE Left(c) < 4 /\ Left(d) < 4
  BY <1>1, <1>2 DEF OneSweep
<1>3. CASE ~(Left(c) < 4 /\ Left(d) < 4)
  BY <1>1, <1>3
<1> QED BY <1>2, <1>3

(* Who writes a file is the only one to rely on what is in it.             *)
LEMMA WritesAlone ==
  ASSUME EnvelopesTypeOK, Routing, Apart, OneSweep, Overlap \subseteq WithSweeps,
         NEW a \in Actors, NEW b \in Actors, a # b
  PROVE  /\ At(a, "saveRegister") => ~Editing(b)
         /\ At(a, "saveSidecar") => ~Sorting(b)
<1>0. /\ Routed(a) /\ Routed(b) /\ Unit \notin Calls
      /\ (a \in Calls \/ a = Unit) /\ (b \in Calls \/ b = Unit)
      /\ Left(a) \in Nat /\ Left(b) \in Nat
  BY EnvelopesAssumption, Parts DEF Routing, Actors
<1>i. \A c \in Actors : call[c].op = "none" => Left(c) = 0
  <2> TAKE c \in Actors
  <2>1. call[c].op = "none" => call[c].todo = <<>>
    BY Empties DEF Routing, Routed
  <2> QED BY <2>1 DEF Left
<1>1. ASSUME At(a, "saveRegister"), Editing(b) PROVE FALSE
  <2>1. CASE a = Unit
    <3>1. box = "installed" /\ b # Unit /\ b \in Calls
      BY <1>0, <1>1, <2>1, UnitStations DEF Actors
    <3>2. call[b].op \in {"ratify", "revoke", "retire"}
      BY <1>1, <3>1 DEF Editing
    <3> QED BY <1>0, <3>1, <3>2 DEF Routed, Offered
  <2>2. CASE a # Unit /\ b = Unit
    <3>1. call[a].op \in {"ratify", "revoke", "retire"} /\ call[a].op \in Offered
      BY <1>0, <1>1, <2>2, CallStations DEF Station
    <3>2. box = "installed"
      BY <1>0, <1>i, <1>1, <2>2 DEF Editing, Routed
    <3> QED BY <3>1, <3>2 DEF Offered
  <2>3. CASE a # Unit /\ b # Unit
    <3>1. /\ call[a].op \in {"ratify", "revoke", "retire"}
          /\ call[a].op = "retire" => Left(a) = 2
      BY <1>0, <1>1, <2>3, CallStations DEF Station
    <3>2. /\ call[b].op \in {"ratify", "revoke", "retire"}
          /\ call[b].op = "retire" => Left(b) = 2
      BY <1>1, <2>3 DEF Editing
    <3>3. {call[a].op, call[b].op} \in Overlap /\ a \in Calls /\ b \in Calls
      BY <1>0, <2>3, <3>1, <3>2 DEF Apart, Actors
    <3>4. call[a].op = "retire" /\ call[b].op = "retire"
      BY <3>1, <3>2, <3>3, Pair
    <3> QED BY <3>1, <3>2, <3>3, <3>4 DEF OneSweep
  <2> QED BY <2>1, <2>2, <2>3
<1>2. ASSUME At(a, "saveSidecar"), Sorting(b) PROVE FALSE
  <2>1. a # Unit
    BY <1>0, <1>2, UnitStations
  <2>2. call[a].op \in {"propose", "reject", "ratify", "list"}
    BY <1>0, <1>2, <2>1, CallStations DEF Station
  <2>3. call[b].op \in {"propose", "reject", "ratify", "list"} /\ b # Unit
    BY <1>2 DEF Sorting
  <2>4. {call[a].op, call[b].op} \in Overlap
    BY <2>1, <2>2, <2>3 DEF Apart, Actors
  <2> QED BY <2>2, <2>3, <2>4, Pair
<1> QED BY <1>1, <1>2

(***************************************************************************)
(* What is written.                                                        *)
(***************************************************************************)

Rows == Seq({"active", "revoked"})

LEMMA Marked ==
  ASSUME NEW s \in Rows, s # <<>>
  PROVE  /\ [s EXCEPT ![1] = "revoked"] \in Rows
         /\ [s EXCEPT ![1] = "revoked"] # <<>>
         /\ Len([s EXCEPT ![1] = "revoked"]) = Len(s)
         /\ \A n \in 1..Len(s) : s[n] = "revoked" => [s EXCEPT ![1] = "revoked"][n] = "revoked"
<1>1. 1 \in 1..Len(s)
  BY DEF Rows
<1>2. /\ [s EXCEPT ![1] = "revoked"] \in Rows
      /\ Len([s EXCEPT ![1] = "revoked"]) = Len(s)
      /\ \A n \in 1..Len(s) : [s EXCEPT ![1] = "revoked"][n] = IF n = 1 THEN "revoked" ELSE s[n]
  BY <1>1, ExceptSeq DEF Rows
<1>3. [s EXCEPT ![1] = "revoked"] # <<>>
  BY <1>1, <1>2
<1> QED BY <1>2, <1>3

LEMMA Appended ==
  ASSUME NEW s \in Rows
  PROVE  /\ Append(s, "active") \in Rows /\ Append(s, "active") # <<>>
         /\ Len(Append(s, "active")) = Len(s) + 1
         /\ \A n \in 1..Len(s) : Append(s, "active")[n] = s[n]
BY DEF Rows

(* Rows that follow a register: none has gone, none is in force again.      *)
Follows(new, old) ==
  \A i \in Ids : /\ old[i] # <<>> => new[i] # <<>>
                 /\ \A n \in 1..Len(old[i]) : /\ n <= Len(new[i])
                                              /\ old[i][n] = "revoked" => new[i][n] = "revoked"

(* What is edited follows what was read, and has one row of an id that had *)
(* none or one.                                                            *)
LEMMA EditedFollows ==
  ASSUME NEW k \in CallType, k.op # "ratify" => k.rows[k.id] # <<>>
  PROVE  /\ Edited(k) \in Register /\ Edited(k)[k.id] # <<>>
         /\ Follows(Edited(k), k.rows)
         /\ \A i \in Ids : Len(k.rows[i]) <= 1 /\ (k.op = "ratify" => k.rows[k.id] = <<>>)
                          => Len(Edited(k)[i]) <= 1
<1>1. k.rows \in [Ids -> Rows] /\ k.id \in Ids /\ Register = [Ids -> Rows]
  BY DEF CallType, Register, Rows
<1>2. PICK r \in Rows :
        /\ Edited(k) = [k.rows EXCEPT ![k.id] = r] /\ r # <<>>
        /\ \A n \in 1..Len(k.rows[k.id]) :
             n <= Len(r) /\ (k.rows[k.id][n] = "revoked" => r[n] = "revoked")
        /\ Len(k.rows[k.id]) <= 1 /\ (k.op = "ratify" => k.rows[k.id] = <<>>) => Len(r) <= 1
  <2> DEFINE s == k.rows[k.id]
  <2>0. s \in Rows /\ Len(s) \in Nat
    BY <1>1 DEF Rows
  <2>1. CASE k.op = "ratify"
    <3>1. Edited(k) = [k.rows EXCEPT ![k.id] = Append(s, "active")]
      BY <1>1, <2>1 DEF Edited
    <3>2. s = <<>> => Len(Append(s, "active")) <= 1
      BY <2>0, Appended
    <3> HIDE DEF s
    <3>3. \A n \in 1..Len(s) : n <= Len(Append(s, "active"))
                              /\ (s[n] = "revoked" => Append(s, "active")[n] = "revoked")
      BY <2>0, Appended
    <3>4. Append(s, "active") \in Rows /\ Append(s, "active") # <<>>
      BY <2>0, Appended
    <3> QED BY <2>1, <3>1, <3>2, <3>3, <3>4 DEF s
  <2>2. CASE k.op # "ratify"
    <3>1. Edited(k) = [k.rows EXCEPT ![k.id] = [s EXCEPT ![1] = "revoked"]]
      BY <1>1, <2>2 DEF Edited
    <3>2. s # <<>>
      BY <2>2
    <3> DEFINE r == [s EXCEPT ![1] = "revoked"]
    <3>3. /\ r \in Rows /\ r # <<>> /\ Len(r) = Len(s)
          /\ \A n \in 1..Len(s) : s[n] = "revoked" => r[n] = "revoked"
      BY <2>0, <3>2, Marked
    <3> HIDE DEF r, s
    <3>4. /\ \A n \in 1..Len(s) : n <= Len(r) /\ (s[n] = "revoked" => r[n] = "revoked")
          /\ Len(s) <= 1 => Len(r) <= 1
      BY <2>0, <3>3
    <3> QED BY <3>1, <3>3, <3>4 DEF r, s
  <2> QED BY <2>1, <2>2
<1>3. Edited(k) \in Register /\ Edited(k)[k.id] # <<>>
  BY <1>1, <1>2
<1>4. ASSUME NEW i \in Ids PROVE Edited(k)[i] = IF i = k.id THEN r ELSE k.rows[i]
  BY <1>1, <1>2
<1>5. Follows(Edited(k), k.rows)
  <2> SUFFICES ASSUME NEW i \in Ids
               PROVE  /\ k.rows[i] # <<>> => Edited(k)[i] # <<>>
                      /\ \A n \in 1..Len(k.rows[i]) :
                           /\ n <= Len(Edited(k)[i])
                           /\ k.rows[i][n] = "revoked" => Edited(k)[i][n] = "revoked"
    BY DEF Follows
  <2>1. CASE i = k.id
    BY <1>2, <1>4, <2>1
  <2>2. CASE i # k.id
    BY <1>1, <1>4, <2>2 DEF Rows
  <2> QED BY <2>1, <2>2
<1>6. ASSUME NEW i \in Ids, Len(k.rows[i]) <= 1, k.op = "ratify" => k.rows[k.id] = <<>>
      PROVE  Len(Edited(k)[i]) <= 1
  BY <1>2, <1>4, <1>6
<1> QED BY <1>3, <1>5, <1>6

(* What the writing of the register does to it.                            *)
LEMMA RegisterKept ==
  ASSUME EnvelopesTypeOK, Routing, Copies, NEW a \in Actors, SaveRegister(a)
  PROVE  /\ Editing(a) /\ register' = Edited(call[a]) /\ register' \in Register
         /\ register'[call[a].id] # <<>> /\ Follows(register', register)
         /\ \A i \in Ids : box = "installed" /\ Len(register[i]) <= 1 => Len(register'[i]) <= 1
<1>0. call[a] \in CallType /\ Routed(a) /\ CopiesTrue(a) /\ Left(a) \in Nat
  BY Parts DEF Routing, Copies
<1>1. Editing(a)
  <2>1. CASE a = Unit
    BY <1>0, <2>1, UnitStations DEF SaveRegister, Editing
  <2>2. CASE a # Unit
    BY <1>0, <2>2, CallStations DEF SaveRegister, Editing, Station
  <2> QED BY <2>1, <2>2
<1>2. /\ call[a].rows = register
      /\ call[a].op # "ratify" => register[call[a].id] # <<>>
      /\ a = Unit /\ call[a].op = "ratify" => register[call[a].id] = <<>>
  BY <1>0, <1>1 DEF CopiesTrue, EditTrue
<1>3. box = "installed" => a = Unit
  <2> SUFFICES ASSUME a # Unit, box = "installed" PROVE FALSE
    OBVIOUS
  <2>1. call[a].op \in {"ratify", "revoke", "retire"} /\ call[a].op \in Offered
    BY <1>0, CallStations DEF SaveRegister, Station
  <2> QED BY <2>1 DEF Offered
<1> QED BY <1>0, <1>1, <1>2, <1>3, EditedFollows DEF SaveRegister

(* What the writing of the sidecar does to it.                             *)
LEMMA SidecarKept ==
  ASSUME EnvelopesTypeOK, Routing, Copies, NEW a \in Actors, SaveSidecar(a)
  PROVE  /\ sidecar' \in Sidecar /\ a # Unit
         /\ \A i \in Ids : Entered(i) => Entered(i)'
         /\ call[a].op = "propose" => \A i \in Ids : i = call[a].id => Entered(i)'
<1> DEFINE k == call[a]
<1>0. /\ k \in CallType /\ Routed(a) /\ CopiesTrue(a) /\ Left(a) \in Nat
      /\ register' = register /\ sidecar' = Sorted(k) /\ sidecar \in Sidecar
  BY Parts DEF Routing, Copies, SaveSidecar, fileVars
<1>1. a # Unit
  BY <1>0, UnitStations DEF SaveSidecar
<1>2. /\ \/ k.op \in {"propose", "reject", "ratify"} /\ Left(a) = 2
         \/ k.op = "list" /\ Left(a) = 1
      /\ Sorting(a) /\ k.side = sidecar
  <2>1. \/ k.op \in {"propose", "reject", "ratify"} /\ Left(a) = 2
        \/ k.op = "list" /\ Left(a) = 1
    BY <1>0, <1>1, CallStations DEF SaveSidecar, Station
  <2>2. Sorting(a)
    BY <1>1, <2>1 DEF Sorting
  <2> QED BY <1>0, <2>1, <2>2 DEF CopiesTrue, SortTrue
<1>3. k.op = "ratify" => register[k.id] # <<>>
  BY <1>0, <1>2 DEF CopiesTrue, RatifyTrue
<1>4. k.op = "list" => Granted(k.rows) \subseteq Granted(register)
  BY <1>0, <1>1, <1>2 DEF CopiesTrue, ListTrue
<1>5. \/ k.op = "propose" /\ sidecar' = [sidecar EXCEPT !.pending = @ \union {k.id}]
      \/ /\ k.op = "reject"
         /\ sidecar' = [pending |-> sidecar.pending \ {k.id},
                        archived |-> sidecar.archived \union {k.id}]
      \/ k.op = "ratify" /\ sidecar' = [sidecar EXCEPT !.pending = @ \ {k.id}]
      \/ k.op = "list" /\ sidecar' = [sidecar EXCEPT !.pending = @ \ Granted(k.rows)]
  BY <1>0, <1>2 DEF Sorted
<1>6. k.id \in Ids
  BY <1>0 DEF CallType
<1> HIDE DEF k
<1>7. /\ sidecar' \in Sidecar
      /\ \A i \in Ids : i \in sidecar.pending \union sidecar.archived \union Granted(register)
           => i \in sidecar'.pending \union sidecar'.archived \union Granted(register)
      /\ k.op = "propose" => k.id \in sidecar'.pending
  BY <1>0, <1>3, <1>4, <1>5, <1>6 DEF Sidecar, Granted
<1>8. ASSUME NEW i \in Ids
      PROVE  /\ Entered(i) => Entered(i)'
             /\ k.op = "propose" /\ i = k.id => Entered(i)'
  BY <1>0, <1>7 DEF Entered, Granted
<1> QED BY <1>1, <1>7, <1>8 DEF k

(* A call that has just begun, or has only to be filed, has no copies.     *)
LEMMA NoCopies ==
  ASSUME EnvelopesTypeOK, Routing, NEW a \in Actors, Effect(a),
         Ends(a) \/ Files(a) \/ Starts(a)
  PROVE  CopiesTrue(a)'
<1>1. CASE Ends(a)
  <2>1. call'[a].op = "none" /\ Left(a)' = 0
    BY <1>1, Empties DEF Ends, Left
  <2> QED BY <2>1 DEF CopiesTrue, EditTrue, SortTrue, ListTrue, RatifyTrue, ProposeTrue, Editing, Sorting
<1>2. CASE Files(a)
  <2>1. a = Unit /\ Left(a)' = 1
    BY <1>2, Paths DEF Files, Left
  <2> QED BY <2>1 DEF CopiesTrue, EditTrue, SortTrue, ListTrue, RatifyTrue, ProposeTrue, Editing, Sorting
<1>3. CASE Starts(a)
  <2>1. CASE a = Unit
    <3>1. Left(a)' = 5
      BY <1>3, <2>1, EnvelopesAssumption, Paths DEF Starts, Left
    <3> QED BY <2>1, <3>1 DEF CopiesTrue, EditTrue, SortTrue, ListTrue, RatifyTrue, ProposeTrue, Editing, Sorting
  <2>2. CASE a # Unit
    <3>1. call'[a].op \in DOMAIN Route /\ call'[a].todo = Route[call'[a].op]
      BY <1>3, <2>2, Ops DEF Starts, Offered
    <3>2. /\ Len(Route["propose"]) = 4 /\ Len(Route["reject"]) = 4 /\ Len(Route["list"]) = 3
          /\ Len(Route["ratify"]) = 5 /\ Len(Route["revoke"]) = 2 /\ Len(Route["retire"]) = 4
      BY DEF Route, RatifySteps, RetireSteps
    <3>3. /\ call'[a].op \in {"propose", "reject"} => Left(a)' = 4
          /\ call'[a].op = "list" => Left(a)' = 3
          /\ call'[a].op = "ratify" => Left(a)' = 5
          /\ call'[a].op = "revoke" => Left(a)' = 2
          /\ call'[a].op = "retire" => Left(a)' = 4
      BY <3>1, <3>2 DEF Left
    <3> QED BY <2>2, <3>3 DEF CopiesTrue, EditTrue, SortTrue, ListTrue, RatifyTrue, ProposeTrue, Editing, Sorting
  <2> QED BY <2>1, <2>2
<1> QED BY <1>1, <1>2, <1>3

(* The copies of the other calls.                                          *)
LEMMA OthersKept ==
  ASSUME EnvelopesTypeOK, Routing, Apart, OneSweep, Overlap \subseteq WithSweeps, Copies,
         NEW a \in Actors, Effect(a), CopiesTrue(a)',
         register' = register \/ At(a, "saveRegister"),
         sidecar' = sidecar \/ At(a, "saveSidecar"),
         \A i \in Ids : register[i] # <<>> => register'[i] # <<>>,
         \A i \in Ids : Entered(i) => Entered(i)'
  PROVE  Copies'
<1> SUFFICES ASSUME NEW b \in Actors, a # b PROVE CopiesTrue(b)'
  BY DEF Copies
<1>1. /\ call'[b] = call[b] /\ Left(b)' = Left(b) /\ CopiesTrue(b)
      /\ Editing(b)' = Editing(b) /\ Sorting(b)' = Sorting(b) /\ call[b].id \in Ids
  BY Parts DEF Effect, Left, Editing, Sorting, Copies
<1>2. (Editing(b) => register' = register) /\ (Sorting(b) => sidecar' = sidecar)
  BY WritesAlone
<1>3. Granted(register) \subseteq Granted(register')
  BY DEF Granted
<1>4. EditTrue(b)'
  BY <1>1, <1>2 DEF CopiesTrue, EditTrue
<1>5. SortTrue(b)'
  BY <1>1, <1>2 DEF CopiesTrue, SortTrue
<1>6. ListTrue(b)'
  BY <1>1, <1>3 DEF CopiesTrue, ListTrue, Granted
<1>7. RatifyTrue(b)'
  BY <1>1 DEF CopiesTrue, RatifyTrue
<1>8. ProposeTrue(b)'
  BY <1>1 DEF CopiesTrue, ProposeTrue
<1> QED BY <1>4, <1>5, <1>6, <1>7, <1>8 DEF CopiesTrue

(***************************************************************************)
(* The inductive invariant.                                                *)
(***************************************************************************)
EnvelopesInductive ==
  /\ EnvelopesTypeOK /\ Unasked
  /\ Routing /\ Apart /\ OneSweep /\ Copies
  /\ NoWindow

Events == {"proposed", "rejected", "ratified", "revoked"} \X Ids

(* What every step of a call does, besides moving the call.                *)
Keeps(a) ==
  /\ register' \in Register /\ signature' \in Register /\ sidecar' \in Sidecar
  /\ queue' \subseteq queue /\ born' \subseteq Ids /\ stops' \in 0..MaxStops
  /\ frank' \subseteq Events
  /\ register' = register \/ At(a, "saveRegister")
  /\ sidecar' = sidecar \/ At(a, "saveSidecar")
  /\ Follows(register', register)
  /\ \A i \in Ids : /\ box = "installed" /\ Len(register[i]) <= 1 => Len(register'[i]) <= 1
                    /\ Entered(i) => Entered(i)'
                    /\ <<"proposed", i>> \in frank' \ frank => Entered(i)'
                    /\ <<"ratified", i>> \in frank' \ frank => register'[i] # <<>>

LEMMA KeepsInductive ==
  ASSUME EnvelopesInductive, Overlap \subseteq WithSweeps,
         NEW a \in Actors, Effect(a), Keeps(a), CopiesTrue(a)',
         Moves(a) /\ call[a].op = "retire" /\ Left(a) = 4
           => \A b \in Calls : call[b].op = "retire" => Left(b) = 4
  PROVE  EnvelopesInductive'
<1> USE DEF EnvelopesInductive
<1>1. EnvelopesTypeOK'
  BY DEF EnvelopesTypeOK, Keeps, Effect, CallType, Events
<1>2. Unasked'
  BY DEF Unasked, Keeps, Effect
<1>3. Routing' /\ Apart' /\ OneSweep'
  BY RoutingKept, ApartKept, OneSweepKept
<1>4. Copies'
  BY OthersKept DEF Keeps, Follows
<1>5. ProposalsKept'
  <2> SUFFICES ASSUME NEW i \in Ids, <<"proposed", i>> \in frank' PROVE Entered(i)'
    BY DEF ProposalsKept, Entered
  <2>1. CASE <<"proposed", i>> \in frank
    <3>1. Entered(i)
      BY <2>1 DEF NoWindow, ProposalsKept, Entered
    <3> QED BY <3>1 DEF Keeps
  <2>2. CASE <<"proposed", i>> \notin frank
    BY <2>2 DEF Keeps
  <2> QED BY <2>1, <2>2
<1>6. ASSUME NEW i \in Ids
      PROVE  /\ <<"ratified", i>> \in frank' => register'[i] # <<>>
             /\ box' = "installed" => Len(register'[i]) <= 1
  BY DEF Keeps, Follows, Effect, NoWindow
<1> QED BY <1>1, <1>2, <1>3, <1>4, <1>5, <1>6 DEF NoWindow

LEMMA SameFollows == ASSUME register \in Register PROVE Follows(register, register)
BY DEF Follows, Register

(* Steps that change no file.                                              *)
LEMMA FilesKept ==
  ASSUME EnvelopesInductive, NEW a \in Actors, UNCHANGED <<register, sidecar>>,
         signature' \in Register, queue' \subseteq queue, born' \subseteq Ids,
         stops' \in 0..MaxStops, frank' \subseteq Events,
         \A i \in Ids : /\ <<"proposed", i>> \in frank' \ frank => Entered(i)
                        /\ <<"ratified", i>> \in frank' \ frank => register[i] # <<>>
  PROVE  Keeps(a)
<1>1. register \in Register /\ sidecar \in Sidecar
  BY Parts DEF EnvelopesInductive
<1>2. \A i \in Ids : Entered(i) => Entered(i)'
  BY DEF Entered, Granted
<1> QED BY <1>1, <1>2, SameFollows DEF Keeps

LEMMA SameFiles ==
  ASSUME EnvelopesInductive, NEW a \in Actors, UNCHANGED <<fileVars, frank>>,
         queue' \subseteq queue, born' \subseteq Ids, stops' \in 0..MaxStops
  PROVE  Keeps(a)
BY FilesKept DEF EnvelopesInductive, EnvelopesTypeOK, fileVars, Events

(* A step after which the call has no copies.                              *)
LEMMA QuietStep ==
  ASSUME EnvelopesInductive, Overlap \subseteq WithSweeps,
         NEW a \in Actors, Effect(a), Ends(a) \/ Files(a) \/ Starts(a), Keeps(a)
  PROVE  EnvelopesInductive'
<1>1. CopiesTrue(a)'
  BY NoCopies DEF EnvelopesInductive
<1>2. ~Moves(a) \/ call[a].op # "retire"
  <2> SUFFICES ASSUME Moves(a), call[a].op = "retire" PROVE FALSE
    OBVIOUS
  <2>1. ~Ends(a) /\ ~Starts(a)
    BY Empties DEF Moves, Ends, Starts
  <2>2. a # Unit
    BY DEF EnvelopesInductive, Routing, Routed
  <2> QED BY <2>1, <2>2 DEF Files
<1> QED BY <1>1, <1>2, KeepsInductive

LEMMA BeginStep ==
  ASSUME EnvelopesInductive, Overlap \subseteq WithSweeps,
         \/ \E c \in Calls, op \in DOMAIN Route : BeginCall(c, op)
         \/ \E i \in Ids, op \in {"ratify", "revoke"} : TakeUp(op, i)
  PROVE  EnvelopesInductive' /\ UNCHANGED register
<1>1. CASE \E c \in Calls, op \in DOMAIN Route : BeginCall(c, op)
  <2>1. PICK c \in Calls, op \in DOMAIN Route : BeginCall(c, op)
    BY <1>1
  <2>2. c \in Actors /\ Effect(c) /\ Starts(c)
    BY <2>1, StartEffect DEF EnvelopesInductive, Actors
  <2>3. /\ UNCHANGED <<fileVars, frank, queue, stops>> /\ born' \subseteq Ids
        /\ stops \in 0..MaxStops
    BY <2>1, Empties DEF BeginCall, Subjects, EnvelopesInductive, EnvelopesTypeOK, CallType
  <2>4. Keeps(c)
    BY <2>2, <2>3, SameFiles
  <2> QED BY <2>2, <2>3, <2>4, QuietStep DEF fileVars
<1>2. CASE \E i \in Ids, op \in {"ratify", "revoke"} : TakeUp(op, i)
  <2>1. PICK i \in Ids, op \in {"ratify", "revoke"} : TakeUp(op, i)
    BY <1>2
  <2>2. Unit \in Actors /\ Effect(Unit) /\ Starts(Unit)
    BY <2>1, StartEffect DEF EnvelopesInductive, Actors
  <2>3. /\ UNCHANGED <<fileVars, frank, queue, stops>> /\ born' \subseteq Ids
        /\ stops \in 0..MaxStops
    BY <2>1 DEF TakeUp, EnvelopesInductive, EnvelopesTypeOK
  <2>4. Keeps(Unit)
    BY <2>2, <2>3, SameFiles
  <2> QED BY <2>2, <2>3, <2>4, QuietStep DEF fileVars
<1> QED BY <1>1, <1>2

(* Requests, and steps that change nothing.                                *)
LEMMA AskStep ==
  ASSUME EnvelopesInductive,
         \/ \E i \in Ids : AskRatify(i) \/ AskRevoke(i)
         \/ UNCHANGED envelopeVars
  PROVE  EnvelopesInductive' /\ UNCHANGED register
<1>1. /\ UNCHANGED <<box, register, signature, sidecar, frank, born, call, stops>>
      /\ queue' \subseteq {"ratify", "revoke"} \X Ids
      /\ box = "single" => queue' = queue
  <2>0. queue \subseteq {"ratify", "revoke"} \X Ids
    BY DEF EnvelopesInductive, EnvelopesTypeOK
  <2>1. ASSUME NEW i \in Ids, AskRatify(i) \/ AskRevoke(i)
        PROVE  /\ UNCHANGED <<box, register, signature, sidecar, frank, born, call, stops>>
               /\ box = "installed"
               /\ queue' = queue \union {<<"ratify", i>>} \/ queue' = queue \union {<<"revoke", i>>}
    BY <2>1 DEF AskRatify, AskRevoke, fileVars
  <2>2. CASE UNCHANGED envelopeVars
    BY <2>0, <2>2 DEF envelopeVars, fileVars
  <2> QED BY <2>0, <2>1, <2>2
<1>2. EnvelopesTypeOK' /\ Unasked'
  BY <1>1 DEF EnvelopesInductive, EnvelopesTypeOK, Unasked
<1>3. Routing' /\ Apart' /\ OneSweep'
  BY <1>1 DEF EnvelopesInductive, Routing, Routed, Left, Path, Offered, Apart, OneSweep
<1>4. Copies'
  BY <1>1 DEF EnvelopesInductive, Copies, CopiesTrue, EditTrue, SortTrue, ListTrue, RatifyTrue,
              ProposeTrue, Editing, Sorting, Left, Entered, Granted
<1>5. NoWindow'
  BY <1>1 DEF EnvelopesInductive, NoWindow, ProposalsKept, Granted
<1> QED BY <1>1, <1>2, <1>3, <1>4, <1>5 DEF EnvelopesInductive

(***************************************************************************)
(* The steps of a call.                                                    *)
(***************************************************************************)
LEMMA CallFacts ==
  ASSUME EnvelopesInductive, NEW a \in Actors, NEW s, At(a, s)
  PROVE  /\ call[a] \in CallType /\ call[a].id \in Ids /\ Left(a) \in Nat
         /\ call[a].op # "none" /\ Left(a) >= 1 /\ call[a].todo # <<>>
         /\ EnvelopesTypeOK /\ Routing /\ Routed(a) /\ CopiesTrue(a)
         /\ register \in Register /\ sidecar \in Sidecar
         /\ stops \in 0..MaxStops /\ born \subseteq Ids /\ MaxStops \in Nat
BY Parts, Stations, EnvelopesAssumption DEF EnvelopesInductive, Routing, Copies, EnvelopesTypeOK, At

LEMMA LockStep ==
  ASSUME EnvelopesInductive, Overlap \subseteq WithSweeps, NEW a \in Actors, LockRegister(a)
  PROVE  EnvelopesInductive'
<1>1. /\ a # Unit /\ call[a].op = "retire" /\ Left(a) = 4
      /\ \A b \in Calls : call[b].op = "retire" => Left(b) = 4
  <2>1. a # Unit
    BY CallFacts, UnitStations DEF LockRegister
  <2>2. ASSUME NEW b \in Actors, b # Unit, At(b, "lock") PROVE call[b].op = "retire" /\ Left(b) = 4
    BY <2>2, CallFacts, CallStations DEF Station
  <2> QED BY <2>1, <2>2, EnvelopesAssumption DEF LockRegister, Actors
<1>2. Effect(a) /\ Moves(a)
  <2>1. Left(a) # 1 /\ At(a, "lock") /\ box' = box /\ call' = [call EXCEPT ![a] = Onward(call[a])]
    BY <1>1 DEF LockRegister
  <2>2. EnvelopesTypeOK /\ Routing
    BY DEF EnvelopesInductive
  <2> QED BY <2>1, <2>2, StepEffect
<1>3. Keeps(a)
  BY CallFacts, SameFiles DEF LockRegister
<1>4. CopiesTrue(a)'
  <2>1. call'[a].op = "retire" /\ Left(a)' = 3
    BY <1>1, <1>2 DEF Moves, Left
  <2> QED BY <1>1, <2>1 DEF CopiesTrue, EditTrue, SortTrue, ListTrue, RatifyTrue, ProposeTrue,
                            Editing, Sorting
<1> QED BY <1>1, <1>2, <1>3, <1>4, KeepsInductive

LEMMA ReadRegisterStep ==
  ASSUME EnvelopesInductive, Overlap \subseteq WithSweeps, NEW a \in Actors, ReadRegister(a)
  PROVE  EnvelopesInductive'
<1>0. UNCHANGED <<box, fileVars, frank, queue, born, stops>> /\ At(a, "register")
  BY DEF ReadRegister
<1>1. Keeps(a)
  BY <1>0, CallFacts, SameFiles
<1>2. CASE ~Readable \/ Void(a, register[call[a].id])
  <2>1. call' = [call EXCEPT ![a] = Refused(a)]
    BY <1>2, CallFacts DEF ReadRegister, EnvelopesInductive, EnvelopesTypeOK
  <2>2. Effect(a) /\ (Ends(a) \/ Files(a))
    BY <1>0, <2>1, CallFacts, EndEffect
  <2> QED BY <1>1, <2>2, QuietStep
<1>3. CASE Readable /\ ~Void(a, register[call[a].id])
  <2>1. call' = [call EXCEPT ![a] = [Onward(call[a]) EXCEPT !.rows = register]]
    BY <1>3, CallFacts DEF ReadRegister, EnvelopesInductive, EnvelopesTypeOK
  <2>2. /\ a = Unit => Left(a) = 5
        /\ a # Unit => \/ call[a].op \in {"propose", "reject"} /\ Left(a) = 4
                       \/ call[a].op \in {"list", "retire"} /\ Left(a) = 3
                       \/ call[a].op = "ratify" /\ Left(a) = 5
                       \/ call[a].op = "revoke" /\ Left(a) = 2
    BY <1>0, CallFacts, UnitStations, CallStations DEF Station
  <2>3. Left(a) # 1
    BY <2>2
  <2>4. Effect(a) /\ Moves(a)
    BY <1>0, <2>1, <2>3, CallFacts, StepEffect
  <2>5. call'[a].rows = register'
    <3>1. Onward(call[a]) \in CallType
      BY <1>0, <2>3, CallFacts, Onwards DEF Left
    <3> QED BY <1>0, <2>1, <3>1, Parts, CallFacts DEF CallType, fileVars
  <2>6. /\ call'[a].op = call[a].op /\ call'[a].id = call[a].id /\ Left(a)' = Left(a) - 1
        /\ register' = register
    BY <1>0, <2>4 DEF Moves, Left, fileVars
  <2>7. call[a].op \in {"revoke", "retire"}
          => register[call[a].id] # <<>> /\ register[call[a].id][1] = "active"
    <3> DEFINE r == register[call[a].id]
    <3>1. r \in Rows
      BY <1>0, CallFacts DEF Register, Rows
    <3>2. call[a].op \in {"revoke", "retire"} => r # <<>> /\ r[1] # "revoked"
      BY <1>3 DEF Void
    <3>3. r # <<>> => r[1] \in {"active", "revoked"}
      BY <3>1 DEF Rows
    <3> QED BY <3>2, <3>3
  <2>8. a = Unit /\ call[a].op = "ratify" => register[call[a].id] = <<>>
    BY <1>3 DEF Void
  <2>9. call[a].op # "ratify" /\ Editing(a)' => call[a].op \in {"revoke", "retire"}
    BY <1>0, <2>6, CallFacts, UnitStations DEF Editing
  <2>10. EditTrue(a)'
    BY <2>5, <2>6, <2>7, <2>8, <2>9 DEF EditTrue
  <2>11. SortTrue(a)' /\ RatifyTrue(a)' /\ ProposeTrue(a)'
    BY <2>2, <2>6 DEF SortTrue, Sorting, RatifyTrue, ProposeTrue
  <2>12. ListTrue(a)'
    BY <2>5 DEF ListTrue
  <2>13. CopiesTrue(a)'
    BY <2>10, <2>11, <2>12 DEF CopiesTrue
  <2>14. call[a].op = "retire" => Left(a) # 4
    <3>1. a = Unit => call[a].op # "retire"
      BY <1>0, CallFacts, UnitStations
    <3> QED BY <2>2, <3>1
  <2> QED BY <1>1, <2>4, <2>13, <2>14, KeepsInductive
<1> QED BY <1>2, <1>3

LEMMA ReadSidecarStep ==
  ASSUME EnvelopesInductive, Overlap \subseteq WithSweeps, NEW a \in Actors, ReadSidecar(a)
  PROVE  EnvelopesInductive'
<1>0. UNCHANGED <<box, fileVars, frank, queue, born, stops>> /\ At(a, "sidecar")
  BY DEF ReadSidecar
<1>1. Keeps(a)
  BY <1>0, CallFacts, SameFiles
<1>2. \/ call' = [call EXCEPT ![a] = NoCall]
      \/ call' = [call EXCEPT ![a] = [Onward(call[a]) EXCEPT !.side = sidecar]]
  BY DEF ReadSidecar
<1>3. CASE call' = [call EXCEPT ![a] = NoCall]
  <2>1. Effect(a) /\ (Ends(a) \/ Files(a))
    BY <1>0, <1>3, CallFacts, EndEffect
  <2> QED BY <1>1, <2>1, QuietStep
<1>4. CASE call' = [call EXCEPT ![a] = [Onward(call[a]) EXCEPT !.side = sidecar]]
  <2>1. /\ a # Unit
        /\ \/ call[a].op \in {"propose", "reject"} /\ Left(a) = 3
           \/ call[a].op = "list" /\ Left(a) = 2
           \/ call[a].op = "ratify" /\ Left(a) = 4
    BY <1>0, CallFacts, UnitStations, CallStations DEF Station
  <2>0. Left(a) # 1 /\ EnvelopesTypeOK /\ Routing
    BY <2>1 DEF EnvelopesInductive
  <2>2. Effect(a) /\ Moves(a)
    BY <1>0, <1>4, <2>0, StepEffect
  <2>3. call'[a].side = sidecar' /\ call'[a].rows = call[a].rows
    <3>1. Onward(call[a]) \in CallType /\ Onward(call[a]).rows = call[a].rows
      BY <1>0, <2>0, CallFacts, Onwards DEF Left
    <3> QED BY <1>0, <1>4, <3>1, Parts, CallFacts DEF CallType, fileVars
  <2>4. /\ call'[a].op = call[a].op /\ call'[a].id = call[a].id /\ Left(a)' = Left(a) - 1
        /\ register' = register
    BY <1>0, <2>2 DEF Moves, Left, fileVars
  <2>5. CopiesTrue(a)
    BY <1>0, CallFacts
  <2>6. EditTrue(a)'
    BY <2>1, <2>3, <2>4, <2>5 DEF CopiesTrue, EditTrue, Editing
  <2>7. SortTrue(a)'
    BY <2>3 DEF SortTrue
  <2>8. RatifyTrue(a)' /\ ProposeTrue(a)'
    BY <2>1, <2>4 DEF RatifyTrue, ProposeTrue
  <2>9. ListTrue(a)'
    BY <2>1, <2>3, <2>4, <2>5 DEF CopiesTrue, ListTrue, Granted
  <2>10. CopiesTrue(a)'
    BY <2>6, <2>7, <2>8, <2>9 DEF CopiesTrue
  <2> QED BY <1>1, <2>1, <2>2, <2>10, KeepsInductive
<1> QED BY <1>2, <1>3, <1>4

(* A step taken off, of a call that may end with it.                       *)
LEMMA StepOff ==
  ASSUME EnvelopesInductive, Overlap \subseteq WithSweeps, NEW a \in Actors, NEW s, At(a, s),
         s # "lock", box' = box, call' = [call EXCEPT ![a] = Onward(call[a])], Keeps(a),
         Moves(a) => CopiesTrue(a)'
  PROVE  EnvelopesInductive'
<1>1. /\ Effect(a)
      /\ Left(a) = 1 => Ends(a)
      /\ Left(a) # 1 => Moves(a)
  BY CallFacts, StepEffect
<1>2. call[a].op = "retire" => Left(a) # 4
  <2>1. a = Unit => call[a].op # "retire"
    BY CallFacts, UnitStations
  <2>2. ASSUME a # Unit, call[a].op = "retire", Left(a) = 4 PROVE FALSE
    <3>1. s = Route["retire"][Len(Route["retire"]) - 4 + 1]
      BY <2>2, CallFacts, Stations DEF Path
    <3>2. s = "lock"
      BY <3>1 DEF Route, RetireSteps
    <3> QED BY <3>2
  <2> QED BY <2>1, <2>2
<1>3. CASE Left(a) = 1
  BY <1>1, <1>3, QuietStep
<1>4. CASE Left(a) # 1
  BY <1>1, <1>2, <1>4, KeepsInductive
<1> QED BY <1>3, <1>4

(* What a call carries on when a step is taken off.                        *)
LEMMA Carried ==
  ASSUME EnvelopesInductive, NEW a \in Actors, NEW s, At(a, s), Moves(a),
         call' = [call EXCEPT ![a] = Onward(call[a])]
  PROVE  /\ call'[a].op = call[a].op /\ call'[a].id = call[a].id
         /\ call'[a].rows = call[a].rows /\ call'[a].side = call[a].side
         /\ Left(a)' = Left(a) - 1 /\ Left(a) # 1
<1>1. Left(a) # 1 /\ call'[a] = Onward(call[a])
  BY CallFacts, Parts DEF Moves
<1>2. Onward(call[a]).rows = call[a].rows /\ Onward(call[a]).side = call[a].side
  BY <1>1, CallFacts, Onwards DEF Left
<1> QED BY <1>1, <1>2 DEF Moves, Left

LEMMA SignStep ==
  ASSUME EnvelopesInductive, Overlap \subseteq WithSweeps, NEW a \in Actors, Sign(a)
  PROVE  EnvelopesInductive'
<1>0. /\ At(a, "sign") /\ UNCHANGED <<box, register, sidecar, frank, queue, born, stops>>
      /\ signature' = Edited(call[a]) /\ call' = [call EXCEPT ![a] = Onward(call[a])]
  BY Parts DEF Sign, EnvelopesInductive
<1>1. a = Unit /\ Left(a) = 4 /\ call[a].op \in {"ratify", "revoke"}
  BY <1>0, CallFacts, UnitStations, CallStations DEF Station
<1>2. EditTrue(a) /\ Editing(a) /\ call[a].rows = register
  BY <1>0, <1>1, CallFacts DEF CopiesTrue, EditTrue, Editing
<1>3. signature' \in Register
  BY <1>0, <1>2, CallFacts, EditedFollows DEF EditTrue
<1>4. Keeps(a)
  BY <1>0, <1>3, FilesKept DEF EnvelopesInductive, EnvelopesTypeOK, Events
<1>5. Moves(a) => CopiesTrue(a)'
  <2> SUFFICES ASSUME Moves(a) PROVE CopiesTrue(a)'
    OBVIOUS
  <2>1. /\ call'[a].op = call[a].op /\ call'[a].id = call[a].id
        /\ call'[a].rows = call[a].rows /\ Left(a)' = 3
    <3>1. /\ call'[a].op = call[a].op /\ call'[a].id = call[a].id
          /\ call'[a].rows = call[a].rows /\ Left(a)' = Left(a) - 1
      BY <1>0, Carried
    <3> QED BY <1>1, <3>1
  <2>2. EditTrue(a)'
    BY <1>0, <1>2, <2>1 DEF EditTrue
  <2> QED BY <1>1, <2>1, <2>2 DEF CopiesTrue, SortTrue, Sorting, ListTrue, RatifyTrue, ProposeTrue
<1> QED BY <1>0, <1>4, <1>5, StepOff

LEMMA SaveRegisterStep ==
  ASSUME EnvelopesInductive, Overlap \subseteq WithSweeps, NEW a \in Actors, SaveRegister(a)
  PROVE  EnvelopesInductive' /\ Follows(register', register)
<1>0. /\ At(a, "saveRegister") /\ UNCHANGED <<box, signature, sidecar, frank, queue, born, stops>>
      /\ call' = [call EXCEPT ![a] = Onward(call[a])]
  BY Parts DEF SaveRegister, EnvelopesInductive
<1>1. /\ register' \in Register /\ register'[call[a].id] # <<>> /\ Follows(register', register)
      /\ \A i \in Ids : box = "installed" /\ Len(register[i]) <= 1 => Len(register'[i]) <= 1
  BY RegisterKept DEF EnvelopesInductive
<1>2. /\ a = Unit => Left(a) = 3 /\ call[a].op \in {"ratify", "revoke"}
      /\ a # Unit => \/ call[a].op = "ratify" /\ Left(a) = 3
                     \/ call[a].op = "revoke" /\ Left(a) = 1
                     \/ call[a].op = "retire" /\ Left(a) = 2
  BY <1>0, CallFacts, UnitStations, CallStations DEF Station
<1>3. Keeps(a)
  <2>1. \A i \in Ids : Entered(i) => Entered(i)'
    BY <1>0, <1>1 DEF Entered, Granted, Follows
  <2> QED BY <1>0, <1>1, <2>1 DEF Keeps, EnvelopesInductive, EnvelopesTypeOK, Events
<1>4. Moves(a) => CopiesTrue(a)'
  <2> SUFFICES ASSUME Moves(a) PROVE CopiesTrue(a)'
    OBVIOUS
  <2>1. /\ call'[a].op = call[a].op /\ call'[a].id = call[a].id
        /\ call'[a].side = call[a].side /\ Left(a)' = Left(a) - 1 /\ Left(a) # 1
    BY <1>0, Carried
  <2>2. EditTrue(a)'
    BY <1>2, <2>1 DEF EditTrue, Editing
  <2>3. SortTrue(a)'
    <3>1. SortTrue(a)
      BY <1>0, CallFacts DEF CopiesTrue
    <3> QED BY <1>0, <1>2, <2>1, <3>1 DEF SortTrue, Sorting
  <2>4. RatifyTrue(a)'
    BY <1>1, <2>1 DEF RatifyTrue
  <2>5. ListTrue(a)' /\ ProposeTrue(a)'
    BY <1>2, <2>1 DEF ListTrue, ProposeTrue
  <2> QED BY <2>2, <2>3, <2>4, <2>5 DEF CopiesTrue
<1> QED BY <1>0, <1>1, <1>3, <1>4, StepOff

LEMMA SaveSidecarStep ==
  ASSUME EnvelopesInductive, Overlap \subseteq WithSweeps, NEW a \in Actors, SaveSidecar(a)
  PROVE  EnvelopesInductive'
<1>0. /\ At(a, "saveSidecar") /\ UNCHANGED <<box, register, signature, frank, queue, born, stops>>
      /\ call' = [call EXCEPT ![a] = Onward(call[a])]
  BY Parts DEF SaveSidecar, EnvelopesInductive
<1>1. /\ sidecar' \in Sidecar /\ a # Unit
      /\ \A i \in Ids : Entered(i) => Entered(i)'
      /\ call[a].op = "propose" => \A i \in Ids : i = call[a].id => Entered(i)'
  BY SidecarKept DEF EnvelopesInductive
<1>2. \/ call[a].op \in {"propose", "reject", "ratify"} /\ Left(a) = 2
      \/ call[a].op = "list" /\ Left(a) = 1
  BY <1>0, <1>1, CallFacts, CallStations DEF Station
<1>3. Keeps(a)
  <2>1. Follows(register', register)
    BY <1>0, CallFacts, SameFollows
  <2> QED BY <1>0, <1>1, <2>1, CallFacts DEF Keeps, EnvelopesInductive, EnvelopesTypeOK, Events
<1>4. Moves(a) => CopiesTrue(a)'
  <2> SUFFICES ASSUME Moves(a) PROVE CopiesTrue(a)'
    OBVIOUS
  <2>1. /\ call'[a].op = call[a].op /\ call'[a].id = call[a].id
        /\ Left(a)' = 1 /\ call[a].op # "list" /\ Left(a) = 2
    <3>1. /\ call'[a].op = call[a].op /\ call'[a].id = call[a].id
          /\ Left(a)' = Left(a) - 1 /\ Left(a) # 1
      BY <1>0, Carried
    <3> QED BY <1>2, <3>1
  <2>2. EditTrue(a)' /\ SortTrue(a)' /\ ListTrue(a)'
    BY <1>1, <1>2, <2>1 DEF EditTrue, SortTrue, ListTrue, Editing, Sorting
  <2>3. RatifyTrue(a)'
    <3>1. RatifyTrue(a)
      BY <1>0, CallFacts DEF CopiesTrue
    <3> QED BY <1>0, <2>1, <3>1 DEF RatifyTrue
  <2>4. ProposeTrue(a)'
    BY <1>0, <1>1, <2>1, CallFacts DEF ProposeTrue
  <2> QED BY <2>2, <2>3, <2>4 DEF CopiesTrue
<1> QED BY <1>0, <1>3, <1>4, StepOff

(* A record is inked, or it is not; what it says is so.                    *)
LEMMA InkStep ==
  ASSUME EnvelopesInductive, Overlap \subseteq WithSweeps, NEW a \in Actors,
         InkEvent(a) \/ GoUninked(a)
  PROVE  EnvelopesInductive' /\ UNCHANGED register
<1>0. /\ At(a, "ink") /\ UNCHANGED <<box, fileVars, queue, born>> /\ stops' \in 0..MaxStops
      /\ call' = [call EXCEPT ![a] = Onward(call[a])]
      /\ frank' = frank \/ frank' = frank \union {<<Event[call[a].op], call[a].id>>}
  BY CallFacts, Parts DEF InkEvent, GoUninked, EnvelopesInductive
<1>1. /\ a = Unit => Left(a) = 2 /\ call[a].op \in {"ratify", "revoke"}
      /\ a # Unit => /\ call[a].op \in {"propose", "reject", "ratify", "retire"}
                     /\ Left(a) = 1
  BY <1>0, CallFacts, UnitStations, CallStations DEF Station
<1>2. /\ call[a].op = "propose" => Entered(call[a].id)
      /\ call[a].op = "ratify" => register[call[a].id] # <<>>
  BY <1>0, <1>1, CallFacts DEF CopiesTrue, ProposeTrue, RatifyTrue
<1>3. /\ Event[call[a].op] \in {"proposed", "rejected", "ratified", "revoked"}
      /\ Event[call[a].op] = "proposed" => call[a].op = "propose"
      /\ Event[call[a].op] = "ratified" => call[a].op = "ratify"
  BY <1>1 DEF Event
<1>4. Keeps(a)
  <2>1. frank \subseteq Events /\ signature \in Register /\ call[a].id \in Ids
    BY <1>0, CallFacts DEF EnvelopesInductive, EnvelopesTypeOK, Events
  <2>2. frank' \subseteq Events
    BY <1>0, <1>3, <2>1 DEF Events
  <2>3. ASSUME NEW i \in Ids
        PROVE  /\ <<"proposed", i>> \in frank' \ frank => Entered(i)
               /\ <<"ratified", i>> \in frank' \ frank => register[i] # <<>>
    <3>1. ASSUME NEW e \in {"proposed", "ratified"}, <<e, i>> \in frank' \ frank
          PROVE  e = Event[call[a].op] /\ i = call[a].id
      BY <1>0, <3>1
    <3> QED BY <1>2, <1>3, <3>1
  <2>4. UNCHANGED <<register, sidecar>> /\ signature' \in Register /\ born' \subseteq Ids
    BY <1>0, <2>1, CallFacts DEF fileVars
  <2> QED BY <1>0, <2>2, <2>3, <2>4, FilesKept
<1>5. Moves(a) => CopiesTrue(a)'
  <2> SUFFICES ASSUME Moves(a) PROVE CopiesTrue(a)'
    OBVIOUS
  <2>1. a = Unit /\ Left(a)' = 1
    <3>1. Left(a)' = Left(a) - 1 /\ Left(a) # 1
      BY <1>0, Carried
    <3> QED BY <1>1, <3>1
  <2> QED BY <2>1 DEF CopiesTrue, EditTrue, SortTrue, ListTrue, RatifyTrue, ProposeTrue,
                      Editing, Sorting
<1> QED BY <1>0, <1>4, <1>5, StepOff DEF fileVars

(* A call dies, a write fails, or the unit files a request.                *)
LEMMA EndStep ==
  ASSUME EnvelopesInductive, Overlap \subseteq WithSweeps, NEW a \in Actors,
         Stop(a) \/ (a = Unit /\ FileRequest)
  PROVE  EnvelopesInductive' /\ UNCHANGED register
<1>1. /\ UNCHANGED <<box, fileVars, frank, born>> /\ queue' \subseteq queue
      /\ call[a].op # "none" /\ stops' \in 0..MaxStops /\ born' \subseteq Ids
      /\ \/ call' = [call EXCEPT ![a] = NoCall]
         \/ call' = [call EXCEPT ![a] = Refused(a)]
  <2>0. stops \in 0..MaxStops /\ MaxStops \in Nat /\ born \subseteq Ids
    BY EnvelopesAssumption DEF EnvelopesInductive, EnvelopesTypeOK
  <2>1. CASE Stop(a)
    <3>1. /\ UNCHANGED <<box, fileVars, frank, queue, born>>
          /\ call[a].op # "none" /\ stops' = stops + 1 /\ stops < MaxStops
      BY <2>1 DEF Stop
    <3>2. \/ call' = [call EXCEPT ![a] = NoCall]
          \/ call' = [call EXCEPT ![a] = Refused(a)]
      BY <2>1 DEF Stop
    <3> QED BY <2>0, <3>1, <3>2
  <2>2. CASE a = Unit /\ FileRequest
    BY <2>0, <2>2, CallFacts DEF FileRequest
  <2> QED BY <2>1, <2>2
<1>2. Effect(a) /\ (Ends(a) \/ Files(a))
  BY <1>1, EndEffect DEF EnvelopesInductive
<1>3. Keeps(a)
  BY <1>1, SameFiles
<1> QED BY <1>1, <1>2, <1>3, QuietStep DEF fileVars

(***************************************************************************)
(* The theorems.                                                           *)
(***************************************************************************)
LEMMA InitInductive ==
  ASSUME EnvelopesInit
  PROVE  EnvelopesInductive
<1>0. /\ NoRows \in Register /\ Nothing \in Sidecar /\ \A i \in Ids : NoRows[i] = <<>>
      /\ 0 \in 0..MaxStops
  BY EnvelopesAssumption DEF NoRows, Nothing, Register, Sidecar
<1>1. call \in [Actors -> CallType] /\ \A a \in Actors : call[a] = NoCall /\ Left(a) = 0
  BY Empties DEF EnvelopesInit, Left
<1>2. EnvelopesTypeOK /\ Unasked
  BY <1>0, <1>1 DEF EnvelopesInit, EnvelopesTypeOK, CallType, Unasked
<1>3. Routing
  BY <1>1, Empties DEF Routing, Routed
<1>4. Apart /\ OneSweep
  BY <1>1, Empties DEF Apart, OneSweep, Actors
<1>5. Copies
  BY <1>1, Empties DEF Copies, CopiesTrue, EditTrue, SortTrue, ListTrue, RatifyTrue, ProposeTrue,
                       Editing, Sorting
<1>6. NoWindow
  BY <1>0 DEF EnvelopesInit, NoWindow, ProposalsKept
<1> QED BY <1>2, <1>3, <1>4, <1>5, <1>6 DEF EnvelopesInductive

LEMMA NextInductive ==
  ASSUME EnvelopesInductive, Overlap \subseteq WithSweeps, [EnvelopesNext]_envelopeVars
  PROVE  EnvelopesInductive' /\ Follows(register', register)
<1>0. ASSUME UNCHANGED register PROVE Follows(register', register)
  BY <1>0, SameFollows DEF EnvelopesInductive, EnvelopesTypeOK
<1>1. CASE \E c \in Calls, op \in DOMAIN Route : BeginCall(c, op)
  BY <1>0, <1>1, BeginStep
<1>2. CASE \E i \in Ids, op \in {"ratify", "revoke"} : TakeUp(op, i)
  BY <1>0, <1>2, BeginStep
<1>3. CASE (\E i \in Ids : AskRatify(i) \/ AskRevoke(i)) \/ UNCHANGED envelopeVars
  BY <1>0, <1>3, AskStep
<1>4. ASSUME NEW a \in Actors, StepOn(a) \/ GoUninked(a)
      PROVE  EnvelopesInductive' /\ Follows(register', register)
  <2>1. CASE LockRegister(a)
    BY <1>0, <2>1, LockStep DEF LockRegister, fileVars
  <2>2. CASE ReadRegister(a)
    BY <1>0, <2>2, ReadRegisterStep DEF ReadRegister, fileVars
  <2>3. CASE ReadSidecar(a)
    BY <1>0, <2>3, ReadSidecarStep DEF ReadSidecar, fileVars
  <2>4. CASE Sign(a)
    BY <1>0, <2>4, SignStep DEF Sign
  <2>5. CASE SaveRegister(a)
    BY <2>5, SaveRegisterStep
  <2>6. CASE SaveSidecar(a)
    BY <1>0, <2>6, SaveSidecarStep DEF SaveSidecar
  <2>7. CASE InkEvent(a) \/ GoUninked(a)
    BY <1>0, <2>7, InkStep
  <2> QED BY <1>4, <2>1, <2>2, <2>3, <2>4, <2>5, <2>6, <2>7 DEF StepOn
<1>5. ASSUME NEW a \in Actors, Stop(a) \/ (a = Unit /\ FileRequest)
      PROVE  EnvelopesInductive' /\ Follows(register', register)
  BY <1>0, <1>5, EndStep
<1> QED BY <1>1, <1>2, <1>3, <1>4, <1>5 DEF EnvelopesNext, Actors

(* Where calls that overlap leave each other's files alone, every call has *)
(* the last steps of its path left, what it read still stands when it      *)
(* writes, and the promises of ratify hold (envelope_authoring.py).        *)
THEOREM EnvelopesInductiveCorrect ==
  ASSUME Overlap \subseteq WithSweeps
  PROVE  EnvelopesSpec => []EnvelopesInductive
<1>1. EnvelopesInit => EnvelopesInductive
  BY InitInductive
<1>2. EnvelopesInductive /\ [EnvelopesNext]_envelopeVars => EnvelopesInductive'
  BY NextInductive
<1> QED BY <1>1, <1>2, PTL DEF EnvelopesSpec

(* Every variable keeps its type.                                          *)
THEOREM EnvelopesTypeCorrect ==
  ASSUME Overlap \subseteq WithSweeps
  PROVE  EnvelopesSpec => []EnvelopesTypeOK
<1>1. EnvelopesInductive => EnvelopesTypeOK
  BY DEF EnvelopesInductive
<1> QED BY <1>1, EnvelopesInductiveCorrect, PTL

(* FRANK is never ahead of the register nor the register of the sidecar,   *)
(* no proposal is lost, and on an installed box an id is granted once,     *)
(* wherever a call, a sweep or the unit dies or fails.                     *)
THEOREM NoWindowOpens ==
  ASSUME Overlap \subseteq WithSweeps
  PROVE  EnvelopesSpec => []NoWindow
<1>1. EnvelopesInductive => NoWindow
  BY DEF EnvelopesInductive
<1> QED BY <1>1, EnvelopesInductiveCorrect, PTL

(* A row never vanishes, and one revoked is never in force again, by       *)
(* whatever sweeps overlap.                                                *)
THEOREM WithdrawnForGood ==
  ASSUME Overlap \subseteq WithSweeps
  PROVE  EnvelopesSpec => WithdrawnStands
<1>1. ASSUME EnvelopesInductive, [EnvelopesNext]_envelopeVars
      PROVE  \A i \in Ids : \A n \in 1..Len(register[i]) :
               /\ n <= Len(register'[i])
               /\ register[i][n] = "revoked" => register'[i][n] = "revoked"
  <2>1. Follows(register', register)
    BY <1>1, NextInductive
  <2> QED BY <2>1 DEF Follows
<1>2. EnvelopesInductive /\ [EnvelopesNext]_envelopeVars
        => [\A i \in Ids : \A n \in 1..Len(register[i]) :
              /\ n <= Len(register'[i])
              /\ register[i][n] = "revoked" => register'[i][n] = "revoked"]_envelopeVars
  BY <1>1
<1> QED BY <1>2, EnvelopesInductiveCorrect, PTL DEF EnvelopesSpec, WithdrawnStands
=============================================================================
