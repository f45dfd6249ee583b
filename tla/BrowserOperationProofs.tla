-------------------------- MODULE BrowserOperationProofs --------------------------
(***************************************************************************)
(* Proofs about the operations of OwnedBrowser: input reaches the page at  *)
(* most once, in order, and as it is reported; and a capture shows one     *)
(* page.  They rest on the journal, the channels and the stages of an      *)
(* operation, for which OwnedBrowserProofs has the invariants.             *)
(***************************************************************************)
EXTENDS OwnedBrowserProofs

(* What is known of input.                                                  *)
KindOf(k) == IF k = Number THEN op.kind ELSE results[k].kind
RefusalInv == \A a \in Arriving : a.outcome = "not_sent" => a = NotSent
InputRequests == {r \in InFlight : r.method \in Inputs}

(* Input in flight is of the operation in progress, or of an earlier one    *)
(* that is not told to have been performed or left out; it comes after all  *)
(* that was handled of that operation, and at most one request of an        *)
(* operation is in flight.                                                  *)
RequestOK(r) ==
  /\ r.by.op \in 1..Number
  /\ r.by.op = Number => op.phase = "input" /\ r.id = call.id
  /\ r.by.op < Number => results[r.by.op].result \notin {"performed", "not_performed", "rejected"}
  /\ KindOf(r.by.op) \in InputKinds
  /\ r.by.at \in DOMAIN Suboperations[KindOf(r.by.op)]
  /\ r.method = Suboperations[KindOf(r.by.op)][r.by.at].method
  /\ \A i \in InputOf(r.by.op) :
       effects[i].by.at < r.by.at /\ (effects[i].changed => r.method = "dispatch")
  /\ \A s \in InputRequests : s.by.op = r.by.op => s.id = r.id
InputsInFlight == \A r \in InputRequests : RequestOK(r)

(* DispatchedOnce and NotPerformedIsSafe for the operation in progress as   *)
(* well as for those that are over.                                         *)
EffectOK(i) ==
  LET k == effects[i].by.op IN
  /\ k \in 1..Number
  /\ KindOf(k) \in InputKinds
  /\ effects[i].by.at \in InputsOf(KindOf(k))
  /\ effects[i].method = Suboperations[KindOf(k)][effects[i].by.at].method
InputsHandled ==
  /\ \A i \in DOMAIN effects : EffectOK(i)
  /\ \A i, j \in DOMAIN effects : i < j /\ effects[i].by.op = effects[j].by.op =>
       /\ effects[i].by.at < effects[j].by.at
       /\ effects[i].changed => effects[j].method = "dispatch"
  /\ \A k \in DOMAIN results : results[k].kind \in InputKinds /\ results[k].result = "performed"
       => Whole(k, results[k].kind)
  /\ NotPerformedIsSafe

(* An answer to a step tells whether the page took it.                      *)
AnswerOK(a) ==
  LET method == Suboperations[op.kind][op.at].method
      Taken == \E i \in InputOf(Number) : effects[i].by.at = op.at
  IN  /\ a.outcome \in {"not_sent", "rejected"} => ~Taken
      /\ a.outcome = "confirmed" =>
           /\ a.value = "no_target" => ~Taken
           /\ a.value # "no_target" /\ method \in Inputs => Taken
           /\ a.value = "previous" /\ method = "read_text" => \A i \in InputOf(Number) : ~effects[i].changed

(* All steps before the current one were taken, and none after; text is     *)
(* entered again only when the first attempt left it as it was.             *)
InputInv ==
  /\ op.phase = "input" =>
       /\ \A i \in InputOf(Number) : effects[i].by.at <= op.at
       /\ \A at \in InputsOf(op.kind) : at < op.at => \E i \in InputOf(Number) : effects[i].by.at = at
       /\ op.kind = "type_text" /\ op.at \in 5..6 =>
            \A i \in InputOf(Number) : effects[i].by.at < op.at => ~effects[i].changed
       /\ page.text = "previous" => \A i \in InputOf(Number) : ~effects[i].changed
       /\ \A a \in Arriving : AnswerOK(a)
  /\ op.phase \in {"settle", "loading", "document"} /\ op.kind \in InputKinds => Whole(Number, op.kind)

-----------------------------------------------------------------------------

(* What a command does to the text, and what it says of it.                 *)
LEMMA HandledText ==
  ASSUME NEW method, NEW h \in Handled(method), PageTypes
  PROVE  /\ h[1].text = page.text \/ (method \in {"insert", "set"} /\ h[3] = "done")
         /\ h[1].text = "previous" => page.text = "previous"
         /\ method \in Inputs => h[3] \in {"done", "no_target"}
         /\ method = "read_text" /\ h[3] = "previous" => page.text = "previous"
<1>0. DOMAIN page = DOMAIN NewPage /\ "text" \in DOMAIN NewPage
  BY DEF PageTypes, NewPage
<1>1. CASE method \in {"insert", "set"}
  <2>1. h = <<page, <<>>, "no_target">> \/ \E t \in EnteredText : h = <<[page EXCEPT !.text = t], <<>>, "done">>
    BY <1>1 DEF Handled
  <2>2. CASE h = <<page, <<>>, "no_target">>
    BY <1>1, <2>2
  <2>3. CASE \E t \in EnteredText : h = <<[page EXCEPT !.text = t], <<>>, "done">>
    <3>1. PICK t \in EnteredText : h = <<[page EXCEPT !.text = t], <<>>, "done">>
      BY <2>3
    <3>2. h[1].text = t /\ h[3] = "done"
      BY <1>0, <3>1
    <3> QED
      BY <1>1, <3>2 DEF EnteredText
  <2> QED
    BY <2>1, <2>2, <2>3
<1>2. CASE method \in {"revalidate", "read_text", "ready_state"}
  BY <1>2 DEF Handled, Inputs
<1>3. CASE method = "navigate"
  <2>1. h[1] = [page EXCEPT !.loading = TRUE, !.live = TRUE] \/ h[1] = page
    BY <1>3 DEF Handled
  <2> QED
    BY <1>0, <1>3, <2>1 DEF Inputs
<1>4. CASE method \in {"watch", "unwatch"}
  <2>1. h[1] = [page EXCEPT !.watched = TRUE] \/ h[1] = [page EXCEPT !.watched = FALSE]
    <3>1. CASE method = "watch"
      BY <3>1 DEF Handled
    <3>2. CASE method = "unwatch"
      BY <3>2 DEF Handled
    <3> QED
      BY <1>4, <3>1, <3>2
  <2> QED
    BY <1>0, <1>4, <2>1 DEF Inputs
<1>5. CASE method = "mask"
  <2>1. h[1] = [page EXCEPT !.masked = page.version] \/ h[1] = page
    BY <1>5 DEF Handled
  <2> QED
    BY <1>0, <1>5, <2>1 DEF Inputs
<1>6. CASE method = "unmask"
  <2>1. h[1] = [page EXCEPT !.masked = -1]
    BY <1>6 DEF Handled
  <2> QED
    BY <1>0, <1>6, <2>1 DEF Inputs
<1>7. CASE method \in {"observe", "screenshot"}
  BY <1>7 DEF Handled, Inputs
<1>8. CASE method \notin {"revalidate", "read_text", "ready_state", "insert", "set", "navigate", "watch", "unwatch",
                          "mask", "unmask", "observe", "screenshot"}
  BY <1>8 DEF Handled, Inputs
<1> QED
  BY <1>1, <1>2, <1>3, <1>4, <1>5, <1>6, <1>7, <1>8

(* One element is joined by appending it.                                   *)
LEMMA JoinedByOne ==
  ASSUME NEW s, IsSeq(s), NEW x
  PROVE  s \o <<x>> = Append(s, x)
BY DEF IsSeq

(* Events before a response, on the socket.                                 *)
LEMMA EmittedIs ==
  ASSUME IsSeq(fromChrome), NEW es, IsSeq(es), NEW m, Emit(es \o <<m>>)
  PROVE  /\ IsSeq(fromChrome')
         /\ \A i \in DOMAIN fromChrome : i \in DOMAIN fromChrome' /\ fromChrome'[i] = fromChrome[i]
         /\ \A i \in DOMAIN fromChrome' :
              \/ i \in DOMAIN fromChrome
              \/ \E j \in DOMAIN es : ~broken /\ i = Len(fromChrome) + j /\ fromChrome'[i] = es[j]
              \/ ~broken /\ i = Len(fromChrome) + Len(es) + 1 /\ fromChrome'[i] = m
         /\ ~broken => \A j \in DOMAIN es : Len(fromChrome) + j \in DOMAIN fromChrome' /\ fromChrome'[Len(fromChrome) + j] = es[j]
<1> DEFINE all == es \o <<m>>
<1>2. /\ IsSeq(all) /\ Len(all) = Len(es) + 1
      /\ \A j \in DOMAIN es : all[j] = es[j]
      /\ all[Len(es) + 1] = m
  <2>1. all = Append(es, m)
    BY JoinedByOne
  <2> HIDE DEF all
  <2>2. /\ IsSeq(Append(es, m)) /\ Len(Append(es, m)) = Len(es) + 1
        /\ \A i \in DOMAIN es : Append(es, m)[i] = es[i]
        /\ Append(es, m)[Len(es) + 1] = m
    BY Appended
  <2> QED
    BY <2>1, <2>2
<1>3. /\ Len(es) \in Nat /\ DOMAIN es = 1..Len(es) /\ DOMAIN all = 1..Len(all)
  BY <1>2, SequenceIs
<1>4. Emit(all)
  OBVIOUS
<1> HIDE DEF all
<1>5. /\ IsSeq(fromChrome')
      /\ \A i \in DOMAIN fromChrome : i \in DOMAIN fromChrome' /\ fromChrome'[i] = fromChrome[i]
      /\ \A i \in DOMAIN fromChrome' :
              \/ i \in DOMAIN fromChrome
              \/ \E j \in DOMAIN all : ~broken /\ i = Len(fromChrome) + j /\ fromChrome'[i] = all[j]
      /\ ~broken => \A j \in DOMAIN all :
              Len(fromChrome) + j \in DOMAIN fromChrome' /\ fromChrome'[Len(fromChrome) + j] = all[j]
  BY <1>2, <1>4, EmitIs
<1>6. \A j \in DOMAIN all : (j \in DOMAIN es /\ all[j] = es[j]) \/ (j = Len(es) + 1 /\ all[j] = m)
  BY <1>2, <1>3
<1>7. Len(fromChrome) \in Nat /\ \A j \in DOMAIN es : j \in DOMAIN all
  BY <1>2, <1>3, SequenceIs
<1> QED
  BY <1>2, <1>3, <1>5, <1>6, <1>7

(* Chrome answers a request, and only that.                                 *)
Says(r, answer) == \A a \in Arriving' : a \in Arriving \/ a = None \/ (r.id = call.id /\ a = answer)

(* What Chrome says to a request arrives for the latest call only if the    *)
(* request is that call's.                                                  *)
LEMMA SaysIs ==
  ASSUME ConnInv, call' = call, NEW r, NEW es, NEW m, m.id = r.id,
         es = <<>> \/ \E kind \in {"started", "mask", "changed"} : es = <<Event(kind)>>,
         Emit(es \o <<m>>)
  PROVE  Says(r, m.answer) /\ IsSeq(es) /\ \A j \in DOMAIN es : j = 1 /\ es[j].answer = None
<1>1. IsSeq(es) /\ \A j \in DOMAIN es : j = 1 /\ es[j].answer = None
  <2>1. CASE es = <<>>
    BY <2>1, Singles
  <2>2. CASE \E kind \in {"started", "mask", "changed"} : es = <<Event(kind)>>
    <3>1. PICK kind : es = <<Event(kind)>>
      BY <2>2
    <3> DEFINE e == Event(kind)
    <3>2. e.answer = None /\ es = <<e>>
      BY <3>1 DEF Event
    <3> HIDE DEF e
    <3>3. IsSeq(<<e>>) /\ DOMAIN <<e>> = {1} /\ <<e>>[1] = e
      BY Singles
    <3> QED
      BY <3>2, <3>3
  <2> QED
    BY <2>1, <2>2
<1>2. IsSeq(fromChrome)
  BY DEF ConnInv, ChannelTypes
<1>3. /\ \A i \in DOMAIN fromChrome : i \in DOMAIN fromChrome' /\ fromChrome'[i] = fromChrome[i]
      /\ \A i \in DOMAIN fromChrome' :
              \/ i \in DOMAIN fromChrome
              \/ \E j \in DOMAIN es : ~broken /\ i = Len(fromChrome) + j /\ fromChrome'[i] = es[j]
              \/ ~broken /\ i = Len(fromChrome) + Len(es) + 1 /\ fromChrome'[i] = m
  BY <1>1, <1>2, EmittedIs
<1>4. \A i \in DOMAIN fromChrome' : \/ i \in DOMAIN fromChrome /\ fromChrome'[i] = fromChrome[i]
                                    \/ fromChrome'[i].answer = None \/ fromChrome'[i] = m
  BY <1>1, <1>3
<1>5. Says(r, m.answer)
  BY <1>4 DEF Says, Arriving
<1> QED
  BY <1>1, <1>5

(* Chrome either acts, and says so, or it does not, and says that.          *)
LEMMA HandlesInput ==
  ASSUME BaseInv, ChromeHandles
  PROVE  LET r == Head(toChrome) IN
         /\ page'.text = "previous" => page.text = "previous"
         /\ \/ \E e : /\ effects' = Append(effects, e) /\ e.by = r.by /\ e.method = r.method
                      /\ e.changed => page'.text # page.text
                      /\ r.method \in Inputs /\ (r.method = "dispatch" => page'.text = page.text)
                      /\ Says(r, Outcome("confirmed", "done"))
            \/ /\ effects' = effects /\ page'.text = page.text
               /\ \/ \E value : /\ Says(r, Outcome("confirmed", value))
                                /\ r.method \in Inputs => value = "no_target"
                                /\ r.method = "read_text" /\ value = "previous" => page.text = "previous"
                  \/ Says(r, Outcome("rejected", "none"))
<1> DEFINE r == Head(toChrome)
<1>0. ConnInv /\ PageTypes /\ call' = call
  BY DEF BaseInv, ChromeHandles
<1>1. CASE \E h \in Handled(r.method) :
             /\ page' = h[1]
             /\ Emit(h[2] \o <<Response(r, "confirmed", h[3])>>)
             /\ effects' = IF r.method \in Inputs /\ h[3] = "done"
                           THEN Append(effects, [by |-> r.by, method |-> r.method, changed |-> page.text # h[1].text])
                           ELSE effects
  <2>1. PICK h \in Handled(r.method) :
             /\ page' = h[1]
             /\ Emit(h[2] \o <<Response(r, "confirmed", h[3])>>)
             /\ effects' = IF r.method \in Inputs /\ h[3] = "done"
                           THEN Append(effects, [by |-> r.by, method |-> r.method, changed |-> page.text # h[1].text])
                           ELSE effects
    BY <1>1
  <2> DEFINE m == Response(r, "confirmed", h[3])
             e == [by |-> r.by, method |-> r.method, changed |-> page.text # h[1].text]
  <2>2. m.id = r.id /\ m.answer = Outcome("confirmed", h[3])
    BY DEF Response
  <2>3. e.by = r.by /\ e.method = r.method /\ (e.changed => page'.text # page.text)
    BY <2>1
  <2>4. Emit(h[2] \o <<m>>)
    BY <2>1
  <2> HIDE DEF m
  <2>5. Says(r, Outcome("confirmed", h[3]))
    BY <1>0, <2>2, <2>4, HandledIs, SaysIs
  <2>6. effects' = IF r.method \in Inputs /\ h[3] = "done" THEN Append(effects, e) ELSE effects
    BY <2>1
  <2> HIDE DEF e
  <2>7. /\ h[1].text = page.text \/ (r.method \in {"insert", "set"} /\ h[3] = "done")
        /\ h[1].text = "previous" => page.text = "previous"
        /\ r.method \in Inputs => h[3] \in {"done", "no_target"}
        /\ r.method = "read_text" /\ h[3] = "previous" => page.text = "previous"
    BY <1>0, HandledText
  <2>8. CASE r.method \in Inputs /\ h[3] = "done"
    BY <2>1, <2>3, <2>5, <2>6, <2>7, <2>8
  <2>9. CASE ~(r.method \in Inputs /\ h[3] = "done")
    BY <2>1, <2>5, <2>6, <2>7, <2>9 DEF Inputs
  <2> QED
    BY <2>8, <2>9
<1>2. CASE Emit(<<Response(r, "rejected", "none")>>) /\ UNCHANGED <<page, effects>>
  <2> DEFINE m == Response(r, "rejected", "none")
  <2>1. m.id = r.id /\ m.answer = Outcome("rejected", "none")
    BY DEF Response
  <2>2. <<>> \o <<m>> = <<m>>
    OBVIOUS
  <2>3. Emit(<<>> \o <<m>>)
    BY <1>2, <2>2
  <2> HIDE DEF m
  <2>4. Says(r, Outcome("rejected", "none"))
    BY <1>0, <2>1, <2>3, SaysIs
  <2> QED
    BY <1>2, <2>4
<1> QED
  BY <1>1, <1>2 DEF ChromeHandles

(* A refusal to send stays the only one of its outcome.                     *)
LEMMA RefusalInductive ==
  ASSUME BaseInv, RefusalInv, [Next]_vars
  PROVE  RefusalInv'
<1>0. CallerSteps \/ LifeSteps \/ Close \/ Elsewhere
  BY NextIs
<1>1. ASSUME Moving PROVE RefusalInv'
  BY <1>1, OutcomesDiffer DEF RefusalInv, Moving
<1>2. CASE CallerSteps \/ LifeSteps
  <2>1. CallerFrame /\ ConnInv
    BY <1>2, CallerFrames DEF BaseInv, ConnInv
  <2>2. CASE Issued
    <3>1. PICK by, method, cancelled : Issue(by, method, cancelled)
      BY <2>2 DEF Issued
    <3>2. Arriving' = {call'.reply} /\ call'.reply \in {None, NotSent}
      BY <2>1, <3>1, IssuedKeeps DEF CallerFrame
    <3> QED
      BY <3>2, OutcomesDiffer DEF RefusalInv
  <2>3. CASE HangUp \/ Waits
    BY <1>1, <2>1, <2>3, WaitingKeeps DEF CallerFrame
  <2> QED
    BY <2>1, <2>2, <2>3 DEF CallerFrame, CallStep
<1>3. CASE Close
  BY <1>3, ClosedIs, OutcomesDiffer DEF RefusalInv
<1>4. CASE Elsewhere
  <2>1. CASE ChromeHandles
    <3>1. \E answer : answer.outcome # "not_sent" /\ Says(Head(toChrome), answer)
      <4>1. \A value : Outcome("confirmed", value).outcome = "confirmed" /\ Outcome("rejected", value).outcome = "rejected"
        BY DEF Outcome
      <4> QED
        BY <2>1, <4>1, HandlesInput
    <3> QED
      BY <3>1, OutcomesDiffer DEF RefusalInv, Says
  <2> QED
    BY <1>1, <1>4, <2>1, ElsewhereIs
<1> QED
  BY <1>0, <1>2, <1>3, <1>4

InputGroup == InputsInFlight /\ InputsHandled /\ InputInv

(* An operation that is no input has acted on nothing.                      *)
LEMMA NoInputYet ==
  ASSUME InputsHandled, op.kind \notin InputKinds
  PROVE  InputOf(Number) = {}
BY DEF InputsHandled, EffectOK, InputOf, KindOf

(* A command in flight for the place an input is at did not act yet.        *)
LEMMA NotTakenYet ==
  ASSUME StageInv, InputsInFlight, InputsHandled, op.phase = "input", NEW r \in InFlight, r.id = call.id
  PROVE  \A i \in InputOf(Number) : effects[i].by.at # op.at
<1> SUFFICES ASSUME NEW i \in InputOf(Number), effects[i].by.at = op.at PROVE FALSE
  OBVIOUS
<1>1. r.method = Suboperations[op.kind][op.at].method /\ r.by = Place(Number, op.at)
  BY DEF StageInv, CurrentInv
<1>2. r.by.op = Number /\ r.by.at = op.at
  BY <1>1 DEF Place
<1>3. effects[i].by.at \in InputsOf(op.kind)
  BY DEF InputsHandled, EffectOK, InputOf, KindOf
<1>4. r \in InputRequests
  BY <1>1, <1>3 DEF InputsOf, InputRequests
<1>5. effects[i].by.at < r.by.at
  BY <1>2, <1>4 DEF InputsInFlight, RequestOK
<1> QED
  BY <1>2, <1>3, <1>5, StepsAre DEF StageInv, PhaseInv, InputsOf

(* A step that moves no request, and changes neither the operation nor the  *)
(* page's text back, keeps what is known of the input.                      *)
LEMMA MovingInput ==
  ASSUME BaseInv, StageInv, InputGroup, Moving, UNCHANGED <<results, effects>>,
         op'.kind = op.kind, op'.phase = op.phase, op'.at = op.at,
         page'.text = "previous" => page.text = "previous"
  PROVE  InputGroup'
<1>1. Number' = Number /\ (\A k : KindOf(k)' = KindOf(k)) /\ (\A k : InputOf(k)' = InputOf(k))
  BY DEF Number, KindOf, InputOf
<1>2. call'.id = call.id /\ InputRequests' \subseteq InputRequests
  BY DEF Moving, InputRequests
<1>3. InputsInFlight'
  BY <1>1, <1>2 DEF InputGroup, InputsInFlight, RequestOK
<1>4. InputsHandled'
  BY <1>1 DEF InputGroup, InputsHandled, EffectOK, Whole, NotPerformedIsSafe
<1>5. ASSUME op'.phase = "input", NEW a \in Arriving' PROVE AnswerOK(a)'
  <2>1. CASE a \in Arriving
    BY <1>1, <1>5, <2>1 DEF InputGroup, InputInv, AnswerOK
  <2>2. CASE a.outcome \in {"none", "unknown"}
    BY <2>2 DEF AnswerOK
  <2>3. CASE a = NotSent /\ \E r \in InFlight : r.id = call.id
    <3>1. \A i \in InputOf(Number) : effects[i].by.at # op.at
      BY <1>5, <2>3, NotTakenYet DEF InputGroup
    <3> QED
      BY <1>1, <2>3, <3>1, OutcomesDiffer DEF AnswerOK
  <2> QED
    BY <1>5, <2>1, <2>2, <2>3 DEF Moving
<1>6. InputInv'
  BY <1>1, <1>5 DEF InputGroup, InputInv, Whole
<1> QED
  BY <1>3, <1>4, <1>6 DEF InputGroup

(* Chrome answered without acting: the answer says so.                      *)
LEMMA AnsweredOnly ==
  ASSUME BaseInv, StageInv, RefusalInv, InputGroup, ChromeHandles, UNCHANGED <<effects, op, results>>,
         page'.text = "previous" => page.text = "previous",
         NEW answer, Says(Head(toChrome), answer),
         \/ answer.outcome = "confirmed"
            /\ (Head(toChrome).method \in Inputs => answer.value = "no_target")
            /\ (Head(toChrome).method = "read_text" /\ answer.value = "previous" => page.text = "previous")
         \/ answer.outcome = "rejected"
  PROVE  InputGroup'
<1> DEFINE r == Head(toChrome)
<1>1. /\ r \in InFlight /\ InFlight' = InFlight \ {r} /\ call' = call /\ ~ChromeAnswered
  BY HandlesKeeps DEF BaseInv
<1>2. Number' = Number /\ (\A k : KindOf(k)' = KindOf(k)) /\ (\A k : InputOf(k)' = InputOf(k))
  BY DEF Number, KindOf, InputOf
<1>3. InputRequests' \subseteq InputRequests
  BY <1>1 DEF InputRequests
<1>4. InputsInFlight'
  BY <1>1, <1>2, <1>3 DEF InputGroup, InputsInFlight, RequestOK
<1>5. InputsHandled'
  BY <1>2 DEF InputGroup, InputsHandled, EffectOK, Whole, NotPerformedIsSafe
<1>6. ASSUME op'.phase = "input", NEW a \in Arriving' PROVE AnswerOK(a)'
  <2>1. CASE a \in Arriving
    BY <1>2, <1>6, <2>1 DEF InputGroup, InputInv, AnswerOK
  <2>2. CASE a = None
    BY <2>2, OutcomesDiffer DEF AnswerOK
  <2>3. CASE r.id = call.id /\ a = answer
    <3>1. \A i \in InputOf(Number) : effects[i].by.at # op.at
      BY <1>1, <1>6, <2>3, NotTakenYet DEF InputGroup
    <3>2. r.method = Suboperations[op.kind][op.at].method
      BY <1>1, <1>6, <2>3 DEF StageInv, CurrentInv
    <3>3. page.text = "previous" => \A i \in InputOf(Number) : ~effects[i].changed
      BY <1>6 DEF InputGroup, InputInv
    <3> HIDE DEF r
    <3> QED
      BY <1>2, <2>3, <3>1, <3>2, <3>3 DEF AnswerOK, r
  <2> QED
    BY <2>1, <2>2, <2>3 DEF Says
<1>7. InputInv'
  BY <1>2, <1>6 DEF InputGroup, InputInv, Whole
<1> QED
  BY <1>4, <1>5, <1>7 DEF InputGroup

(* Chrome acted on an input: one more effect, in the request's place.       *)
LEMMA Acted ==
  ASSUME BaseInv, StageInv, RefusalInv, InputGroup, ChromeHandles, UNCHANGED <<op, results>>,
         page'.text = "previous" => page.text = "previous",
         NEW e, effects' = Append(effects, e), e.by = Head(toChrome).by, e.method = Head(toChrome).method,
         e.changed => page'.text # page.text, Head(toChrome).method \in Inputs,
         Says(Head(toChrome), Outcome("confirmed", "done"))
  PROVE  InputGroup'
<1> DEFINE r == Head(toChrome)
           n == Len(effects) + 1
<1>1. /\ r \in InFlight /\ InFlight' = InFlight \ {r} /\ call' = call /\ ~ChromeAnswered
      /\ \A x \in InFlight' : x.id # r.id
  BY HandlesKeeps DEF BaseInv
<1>a. r \in InputRequests /\ e.by = r.by /\ e.method = r.method
  BY <1>1 DEF InputRequests
<1>b. Says(r, Outcome("confirmed", "done"))
  OBVIOUS
<1> HIDE DEF r
<1>2. Number' = Number /\ (\A k : KindOf(k)' = KindOf(k))
  BY DEF Number, KindOf
<1>3. /\ n \notin DOMAIN effects /\ DOMAIN effects' = DOMAIN effects \cup {n} /\ effects'[n] = e
      /\ \A i \in DOMAIN effects : effects'[i] = effects[i] /\ i < n /\ i \in Nat
      /\ n \in Nat
  <2>1. IsSeq(effects)
    BY DEF BaseInv, PageTypes
  <2>2. IsSeq(effects') /\ Len(effects') = n /\ effects'[n] = e /\ \A i \in DOMAIN effects : effects'[i] = effects[i]
    BY <2>1, Appended
  <2>3. Len(effects) \in Nat /\ DOMAIN effects = 1..Len(effects) /\ DOMAIN effects' = 1..n
    BY <2>1, <2>2, SequenceIs
  <2> QED
    BY <2>2, <2>3
<1> HIDE DEF n
<1>4. \A k : InputOf(k)' = IF k = r.by.op THEN InputOf(k) \cup {n} ELSE InputOf(k)
  BY <1>3, <1>a DEF InputOf
<1>c. InputOf(Number)' = IF Number = r.by.op THEN InputOf(Number) \cup {n} ELSE InputOf(Number)
  BY <1>2, <1>3, <1>a DEF InputOf
<1>d. \A i \in InputOf(Number) : effects'[i] = effects[i] /\ i \in InputOf(Number)'
  BY <1>3, <1>c DEF InputOf
<1>5. RequestOK(r)
  BY <1>a DEF InputGroup, InputsInFlight
<1>6. InputRequests' \subseteq InputRequests /\ \A s \in InputRequests' : s.by.op # r.by.op
  BY <1>1, <1>5 DEF InputRequests, RequestOK
<1>7. InputsInFlight'
  <2> SUFFICES ASSUME NEW s \in InputRequests' PROVE RequestOK(s)'
    BY DEF InputsInFlight
  <2>1. RequestOK(s) /\ InputOf(s.by.op)' = InputOf(s.by.op)
    BY <1>4, <1>6 DEF InputGroup, InputsInFlight
  <2>2. \A i \in InputOf(s.by.op) : effects'[i] = effects[i]
    BY <1>3 DEF InputOf
  <2> QED
    BY <1>1, <1>2, <1>6, <2>1, <2>2 DEF RequestOK
<1>8. InputsHandled'
  <2>1. \A i \in DOMAIN effects' : EffectOK(i)'
    <3> TAKE i \in DOMAIN effects'
    <3>1. CASE i \in DOMAIN effects
      BY <1>2, <1>3, <3>1 DEF InputGroup, InputsHandled, EffectOK
    <3>2. CASE i = n
      BY <1>2, <1>3, <1>5, <1>a, <3>2 DEF RequestOK, EffectOK, InputsOf
    <3> QED
      BY <1>3, <3>1, <3>2
  <2>2. ASSUME NEW i \in DOMAIN effects', NEW j \in DOMAIN effects', i < j, effects'[i].by.op = effects'[j].by.op
        PROVE  effects'[i].by.at < effects'[j].by.at /\ (effects'[i].changed => effects'[j].method = "dispatch")
    <3>1. i \in DOMAIN effects
      BY <1>3, <2>2
    <3>2. CASE j \in DOMAIN effects
      BY <1>3, <2>2, <3>1, <3>2 DEF InputGroup, InputsHandled
    <3>3. CASE j = n
      <4>1. i \in InputOf(r.by.op)
        BY <1>3, <1>a, <2>2, <3>1, <3>3 DEF InputOf
      <4> QED
        BY <1>3, <1>5, <1>a, <3>1, <3>3, <4>1 DEF RequestOK
    <3> QED
      BY <1>3, <3>2, <3>3
  <2>3. ASSUME NEW k \in DOMAIN results, results[k].result \in {"performed", "not_performed", "rejected"}
        PROVE  InputOf(k)' = InputOf(k) /\ \A i \in InputOf(k) : effects'[i] = effects[i]
    <3>1. k \in Nat /\ k < Number
      BY SequenceIs DEF BaseInv, OpTypes, Number
    <3>2. k # r.by.op
      BY <1>5, <2>3, <3>1 DEF RequestOK
    <3> QED
      BY <1>3, <1>4, <3>2 DEF InputOf
  <2>4. \A k \in DOMAIN results : results[k].kind \in InputKinds /\ results[k].result = "performed"
          => Whole(k, results[k].kind)'
    <3> SUFFICES ASSUME NEW k \in DOMAIN results, results[k].kind \in InputKinds, results[k].result = "performed"
                 PROVE  Whole(k, results[k].kind)'
      OBVIOUS
    <3>1. Whole(k, results[k].kind)
      BY DEF InputGroup, InputsHandled
    <3>2. InputOf(k)' = InputOf(k) /\ \A i \in InputOf(k) : effects'[i] = effects[i]
      BY <2>3
    <3> QED
      BY <3>1, <3>2 DEF Whole
  <2>5. NotPerformedIsSafe'
    BY <2>3 DEF InputGroup, InputsHandled, NotPerformedIsSafe
  <2> QED
    BY <2>1, <2>2, <2>4, <2>5 DEF InputsHandled
<1>9. \A k : \A i \in InputOf(k) : effects'[i] = effects[i] /\ i \in InputOf(k)'
  BY <1>3, <1>4 DEF InputOf
<1>10. ASSUME op.phase = "input", r.by.op = Number
       PROVE  r.id = call.id /\ r.by.at = op.at /\ r.method = Suboperations[op.kind][op.at].method
  <2>1. r.id = call.id
    BY <1>5, <1>10 DEF RequestOK
  <2>2. r.by = Place(Number, op.at) /\ r.method = Suboperations[op.kind][op.at].method
    BY <1>1, <1>10, <2>1 DEF StageInv, CurrentInv
  <2> QED
    BY <2>1, <2>2 DEF Place
<1>11. ASSUME op.phase = "input", r.id = call.id
       PROVE  r.by.op = Number /\ r.by.at = op.at /\ n \in InputOf(Number)' /\ effects'[n].by.at = op.at
              /\ r.method = Suboperations[op.kind][op.at].method
  <2>2. r.by = Place(Number, op.at) /\ r.method = Suboperations[op.kind][op.at].method
    BY <1>1, <1>11 DEF StageInv, CurrentInv
  <2>3. r.by.op = Number /\ r.by.at = op.at
    BY <2>2 DEF Place
  <2> QED
    BY <1>3, <1>c, <1>a, <2>2, <2>3
<1>12. ASSUME op'.phase = "input", NEW a \in Arriving' PROVE AnswerOK(a)'
  <2>1. CASE r.id # call.id
    <3>1. r.by.op # Number
      BY <1>10, <1>12, <2>1
    <3>2. InputOf(Number)' = InputOf(Number)
      BY <1>c, <3>1
    <3>3. a \in Arriving \/ a = None
      BY <1>b, <2>1 DEF Says
    <3>4. a \in Arriving => AnswerOK(a)
      BY <1>12 DEF InputGroup, InputInv
    <3>5. a = None => AnswerOK(a)'
      BY OutcomesDiffer DEF AnswerOK
    <3> QED
      BY <1>2, <1>d, <3>2, <3>3, <3>4, <3>5 DEF AnswerOK
  <2>2. CASE r.id = call.id
    <3>1. a \in Arriving => a.outcome \notin {"confirmed", "rejected", "not_sent"}
      <4>1. a \in Arriving => a.outcome \notin {"confirmed", "rejected"}
        BY <1>1 DEF ChromeAnswered
      <4>2. call.reply # NotSent
        BY <1>1, <2>2 DEF BaseInv, ConnInv, ChannelInv
      <4>3. a \in Arriving /\ a # call.reply => a.outcome \in {"none", "confirmed", "rejected"}
        BY DEF Arriving, BaseInv, ConnInv, ChannelInv
      <4> QED
        BY <4>1, <4>2, <4>3 DEF RefusalInv
    <3>2. Outcome("confirmed", "done").outcome = "confirmed" /\ Outcome("confirmed", "done").value = "done"
      BY DEF Outcome
    <3>3. a = Outcome("confirmed", "done") \/ a.outcome \notin {"confirmed", "rejected", "not_sent"}
      BY <1>b, <3>1, OutcomesDiffer DEF Says
    <3>4. \E i \in InputOf(Number)' : effects'[i].by.at = op.at
      BY <1>11, <1>12, <2>2
    <3> QED
      BY <1>2, <3>2, <3>3, <3>4 DEF AnswerOK
  <2> QED
    BY <2>1, <2>2
<1>13. ASSUME op.phase = "input"
       PROVE  /\ \A i \in InputOf(Number)' : \/ i \in InputOf(Number) /\ effects'[i] = effects[i]
                                             \/ i = n /\ effects'[n].by.at = op.at /\ effects'[n] = e
  BY <1>3, <1>c, <1>d, <1>10, <1>13, <1>a
<1>14. op.phase = "input" => op.at \in Nat
  BY DEF BaseInv, OpTypes
<1>15. InputInv'
  <2>1. ASSUME op.phase = "input"
        PROVE  /\ \A i \in InputOf(Number)' : effects'[i].by.at <= op.at
               /\ \A at \in InputsOf(op.kind) : at < op.at => \E i \in InputOf(Number)' : effects'[i].by.at = at
               /\ op.kind = "type_text" /\ op.at \in 5..6 =>
                    \A i \in InputOf(Number)' : effects'[i].by.at < op.at => ~effects'[i].changed
               /\ page'.text = "previous" => \A i \in InputOf(Number)' : ~effects'[i].changed
    <3>a. \A i \in InputOf(Number) : effects[i].by.at <= op.at
      BY <2>1 DEF InputGroup, InputInv
    <3>b. \A i \in InputOf(Number)' : (i \in InputOf(Number) /\ effects'[i] = effects[i]) \/ effects'[i].by.at = op.at
      BY <1>13, <2>1
    <3>1. \A i \in InputOf(Number)' : effects'[i].by.at <= op.at
      <4> TAKE i \in InputOf(Number)'
      <4>1. op.at \in Nat /\ op.at <= op.at
        BY <1>14, <2>1
      <4>2. CASE effects'[i].by.at = op.at
        BY <4>1, <4>2
      <4>3. CASE i \in InputOf(Number) /\ effects'[i] = effects[i]
        BY <3>a, <4>3
      <4> QED
        BY <3>b, <4>2, <4>3
    <3>2. \A at \in InputsOf(op.kind) : at < op.at => \E i \in InputOf(Number)' : effects'[i].by.at = at
      BY <1>d, <2>1 DEF InputGroup, InputInv
    <3>3. op.kind = "type_text" /\ op.at \in 5..6 =>
                    \A i \in InputOf(Number)' : effects'[i].by.at < op.at => ~effects'[i].changed
      <4>1. op.kind = "type_text" /\ op.at \in 5..6 =>
              \A i \in InputOf(Number) : effects[i].by.at < op.at => ~effects[i].changed
        BY <2>1 DEF InputGroup, InputInv
      <4> QED
        <5>1. op.at \in Nat /\ ~(op.at < op.at)
          BY <1>14, <2>1
        <5>2. \A i \in InputOf(Number)' :
                effects'[i].by.at < op.at => i \in InputOf(Number) /\ effects'[i] = effects[i]
          BY <3>b, <5>1
        <5> QED
          BY <4>1, <5>2
    <3>4. page'.text = "previous" => \A i \in InputOf(Number)' : ~effects'[i].changed
      BY <1>13, <2>1 DEF InputGroup, InputInv
    <3> QED
      BY <3>1, <3>2, <3>3, <3>4
  <2>2. ASSUME op.phase \in {"settle", "loading", "document"}, op.kind \in InputKinds
        PROVE  Whole(Number, op.kind)'
    <3>1. r.by.op # Number
      BY <1>5, <2>2 DEF RequestOK
    <3>2. InputOf(Number)' = InputOf(Number)
      BY <1>c, <3>1
    <3> QED
      <4>1. Whole(Number, op.kind)
        BY <2>2 DEF InputGroup, InputInv
      <4>2. /\ Number' = Number /\ op'.kind = op.kind
            /\ \A i \in InputOf(Number) : effects'[i] = effects[i]
        BY <1>2, <1>d
      <4> QED
        BY <3>2, <4>1, <4>2 DEF Whole
  <2> QED
    BY <1>2, <1>12, <2>1, <2>2 DEF InputInv
<1> QED
  BY <1>7, <1>8, <1>15 DEF InputGroup

(* Whatever Chrome does with a request, what is known of the input stays    *)
(* right.                                                                   *)
LEMMA HandlesInputs ==
  ASSUME BaseInv, StageInv, RefusalInv, InputGroup, ChromeHandles, UNCHANGED <<op, results>>
  PROVE  InputGroup'
<1> DEFINE r == Head(toChrome)
<1>1. page'.text = "previous" => page.text = "previous"
  BY HandlesInput
<1>2. CASE \E e : /\ effects' = Append(effects, e) /\ e.by = r.by /\ e.method = r.method
                  /\ e.changed => page'.text # page.text
                  /\ r.method \in Inputs
                  /\ Says(r, Outcome("confirmed", "done"))
  BY <1>1, <1>2, Acted
<1>3. CASE /\ effects' = effects
           /\ \E value : /\ Says(r, Outcome("confirmed", value))
                         /\ r.method \in Inputs => value = "no_target"
                         /\ r.method = "read_text" /\ value = "previous" => page.text = "previous"
  <2>1. PICK value : /\ Says(r, Outcome("confirmed", value))
                     /\ r.method \in Inputs => value = "no_target"
                     /\ r.method = "read_text" /\ value = "previous" => page.text = "previous"
    BY <1>3
  <2> DEFINE answer == Outcome("confirmed", value)
  <2>2. answer.outcome = "confirmed" /\ answer.value = value /\ Says(r, answer)
    BY <2>1 DEF Outcome
  <2> HIDE DEF answer
  <2> QED
    BY <1>1, <1>3, <2>1, <2>2, AnsweredOnly
<1>4. CASE effects' = effects /\ Says(r, Outcome("rejected", "none"))
  <2> DEFINE answer == Outcome("rejected", "none")
  <2>1. answer.outcome = "rejected" /\ Says(r, answer)
    BY <1>4 DEF Outcome
  <2> HIDE DEF answer
  <2> QED
    BY <1>1, <1>4, <2>1, AnsweredOnly
<1> QED
  BY <1>2, <1>3, <1>4, HandlesInput

(* The same history has the same input of each operation.                   *)
LEMMA EffectsSame ==
  ASSUME UNCHANGED effects
  PROVE  (\A k : InputOf(k)' = InputOf(k)) /\ (Number' = Number => InputOf(Number)' = InputOf(Number))
BY DEF InputOf

(* Input starts: nothing of it is on its way or has arrived.                *)
LEMMA PerformsInput ==
  ASSUME BaseInv, StageInv, InputGroup, NEW kind \in Operations, Perform(kind)
  PROVE  InputGroup'
<1> DEFINE o == Operation(kind, "input")
           m == Suboperations[kind][1].method
<1>1. GoOn(o, m) /\ effects' = effects /\ op = NoOp
  BY DEF Perform, More, Free
<1>2. o.kind = kind /\ o.phase = "input" /\ o.at = 1 /\ NoOp.kind = "none" /\ NoOp.phase = "none"
  BY OperationIs DEF BaseInv
<1>3. CallerFrame
  BY CallerFrames DEF BaseInv, ConnInv, CallerSteps
<1> HIDE DEF o
<1>4. /\ op' = o /\ results' = results /\ Number' = Number
      /\ Arriving' = {call'.reply} /\ call'.reply \in {None, NotSent}
      /\ \A r \in InFlight' : r \in InFlight \/ (r.id = call'.id /\ r.method = m /\ r.by = Place(Number, 1) /\ call'.reply = None)
  BY <1>1, <1>2, <1>3, GoingOn
<1> HIDE DEF m
<1>5. kind \in InputKinds /\ 1 \in DOMAIN Suboperations[kind] /\ m = Suboperations[kind][1].method /\ "none" \notin InputKinds
  BY StepsAre, OperationsAssumption, InputKindsAre DEF m
<1>6. InputOf(Number) = {} /\ InputOf(Number)' = {} /\ \A k : InputOf(k)' = InputOf(k)
  BY <1>1, <1>2, <1>4, <1>5, NoInputYet, EffectsSame DEF InputGroup
<1>7. \A k : k # Number => KindOf(k)' = KindOf(k)
  BY <1>4 DEF KindOf
<1>8. KindOf(Number)' = kind
  BY <1>2, <1>4 DEF KindOf
<1>9. Number \in Nat \ {0}
  BY SequenceIs DEF BaseInv, OpTypes, Number
<1>10. \A r \in InputRequests : r.by.op \in 1..Number /\ r.by.op # Number
  BY <1>1, <1>2 DEF InputGroup, InputsInFlight, RequestOK
<1>11. \A r \in InputRequests' : r \in InputRequests \/ (r.id = call'.id /\ r.method = m /\ r.by.op = Number /\ r.by.at = 1)
  BY <1>4 DEF InputRequests, Place
<1>12. InputsInFlight'
  <2> SUFFICES ASSUME NEW r \in InputRequests' PROVE RequestOK(r)'
    BY DEF InputsInFlight
  <2>1. CASE r \in InputRequests
    <3>1. RequestOK(r)
      BY <2>1 DEF InputGroup, InputsInFlight
    <3>2. KindOf(r.by.op)' = KindOf(r.by.op) /\ InputOf(r.by.op)' = InputOf(r.by.op) /\ r.by.op # Number
      BY <1>6, <1>7, <1>10, <2>1
    <3>3. \A s \in InputRequests' : s.by.op = r.by.op => s \in InputRequests
      BY <1>11, <3>2
    <3> QED
      BY <1>1, <1>4, <3>1, <3>2, <3>3 DEF RequestOK
  <2>2. CASE r.id = call'.id /\ r.method = m /\ r.by.op = Number /\ r.by.at = 1
    <3>1. \A s \in InputRequests' : s.by.op = r.by.op => s.id = r.id
      BY <1>10, <1>11, <2>2
    <3>2. KindOf(r.by.op)' = kind /\ InputOf(r.by.op)' = {}
      BY <1>4, <1>6, <1>8, <2>2 DEF KindOf
    <3> QED
      BY <1>2, <1>4, <1>5, <1>9, <2>2, <3>1, <3>2 DEF RequestOK
  <2> QED
    BY <1>11, <2>1, <2>2
<1>13. InputsHandled'
  <2>1. ASSUME NEW i \in DOMAIN effects PROVE EffectOK(i)'
    <3>1. EffectOK(i) /\ effects[i].by.op # Number
      BY <1>6 DEF InputGroup, InputsHandled, InputOf
    <3>2. KindOf(effects[i].by.op)' = KindOf(effects[i].by.op)
      BY <1>1, <1>4, <3>1 DEF KindOf
    <3> QED
      BY <1>1, <1>4, <3>1, <3>2 DEF EffectOK
  <2> QED
    BY <1>1, <1>4, <1>6, <2>1 DEF InputGroup, InputsHandled, Whole, NotPerformedIsSafe
<1>14. InputInv'
  <2>1. \A at \in InputsOf(kind) : ~(at < 1)
    BY <1>5, StepsAre DEF InputsOf
  <2>2. \A a \in Arriving' : AnswerOK(a)'
    BY <1>4, <1>6, OutcomesDiffer DEF AnswerOK
  <2> QED
    BY <1>2, <1>4, <1>6, <2>1, <2>2 DEF InputInv
<1> QED
  BY <1>12, <1>13, <1>14 DEF InputGroup

(* An operation ends with a result that its input bears out.                *)
LEMMA EndsInput ==
  ASSUME BaseInv, InputGroup, NEW e, results' = Append(results, e), e.kind = op.kind, op' = NoOp, effects' = effects,
         InputRequests' \subseteq InputRequests,
         e.result \in {"performed", "not_performed", "rejected"} => \A r \in InputRequests' : r.by.op # Number,
         e.result = "performed" /\ op.kind \in InputKinds => Whole(Number, op.kind),
         e.result \in {"not_performed", "rejected"}
           => \A i \in InputOf(Number) : op.kind = "type_text" /\ ~effects[i].changed
  PROVE  InputGroup'
<1>1. /\ Number \in Nat \ {0} /\ Number' = Number + 1 /\ results'[Number] = e
      /\ DOMAIN results = 1..(Number - 1) /\ DOMAIN results' = 1..Number
      /\ \A k \in DOMAIN results : results'[k] = results[k]
  <2>1. IsSeq(results)
    BY DEF BaseInv, OpTypes
  <2>2. IsSeq(results') /\ Len(results') = Len(results) + 1 /\ results'[Len(results) + 1] = e
        /\ \A k \in DOMAIN results : results'[k] = results[k]
    BY <2>1, Appended
  <2>3. Len(results) \in Nat /\ DOMAIN results = 1..Len(results) /\ DOMAIN results' = 1..Len(results')
    BY <2>1, <2>2, SequenceIs
  <2> QED
    BY <2>2, <2>3 DEF Number
<1> DEFINE n == Number
<1>2. /\ n \in Nat \ {0} /\ Number = n /\ Number' = n + 1 /\ results'[n] = e
      /\ DOMAIN results = 1..(n - 1) /\ DOMAIN results' = 1..n
  BY <1>1
<1> HIDE DEF n
<1>3. \A k \in 1..n : k = n \/ (k \in DOMAIN results /\ k < n)
  BY <1>2
<1>4. \A k \in 1..n : k # Number' /\ k < Number' /\ k \in 1..Number'
  BY <1>2
<1>5. \A k \in 1..n : KindOf(k)' = KindOf(k)
  <2> TAKE k \in 1..n
  <2>1. CASE k = n
    BY <1>2, <1>4, <2>1 DEF KindOf
  <2>2. CASE k # n
    BY <1>1, <1>2, <1>3, <1>4, <2>2 DEF KindOf
  <2> QED
    BY <2>1, <2>2
<1>6. \A k : InputOf(k)' = InputOf(k)
  BY EffectsSame
<1>7. InputsInFlight'
  <2> SUFFICES ASSUME NEW r \in InputRequests' PROVE RequestOK(r)'
    BY DEF InputsInFlight
  <2>1. RequestOK(r) /\ r.by.op \in 1..n
    BY <1>2 DEF InputGroup, InputsInFlight, RequestOK
  <2>2. results'[r.by.op].result \notin {"performed", "not_performed", "rejected"}
    <3>1. CASE r.by.op = n
      BY <1>2, <3>1
    <3>2. CASE r.by.op # n
      BY <1>1, <1>2, <1>3, <2>1, <3>2 DEF RequestOK
    <3> QED
      BY <3>1, <3>2
  <2>3. KindOf(r.by.op)' = KindOf(r.by.op) /\ InputOf(r.by.op)' = InputOf(r.by.op)
    BY <1>5, <1>6, <2>1
  <2>4. r.by.op # Number' /\ r.by.op \in 1..Number'
    BY <1>4, <2>1
  <2> QED
    BY <2>1, <2>2, <2>3, <2>4 DEF RequestOK
<1>8. InputsHandled'
  <2>1. \A i \in DOMAIN effects : EffectOK(i)'
    <3> TAKE i \in DOMAIN effects
    <3>1. EffectOK(i) /\ effects[i].by.op \in 1..n
      BY <1>2 DEF InputGroup, InputsHandled, EffectOK
    <3>2. KindOf(effects[i].by.op)' = KindOf(effects[i].by.op) /\ effects[i].by.op \in 1..Number'
      BY <1>4, <1>5, <3>1
    <3> QED
      BY <3>1, <3>2 DEF EffectOK
  <2>2. ASSUME NEW k \in DOMAIN results', results'[k].kind \in InputKinds, results'[k].result = "performed"
        PROVE  Whole(k, results[k].kind)'
    <3>1. Whole(k, results'[k].kind)
      BY <1>1, <1>2, <1>3, <2>2 DEF InputGroup, InputsHandled
    <3> QED
      BY <1>6, <3>1 DEF Whole
  <2>3. NotPerformedIsSafe'
    <3> SUFFICES ASSUME NEW k \in DOMAIN results', results'[k].result \in {"not_performed", "rejected"}
                 PROVE  \A i \in InputOf(k)' : results'[k].kind = "type_text" /\ ~effects[i].changed
      BY DEF NotPerformedIsSafe
    <3> QED
      BY <1>1, <1>2, <1>3, <1>6 DEF InputGroup, InputsHandled, NotPerformedIsSafe
  <2> QED
    BY <2>1, <2>2, <2>3 DEF InputGroup, InputsHandled
<1>9. InputInv'
  BY OperationIs DEF InputInv, BaseInv
<1> QED
  BY <1>7, <1>8, <1>9 DEF InputGroup

(* Steps besides input: none is sent, and whatever has arrived stays whole. *)
Between == op.phase \in {"settle", "loading", "document"}

(* Steps that are beside input keep what is known of it.                    *)
LEMMA BesidesInput ==
  ASSUME InputGroup, op.phase # "input", op'.phase # "input", UNCHANGED <<effects, results>>,
         InputRequests' \subseteq InputRequests,
         op'.kind = op.kind \/ (op.kind \notin InputKinds /\ op'.kind \notin InputKinds),
         Between' /\ op'.kind \in InputKinds => Between /\ op'.kind = op.kind
  PROVE  InputGroup'
<1>1. Number' = Number /\ \A k : InputOf(k)' = InputOf(k)
  BY EffectsSame DEF Number
<1>2. InputOf(Number)' = InputOf(Number)
  BY <1>1, EffectsSame
<1>3. ASSUME NEW k, KindOf(k) \in InputKinds PROVE KindOf(k)' = KindOf(k)
  BY <1>1, <1>3 DEF KindOf
<1>4. InputsInFlight'
  <2> SUFFICES ASSUME NEW r \in InputRequests' PROVE RequestOK(r)'
    BY DEF InputsInFlight
  <2>1. RequestOK(r)
    BY DEF InputGroup, InputsInFlight
  <2>2. KindOf(r.by.op)' = KindOf(r.by.op) /\ InputOf(r.by.op)' = InputOf(r.by.op)
    BY <1>1, <1>3, <2>1 DEF RequestOK
  <2> QED
    BY <1>1, <2>1, <2>2 DEF RequestOK
<1>5. InputsHandled'
  <2>1. \A i \in DOMAIN effects : EffectOK(i)'
    <3> TAKE i \in DOMAIN effects
    <3>1. EffectOK(i) /\ KindOf(effects[i].by.op)' = KindOf(effects[i].by.op)
      BY <1>3 DEF InputGroup, InputsHandled, EffectOK
    <3> QED
      BY <1>1, <3>1 DEF EffectOK
  <2> QED
    BY <1>1, <2>1 DEF InputGroup, InputsHandled, Whole, NotPerformedIsSafe
<1>6. InputInv'
  <2> SUFFICES ASSUME Between', op'.kind \in InputKinds PROVE Whole(Number, op.kind)' /\ op'.kind = op.kind
    BY DEF InputInv, Between
  <2>1. Whole(Number, op.kind) /\ op'.kind = op.kind
    BY DEF InputGroup, InputInv, Between
  <2> QED
    BY <1>1, <1>2, <2>1 DEF Whole
<1> QED
  BY <1>4, <1>5, <1>6 DEF InputGroup

(* Text is read back only where it was entered.                             *)
LEMMA ReadsText ==
  ASSUME NEW kind \in InputKinds, NEW at \in DOMAIN Suboperations[kind], Suboperations[kind][at].method = "read_text"
  PROVE  kind = "type_text" /\ at \in {4, 8}
<1>1. CASE kind = "type_text"
  BY <1>1, TypeTextSteps DEF Suboperations, Command, After
<1>2. CASE kind = "click"
  BY <1>2 DEF Suboperations, Click, Command, After
<1>3. CASE kind = "press_key"
  BY <1>3 DEF Suboperations, PressKey, Command, After
<1>4. CASE kind = "hover"
  BY <1>4 DEF Suboperations, Hover, Command, After
<1>5. CASE kind \in {"select", "set_value"}
  BY <1>5 DEF Suboperations, Select, SetValue, Command, After
<1>6. CASE kind = "scroll"
  BY <1>6 DEF Suboperations, Scroll, Command, After
<1>7. CASE kind = "scroll_region"
  BY <1>7 DEF Suboperations, ScrollRegion, Command, After
<1> QED
  BY <1>1, <1>2, <1>3, <1>4, <1>5, <1>6, <1>7, InputKindsAre

(* An answer that is known is true, and nothing of the input is in flight   *)
(* with it.                                                                 *)
LEMMA AnswerKnown ==
  ASSUME BaseInv, StageInv, RefusalInv, InputGroup, op.phase = "input",
         NEW a \in Answers, a.outcome \in {"confirmed", "rejected", "not_sent"}
  PROVE  AnswerOK(a) /\ \A r \in InputRequests : r.by.op # Number
<1>1. a = call.reply /\ a \in Arriving
  BY OutcomesDiffer DEF Answers, Arriving
<1>2. AnswerOK(a)
  BY <1>1 DEF InputGroup, InputInv
<1>3. \A r \in InFlight : r.id # call.id
  <2>1. CASE a.outcome = "not_sent"
    BY <1>1, <2>1 DEF RefusalInv, BaseInv, ConnInv, ChannelInv
  <2>2. CASE a.outcome # "not_sent"
    BY <1>1, <2>2 DEF ChromeAnswered, BaseInv, ConnInv, ChannelInv
  <2> QED
    BY <2>1, <2>2
<1> QED
  BY <1>2, <1>3 DEF InputGroup, InputsInFlight, RequestOK, InputRequests

(* A first command that did not act leaves the page as it was.              *)
LEMMA NothingActed ==
  ASSUME BaseInv, StageInv, InputGroup, op.phase = "input", ~Suboperations[op.kind][op.at].after,
         \A i \in InputOf(Number) : effects[i].by.at # op.at
  PROVE  \A i \in InputOf(Number) : op.kind = "type_text" /\ ~effects[i].changed
<1> TAKE i \in InputOf(Number)
<1>1. effects[i].by.at \in InputsOf(op.kind)
  BY DEF InputGroup, InputsHandled, EffectOK, InputOf, KindOf
<1>2. op.kind \in InputKinds /\ op.at \in DOMAIN Suboperations[op.kind] /\ op.at \in Nat
  BY DEF StageInv, PhaseInv, BaseInv, OpTypes
<1>3. effects[i].by.at \in Nat
  BY <1>1, <1>2, StepsAre DEF InputsOf
<1>4. effects[i].by.at <= op.at /\ effects[i].by.at # op.at
  BY DEF InputGroup, InputInv
<1>5. effects[i].by.at < op.at
  BY <1>2, <1>3, <1>4
<1>6. op.kind = "type_text" /\ op.at = 5
  BY <1>1, <1>2, <1>5, StepOrder
<1> QED
  BY <1>5, <1>6 DEF InputGroup, InputInv

(* Input that is done has arrived whole.                                    *)
LEMMA DoneIsWhole ==
  ASSUME BaseInv, StageInv, InputGroup, op.phase = "input", NEW value, InputDone(op.kind, op.at, value),
         value # "no_target", AnswerOK(Outcome("confirmed", value))
  PROVE  Whole(Number, op.kind)
<1>1. op.kind \in InputKinds /\ op.at \in DOMAIN Suboperations[op.kind] /\ op.at \in Nat
  BY DEF StageInv, PhaseInv, BaseInv, OpTypes
<1>2. op.at \in InputsOf(op.kind) => \E i \in InputOf(Number) : effects[i].by.at = op.at
  <2>1. Outcome("confirmed", value).outcome = "confirmed" /\ Outcome("confirmed", value).value = value
    BY DEF Outcome
  <2> QED
    BY <2>1 DEF AnswerOK, InputsOf
<1>3. \A at \in InputsOf(op.kind) : at < op.at => \E i \in InputOf(Number) : effects[i].by.at = at
  BY DEF InputGroup, InputInv
<1>4. CASE op.at = Len(Suboperations[op.kind])
  <2>1. \A at \in InputsOf(op.kind) : at < op.at \/ at = op.at
    BY <1>1, <1>4, StepsAre DEF InputsOf
  <2> QED
    BY <1>2, <1>3, <2>1 DEF Whole
<1>5. CASE op.at # Len(Suboperations[op.kind])
  <2>1. op.kind = "type_text" /\ op.at = 4
    <3>1. Suboperations[op.kind][op.at].method = "read_text"
      BY <1>5 DEF InputDone
    <3>2. op.kind = "type_text" /\ op.at \in {4, 8}
      BY <1>1, <3>1, ReadsText
    <3>3. Len(Suboperations["type_text"]) = 8
      BY TypeTextSteps DEF Suboperations
    <3> QED
      BY <1>5, <3>2, <3>3
  <2>2. PICK i \in InputOf(Number) : effects[i].by.at = 3
    BY <1>3, <2>1, TypeTextInputs
  <2>3. \A j \in InputOf(Number) : effects[j].by.at = 3
    <3> TAKE j \in InputOf(Number)
    <3>1. effects[j].by.at \in {3, 6, 7}
      BY <2>1, TypeTextInputs DEF InputGroup, InputsHandled, EffectOK, InputOf, KindOf
    <3>2. effects[j].by.at <= 4
      BY <2>1 DEF InputGroup, InputInv
    <3> QED
      BY <3>1, <3>2
  <2>4. \A j \in InputOf(Number) : j = i
    <3> TAKE j \in InputOf(Number)
    <3>1. i \in DOMAIN effects /\ j \in DOMAIN effects /\ effects[i].by.op = Number /\ effects[j].by.op = Number
      BY DEF InputOf
    <3>2. i \in Nat /\ j \in Nat
      BY <3>1, SequenceIs DEF BaseInv, PageTypes
    <3>3. ~(i < j) /\ ~(j < i)
      <4>1. i < j => effects[i].by.at < effects[j].by.at
        BY <3>1 DEF InputGroup, InputsHandled
      <4>2. j < i => effects[j].by.at < effects[i].by.at
        BY <3>1 DEF InputGroup, InputsHandled
      <4> QED
        BY <2>2, <2>3, <4>1, <4>2
    <3> QED
      BY <3>2, <3>3
  <2> QED
    BY <2>1, <2>2, <2>4 DEF Whole
<1> QED
  BY <1>4, <1>5

(* So does one that goes on to end.                                         *)
LEMMA Finishing ==
  ASSUME BaseInv, InputGroup, CallerFrame, NEW result, Finish(result),
         result \in {"performed", "not_performed", "rejected"} => \A r \in InputRequests : r.by.op # Number,
         result = "performed" /\ op.kind \in InputKinds => Whole(Number, op.kind),
         result \in {"not_performed", "rejected"}
           => \A i \in InputOf(Number) : op.kind = "type_text" /\ ~effects[i].changed
  PROVE  InputGroup'
<1> DEFINE e == [kind |-> op.kind, result |-> result]
<1>1. e.kind = op.kind /\ e.result = result
  OBVIOUS
<1>2. results' = Append(results, e) /\ op' = NoOp /\ queue' = queue
  BY DEF Finish, HangUp
<1> HIDE DEF e
<1>3. effects' = effects /\ InputRequests' = InputRequests
  BY <1>2 DEF CallerFrame, InputRequests, InFlight
<1> QED
  BY <1>1, <1>2, <1>3, EndsInput

(* Input goes on with its next command.                                     *)
LEMMA GoesOnInput ==
  ASSUME BaseInv, StageInv, InputGroup, CallerFrame, op.phase = "input", UNCHANGED page,
         NEW a, a = call.reply, Confirmed(a), AnswerOK(a), a.value # "no_target", InFlight = {},
         ~InputDone(op.kind, op.at, a.value),
         GoOn([op EXCEPT !.at = @ + 1], Suboperations[op.kind][op.at + 1].method)
  PROVE  InputGroup'
<1> DEFINE o == [op EXCEPT !.at = @ + 1]
           m == Suboperations[op.kind][op.at + 1].method
           to == op.at + 1
<1>0. op.kind \in InputKinds /\ op.at \in DOMAIN Suboperations[op.kind] /\ op.at \in Nat /\ Number \in Nat \ {0}
  BY SequenceIs DEF StageInv, PhaseInv, BaseInv, OpTypes, Number
<1>1. o.phase = "input" /\ o.kind = op.kind /\ o.at = to
  BY DEF BaseInv, OpTypes, NoOp
<1>2. GoOn(o, m)
  OBVIOUS
<1> HIDE DEF o
<1>3. to \in DOMAIN Suboperations[op.kind] /\ m = Suboperations[op.kind][to].method /\ to \in Nat
      /\ \A at \in Nat : at < to <=> at <= op.at
  BY <1>0, StepsAre DEF InputDone
<1>a. op.at < to /\ op.at # to /\ (to \in 5..6 <=> op.at \in 4..5) /\ (to = 6 <=> op.at = 5)
  BY <1>0
<1> HIDE DEF m
<1>4. /\ op' = o /\ results' = results /\ Number' = Number
      /\ Arriving' = {call'.reply} /\ call'.reply \in {None, NotSent}
      /\ \A r \in InFlight' : r.id = call'.id /\ r.method = m /\ r.by = Place(Number, o.at)
  BY <1>2, GoingOn
<1> HIDE DEF to
<1>5. effects' = effects /\ (\A k : InputOf(k)' = InputOf(k)) /\ InputOf(Number)' = InputOf(Number)
      /\ \A k : KindOf(k)' = KindOf(k)
  BY <1>1, <1>4, EffectsSame DEF CallerFrame, KindOf
<1>6. \A i \in InputOf(Number) : /\ effects[i].by.at \in InputsOf(op.kind) /\ effects[i].by.at <= op.at
                                 /\ effects[i].by.at \in Nat
  <2> TAKE i \in InputOf(Number)
  <2>1. effects[i].by.at \in InputsOf(op.kind)
    BY DEF InputGroup, InputsHandled, EffectOK, InputOf, KindOf
  <2>2. effects[i].by.at \in Nat
    BY <1>0, <2>1, StepsAre DEF InputsOf
  <2> QED
    BY <2>1, <2>2 DEF InputGroup, InputInv
<1>7. \A i \in InputOf(Number) : effects[i].by.at < to /\ effects[i].by.at # to
  BY <1>3, <1>6
<1>8. op.kind = "type_text" /\ to \in 5..6 => \A i \in InputOf(Number) : ~effects[i].changed
  <2> SUFFICES ASSUME op.kind = "type_text", op.at \in 4..5 PROVE \A i \in InputOf(Number) : ~effects[i].changed
    BY <1>a
  <2>1. CASE op.at = 4
    <3>1. Suboperations[op.kind][op.at].method = "read_text"
      BY <2>1, TypeTextSteps DEF Suboperations, After
    <3>2. a.value = "previous"
      BY <3>1 DEF InputDone
    <3> QED
      BY <3>1, <3>2 DEF AnswerOK, Confirmed
  <2>2. CASE op.at = 5
    <3>1. \A i \in InputOf(Number) : effects[i].by.at < 5
      <4> TAKE i \in InputOf(Number)
      <4>1. effects[i].by.at \in {3, 6, 7} /\ effects[i].by.at <= 5
        BY <1>6, <2>2, TypeTextInputs
      <4> QED
        BY <4>1
    <3> QED
      BY <2>2, <3>1 DEF InputGroup, InputInv
  <2> QED
    BY <2>1, <2>2
<1>9. m \in Inputs => \A i \in InputOf(Number) : effects[i].changed => m = "dispatch"
  <2> SUFFICES ASSUME m \in Inputs, NEW i \in InputOf(Number), effects[i].changed PROVE m = "dispatch"
    OBVIOUS
  <2>1. m = "dispatch" \/ (op.kind = "type_text" /\ to = 6)
    BY <1>0, <1>3, <1>6, <1>7, StepOrder
  <2> QED
    BY <1>8, <2>1
<1>10. InputsInFlight'
  <2> SUFFICES ASSUME NEW r \in InputRequests' PROVE RequestOK(r)'
    BY DEF InputsInFlight
  <2>1. r.id = call'.id /\ r.method = m /\ r.by.op = Number /\ r.by.at = to /\ m \in Inputs
    BY <1>1, <1>4 DEF InputRequests, Place
  <2>2. KindOf(r.by.op)' = op.kind /\ InputOf(r.by.op)' = InputOf(Number)
    BY <1>5, <2>1 DEF KindOf
  <2>3. \A s \in InputRequests' : s.id = r.id
    BY <1>4, <2>1 DEF InputRequests
  <2> QED
    BY <1>0, <1>1, <1>3, <1>4, <1>5, <1>7, <1>9, <2>1, <2>2, <2>3 DEF RequestOK
<1>11. InputsHandled'
  BY <1>4, <1>5 DEF InputGroup, InputsHandled, EffectOK, Whole, NotPerformedIsSafe
<1>12. InputInv'
  <2>1. \A at \in InputsOf(op.kind) : at < to => \E i \in InputOf(Number) : effects[i].by.at = at
    <3> SUFFICES ASSUME NEW at \in InputsOf(op.kind), at < to PROVE \E i \in InputOf(Number) : effects[i].by.at = at
      OBVIOUS
    <3>1. at \in Nat /\ at <= op.at /\ Suboperations[op.kind][at].method \in Inputs
      BY <1>0, <1>3, StepsAre DEF InputsOf
    <3>2. CASE at < op.at
      BY <3>2 DEF InputGroup, InputInv
    <3>3. CASE at = op.at
      BY <3>1, <3>3 DEF AnswerOK, Confirmed
    <3> QED
      BY <1>0, <3>1, <3>2, <3>3
  <2>2. \A b \in Arriving' : AnswerOK(b)'
    BY <1>1, <1>4, <1>5, <1>7, OutcomesDiffer DEF AnswerOK
  <2>3. page'.text = "previous" => \A i \in InputOf(Number) : ~effects[i].changed
    BY DEF InputGroup, InputInv
  <2>4. \A i \in InputOf(Number) : effects[i].by.at <= to
    BY <1>3, <1>7, <1>6
  <2> QED
    BY <1>1, <1>4, <1>5, <1>8, <2>1, <2>2, <2>3, <2>4 DEF InputInv
<1> QED
  BY <1>10, <1>11, <1>12 DEF InputGroup

(* Input is reported not performed or rejected only before its first        *)
(* dispatch, by an answer that says so.                                     *)
LEMMA ClassifyIs ==
  ASSUME NEW step, NEW outcome
  PROVE  /\ Classify(step, outcome) \in {"uncertain", "not_performed", "rejected"}
         /\ Classify(step, outcome) = "not_performed" => ~step.after /\ outcome = "not_sent"
         /\ Classify(step, outcome) = "rejected" => ~step.after /\ outcome = "rejected"
BY DEF Classify

(* The answer to a step of input: the input goes on, settles, or is         *)
(* reported as it is.                                                       *)
LEMMA AnsweredInput ==
  ASSUME BaseInv, StageInv, RefusalInv, InputGroup, InputAnswered
  PROVE  InputGroup'
<1>0. CallerFrame /\ op.phase = "input" /\ page' = page /\ effects' = effects
  BY CallerFrames DEF BaseInv, ConnInv, CallerSteps, InputAnswered, Caller, chrome
<1> DEFINE step == Suboperations[op.kind][op.at]
<1>1. PICK a \in Answers :
       IF ~Confirmed(a) THEN Finish(Classify(step, a.outcome))
       ELSE IF a.value = "no_target" THEN Finish(Classify(step, "rejected"))
       ELSE IF ~InputDone(op.kind, op.at, a.value)
       THEN GoOn([op EXCEPT !.at = @ + 1], Suboperations[op.kind][op.at + 1].method)
       ELSE IF LostEventsSince(op.fence) THEN Finish("uncertain")
       ELSE IF op.kind \notin SettlesNavigation THEN Finish("performed")
       ELSE HangUp /\ op' = [op EXCEPT !.phase = "settle"] /\ UNCHANGED <<results, captured>>
  BY DEF InputAnswered
<1>2. a.outcome \in {"confirmed", "rejected", "not_sent"} => AnswerOK(a) /\ \A r \in InputRequests : r.by.op # Number
  BY <1>0, AnswerKnown
<1>3. (\A i \in InputOf(Number) : effects[i].by.at # op.at) /\ ~step.after
        => \A i \in InputOf(Number) : op.kind = "type_text" /\ ~effects[i].changed
  BY <1>0, NothingActed
<1> HIDE DEF step
<1>4. CASE ~Confirmed(a)
  <2> DEFINE result == Classify(step, a.outcome)
  <2>1. Finish(result)
    BY <1>1, <1>4
  <2>2. /\ result \in {"uncertain", "not_performed", "rejected"}
        /\ result = "not_performed" => ~step.after /\ a.outcome = "not_sent"
        /\ result = "rejected" => ~step.after /\ a.outcome = "rejected"
    BY ClassifyIs
  <2> HIDE DEF result
  <2>3. a.outcome \in {"rejected", "not_sent"} => \A i \in InputOf(Number) : effects[i].by.at # op.at
    BY <1>2 DEF AnswerOK
  <2> QED
    BY <1>0, <1>2, <1>3, <2>1, <2>2, <2>3, Finishing
<1>5. CASE Confirmed(a)
  <2>0. a.outcome = "confirmed" /\ a = call.reply /\ InFlight = {}
    BY <1>5, AnswersAre DEF Confirmed, BaseInv
  <2>1. CASE a.value = "no_target"
    <3> DEFINE result == Classify(step, "rejected")
    <3>1. Finish(result)
      BY <1>1, <1>5, <2>1
    <3>2. result \in {"uncertain", "not_performed", "rejected"} /\ (result \in {"not_performed", "rejected"} => ~step.after)
      BY ClassifyIs
    <3> HIDE DEF result
    <3>3. \A i \in InputOf(Number) : effects[i].by.at # op.at
      BY <1>2, <2>0, <2>1 DEF AnswerOK
    <3> QED
      BY <1>0, <1>2, <1>3, <2>0, <3>1, <3>2, <3>3, Finishing
  <2>2. CASE a.value # "no_target" /\ ~InputDone(op.kind, op.at, a.value)
    <3>1. GoOn([op EXCEPT !.at = @ + 1], Suboperations[op.kind][op.at + 1].method)
      BY <1>1, <1>5, <2>2
    <3> QED
      BY <1>0, <1>2, <1>5, <2>0, <2>2, <3>1, GoesOnInput
  <2>3. CASE a.value # "no_target" /\ InputDone(op.kind, op.at, a.value)
    <3>1. Whole(Number, op.kind)
      <4>1. AnswerOK(Outcome("confirmed", a.value))
        <5>1. Outcome("confirmed", a.value).outcome = "confirmed" /\ Outcome("confirmed", a.value).value = a.value
          BY DEF Outcome
        <5> QED
          BY <1>2, <2>0, <5>1 DEF AnswerOK
      <4> QED
        BY <1>0, <2>3, <4>1, DoneIsWhole
    <3>2. CASE Finish("uncertain")
      BY <1>0, <3>2, Finishing
    <3>3. CASE Finish("performed")
      BY <1>0, <1>2, <2>0, <3>1, <3>3, Finishing
    <3>4. CASE HangUp /\ op' = [op EXCEPT !.phase = "settle"] /\ UNCHANGED <<results, captured>>
      <4>1. op'.phase = "settle" /\ op'.kind = op.kind
        BY <3>4 DEF BaseInv, OpTypes, NoOp
      <4>2. InputRequests = {} /\ InputRequests' = {}
        BY <1>0, <2>0, <3>4 DEF InputRequests, InFlight, HangUp, CallerFrame
      <4>3. Number' = Number /\ (\A k : InputOf(k)' = InputOf(k)) /\ (\A k : KindOf(k)' = KindOf(k))
            /\ InputOf(Number)' = InputOf(Number)
        BY <1>0, <3>4, <4>1, EffectsSame DEF Number, KindOf
      <4>4. InputsInFlight'
        BY <4>2 DEF InputsInFlight
      <4>5. InputsHandled'
        BY <1>0, <3>4, <4>3 DEF InputGroup, InputsHandled, EffectOK, Whole, NotPerformedIsSafe
      <4>6. InputInv'
        <5>1. Whole(Number, op.kind)'
          BY <1>0, <3>1, <4>1, <4>3 DEF Whole
        <5> QED
          BY <4>1, <5>1 DEF InputInv
      <4> QED
        BY <4>4, <4>5, <4>6 DEF InputGroup
    <3> QED
      BY <1>1, <1>5, <2>3, <3>2, <3>3, <3>4
  <2> QED
    BY <2>1, <2>2, <2>3
<1> QED
  BY <1>4, <1>5

(* A command that is no input joins none to what is in flight.              *)
LEMMA NoInputIssued ==
  ASSUME BaseInv, CallerFrame
  PROVE  /\ \A o, m : GoOn(o, m) /\ m \notin Inputs => InputRequests' \subseteq InputRequests
         /\ queue' = queue => InputRequests' \subseteq InputRequests
         /\ \A by, m, cancelled : Issue(by, m, cancelled) /\ m \notin Inputs => InputRequests' \subseteq InputRequests
<1>1. ASSUME NEW o, NEW m, GoOn(o, m), m \notin Inputs PROVE InputRequests' \subseteq InputRequests
  BY <1>1, GoingOn DEF InputRequests
<1>2. queue' = queue => InputRequests' \subseteq InputRequests
  BY DEF CallerFrame, InputRequests, InFlight
<1>3. ASSUME NEW by, NEW m, NEW cancelled, Issue(by, m, cancelled), m \notin Inputs
      PROVE  InputRequests' \subseteq InputRequests
  <2>1. \A r \in InFlight' : r \in InFlight \/ r.method = m
    BY <1>3, IssuedKeeps DEF CallerFrame, BaseInv
  <2> QED
    BY <1>3, <2>1 DEF InputRequests
<1> QED
  BY <1>1, <1>2, <1>3

(* Besides the steps of input the caller goes on, or ends with what it has. *)
Aside == CallerSteps /\ op.phase # "input" /\ op'.phase # "input"

(* And keeps what is known of the input.                                    *)
LEMMA AsideIs ==
  ASSUME BaseInv, StageInv, InputGroup, Aside
  PROVE  InputGroup'
<1>0. /\ CallerFrame /\ effects' = effects /\ DOMAIN op = DOMAIN NoOp /\ "phase" \in DOMAIN op /\ "kind" \in DOMAIN op
      /\ NoOp.kind = "none" /\ "none" \notin InputKinds /\ NoOp.phase = "none"
      /\ op.phase # "input" /\ op'.phase # "input" /\ CallerSteps
  BY CallerFrames, OperationIs, InputKindsAre DEF Aside, BaseInv, ConnInv, CallerFrame, OpTypes, NoOp
<1>a. \A kind, phase : Operation(kind, phase).phase = phase /\ Operation(kind, phase).kind = kind
  BY OperationIs DEF BaseInv
<1>b. \A o, m : GoOn(o, m) => op' = o /\ results' = results
  BY DEF GoOn
<1>c. ASSUME NEW o, NEW m, GoOn(o, m), m \notin Inputs,
             o.kind = op.kind \/ (op.kind \notin InputKinds /\ o.kind \notin InputKinds),
             o.phase \in {"settle", "loading", "document"} => o.kind \notin InputKinds \/ (Between /\ o.kind = op.kind)
      PROVE  InputGroup'
  <2>1. InputRequests' \subseteq InputRequests /\ op' = o /\ results' = results
    BY <1>0, <1>b, <1>c, NoInputIssued
  <2> QED
    BY <1>0, <1>c, <2>1, BesidesInput DEF Between
<1>d. ASSUME NEW result, Finish(result), result \notin {"performed", "not_performed", "rejected"}
      PROVE  InputGroup'
  BY <1>0, <1>d, Finishing
<1>e. Fail => InputGroup'
  BY <1>d DEF Fail
<1>f. Finish("performed") /\ Between => InputGroup'
  <2>1. \A r \in InputRequests : r.by.op # Number
    BY <1>0 DEF InputGroup, InputsInFlight, RequestOK
  <2>2. Between /\ op.kind \in InputKinds => Whole(Number, op.kind)
    BY DEF InputGroup, InputInv, Between
  <2> QED
    BY <1>0, <2>1, <2>2, Finishing
<1>g. \A m \in {"navigate", "ready_state", "measure", "watch", "mask", "observe", "screenshot", "unmask", "unwatch",
                "probe", "emulate"} : m \notin Inputs
  BY DEF Inputs
<1>1. CASE Navigate
  <2>1. GoOn(Operation("navigate", "commit"), "navigate") /\ op = NoOp
    BY <1>1 DEF Navigate, Free
  <2>2. "navigate" \notin InputKinds
    BY InputKindsAre
  <2> QED
    BY <1>0, <1>a, <1>c, <1>g, <2>1, <2>2
<1>2. CASE Cancel
  BY <1>0, <1>2 DEF Cancel
<1>3. CASE \E kind \in Captures : Capture(kind)
  <2>1. PICK kind \in Captures : GoOn(Operation(kind, "capture"), "watch") /\ op = NoOp
    BY <1>3 DEF Capture, More, Free
  <2>2. kind \notin InputKinds
    BY InputKindsAre DEF Captures
  <2> QED
    BY <1>0, <1>a, <1>c, <1>g, <2>1, <2>2
<1>4. CASE \E kind \in Operations : Perform(kind)
  BY <1>0, <1>4, <1>a, <1>b DEF Perform
<1>5. CASE CommitAnswered
  <2> DEFINE o == [op EXCEPT !.phase = "document"]
  <2>1. GoOn(o, "ready_state") \/ Fail
    BY <1>5 DEF CommitAnswered
  <2>2. o.phase = "document" /\ o.kind = op.kind /\ op.kind = "navigate"
    BY <1>0, <1>5 DEF CommitAnswered, StageInv, PhaseInv
  <2>3. "navigate" \notin InputKinds
    BY InputKindsAre
  <2> HIDE DEF o
  <2> QED
    BY <1>c, <1>e, <1>g, <2>1, <2>2, <2>3
<1>6. CASE DocumentAnswered
  <2>0. op.phase = "document" /\ Between
    BY <1>6 DEF DocumentAnswered, Between
  <2>1. \/ op.kind \in InputKinds /\ Finish("performed")
        \/ op.kind \notin InputKinds /\ GoOn([op EXCEPT !.phase = "width"], "measure")
        \/ Fail
        \/ \E quiet : GoOn([op EXCEPT !.quiet = quiet, !.cursor = journal.cursor, !.polls = @ + 1], "ready_state")
    BY <1>6 DEF DocumentAnswered
  <2>2. CASE op.kind \notin InputKinds /\ GoOn([op EXCEPT !.phase = "width"], "measure")
    <3> DEFINE o == [op EXCEPT !.phase = "width"]
    <3>1. o.phase = "width" /\ o.kind = op.kind /\ GoOn(o, "measure")
      BY <1>0, <2>2
    <3> HIDE DEF o
    <3> QED
      BY <1>c, <1>g, <3>1
  <2>3. CASE \E quiet : GoOn([op EXCEPT !.quiet = quiet, !.cursor = journal.cursor, !.polls = @ + 1], "ready_state")
    <3>1. PICK quiet : GoOn([op EXCEPT !.quiet = quiet, !.cursor = journal.cursor, !.polls = @ + 1], "ready_state")
      BY <2>3
    <3> DEFINE o == [op EXCEPT !.quiet = quiet, !.cursor = journal.cursor, !.polls = @ + 1]
    <3>2. o.phase = "document" /\ o.kind = op.kind /\ GoOn(o, "ready_state")
      BY <1>0, <2>0, <3>1
    <3> HIDE DEF o
    <3> QED
      BY <1>c, <1>g, <2>0, <3>2
  <2> QED
    BY <1>e, <1>f, <2>0, <2>1, <2>2, <2>3
<1>7. CASE WidthAnswered \/ WithheldAnswered
  BY <1>7, <1>d, <1>e DEF WidthAnswered, WithheldAnswered
<1>8. ASSUME NEW o, NEW m, GoOn(o, m), op'.kind = op.kind, op'.phase \in {"capture", "cleanup", "withheld"},
             m \in {"watch", "mask", "observe", "screenshot", "unmask", "unwatch"}
      PROVE  InputGroup'
  BY <1>8, <1>b, <1>c, <1>g
<1>9. CASE CaptureAnswered
  <2>0. op.phase = "capture"
    BY <1>9 DEF CaptureAnswered
  <2>1. ASSUME NEW verdict, NEW seen, CleanUp(verdict, seen) PROVE InputGroup'
    <3>1. PICK at \in {1, 2} : GoOn([op EXCEPT !.phase = "cleanup", !.at = at, !.verdict = verdict, !.seen = seen],
                                    CleanupSteps[at])
      BY <2>1 DEF CleanUp
    <3> DEFINE o == [op EXCEPT !.phase = "cleanup", !.at = at, !.verdict = verdict, !.seen = seen]
    <3>2. CleanupSteps[at] \in {"unmask", "unwatch"}
      BY DEF CleanupSteps
    <3>3. o.phase = "cleanup" /\ o.kind = op.kind /\ GoOn(o, CleanupSteps[at])
      BY <1>0, <3>1
    <3> HIDE DEF o
    <3> QED
      BY <1>8, <1>b, <3>2, <3>3
  <2> DEFINE on == [op EXCEPT !.at = @ + 1]
  <2>2. on.phase = "capture" /\ on.kind = op.kind /\ DOMAIN on = DOMAIN op
    BY <1>0, <2>0
  <2> HIDE DEF on
  <2>3. \/ \E verdict, seen : CleanUp(verdict, seen)
        \/ GoOn([on EXCEPT !.fence = journal.cursor, !.renewed = Overtaken], "mask")
        \/ GoOn(on, "observe")
        \/ GoOn([on EXCEPT !.seen = <<call.reply.value, HasReceived("popup")>>], "screenshot")
        \/ GoOn([on EXCEPT !.seen = Append(op.seen, call.reply.value)], "observe")
    BY <1>9, CaptureGoes DEF StageInv, on
  <2>4. CASE GoOn([on EXCEPT !.fence = journal.cursor, !.renewed = Overtaken], "mask")
    <3> DEFINE o == [on EXCEPT !.fence = journal.cursor, !.renewed = Overtaken]
    <3>1. o.phase = "capture" /\ o.kind = op.kind /\ GoOn(o, "mask")
      BY <1>0, <2>2, <2>4
    <3> HIDE DEF o
    <3> QED
      BY <1>8, <1>b, <3>1
  <2>5. CASE GoOn(on, "observe")
    BY <1>8, <1>b, <2>2, <2>5
  <2>6. ASSUME NEW seen, NEW m \in {"screenshot", "observe"}, GoOn([on EXCEPT !.seen = seen], m) PROVE InputGroup'
    <3> DEFINE o == [on EXCEPT !.seen = seen]
    <3>1. o.phase = "capture" /\ o.kind = op.kind /\ GoOn(o, m)
      BY <1>0, <2>2, <2>6
    <3> HIDE DEF o
    <3> QED
      BY <1>8, <1>b, <3>1
  <2> QED
    BY <2>1, <2>3, <2>4, <2>5, <2>6
<1>10. CASE CleanupAnswered
  <2>0. op.phase = "cleanup"
    BY <1>10 DEF CleanupAnswered
  <2>1. \/ op.at < Len(CleanupSteps) /\ GoOn([op EXCEPT !.at = @ + 1], CleanupSteps[op.at + 1])
        \/ /\ HangUp /\ op' = NoOp
           /\ results' = Append(results, [kind |-> op.kind, result |-> "captured"])
        \/ GoOn([Operation(op.kind, "capture") EXCEPT !.attempt = op.attempt + 1], "watch")
        \/ GoOn([op EXCEPT !.phase = "withheld"], "observe")
        \/ Fail
    BY <1>10 DEF CleanupAnswered
  <2>2. CASE op.at < Len(CleanupSteps) /\ GoOn([op EXCEPT !.at = @ + 1], CleanupSteps[op.at + 1])
    <3> DEFINE o == [op EXCEPT !.at = @ + 1]
    <3>1. CleanupSteps[op.at + 1] \in {"unmask", "unwatch"}
      BY <2>2 DEF CleanupSteps, BaseInv, OpTypes
    <3>2. o.phase = "cleanup" /\ o.kind = op.kind /\ GoOn(o, CleanupSteps[op.at + 1])
      BY <1>0, <2>0, <2>2
    <3> HIDE DEF o
    <3> QED
      BY <1>8, <1>b, <3>1, <3>2
  <2>3. CASE HangUp /\ op' = NoOp /\ results' = Append(results, [kind |-> op.kind, result |-> "captured"])
    <3> DEFINE e == [kind |-> op.kind, result |-> "captured"]
    <3>1. e.kind = op.kind /\ e.result = "captured" /\ results' = Append(results, e)
      BY <2>3
    <3> HIDE DEF e
    <3>2. InputRequests' \subseteq InputRequests
      BY <1>0, <2>3, NoInputIssued DEF HangUp
    <3> QED
      BY <1>0, <2>3, <3>1, <3>2, EndsInput
  <2>4. CASE GoOn([Operation(op.kind, "capture") EXCEPT !.attempt = op.attempt + 1], "watch")
    <3> DEFINE o == Operation(op.kind, "capture")
               p == [o EXCEPT !.attempt = op.attempt + 1]
    <3>1. DOMAIN o = DOMAIN NoOp /\ o.phase = "capture" /\ o.kind = op.kind /\ GoOn(p, "watch")
      BY <2>4, OperationIs DEF BaseInv
    <3> HIDE DEF o
    <3>2. p.phase = "capture" /\ p.kind = op.kind
      BY <3>1 DEF NoOp
    <3> HIDE DEF p
    <3> QED
      BY <1>8, <1>b, <3>1, <3>2
  <2>5. CASE GoOn([op EXCEPT !.phase = "withheld"], "observe")
    <3> DEFINE o == [op EXCEPT !.phase = "withheld"]
    <3>1. o.phase = "withheld" /\ o.kind = op.kind /\ GoOn(o, "observe")
      BY <1>0, <2>5
    <3> HIDE DEF o
    <3> QED
      BY <1>8, <1>b, <3>1
  <2> QED
    BY <1>e, <2>1, <2>2, <2>3, <2>4, <2>5
<1>11. CASE InputAnswered
  BY <1>0, <1>11 DEF InputAnswered
<1>12. CASE SettleInput
  <2>1. op.phase = "settle" /\ Between
    BY <1>12 DEF SettleInput, Between
  <2>2. CASE op' = [op EXCEPT !.phase = "loading"] /\ UNCHANGED <<call, queue, results, captured>>
    <3>1. op'.phase = "loading" /\ op'.kind = op.kind
      BY <1>0, <2>2
    <3>2. InputRequests' \subseteq InputRequests
      BY <1>0, <2>2, NoInputIssued
    <3> QED
      BY <1>0, <2>1, <2>2, <3>1, <3>2, BesidesInput
  <2> QED
    BY <1>12, <1>e, <1>f, <2>1, <2>2 DEF SettleInput
<1>13. CASE AwaitLoading
  <2> DEFINE o == [op EXCEPT !.phase = "document", !.cursor = op.fence, !.cancelled = FALSE]
  <2>1. op.phase = "loading" /\ Between /\ (GoOn(o, "ready_state") \/ Fail)
    BY <1>13 DEF AwaitLoading, Between
  <2>2. o.phase = "document" /\ o.kind = op.kind
    BY <1>0
  <2> HIDE DEF o
  <2> QED
    BY <1>c, <1>e, <1>g, <2>1, <2>2
<1>14. CASE ConnectClient
  <2>1. op = NoOp /\ results' = results
    BY <1>14 DEF ConnectClient, StageInv, PhaseInv
  <2>2. CASE Issue(Place(Number, 1), LaunchSteps[1], FALSE) /\ op' = Operation("launch", "setup")
    <3>1. LaunchSteps[1] \notin Inputs /\ "launch" \notin InputKinds
      BY InputKindsAre DEF LaunchSteps, Inputs
    <3>2. \E by, m, cancelled : Issue(by, m, cancelled) /\ m \notin Inputs
      BY <2>2, <3>1, Zenon
    <3>3. InputRequests' \subseteq InputRequests
      BY <1>0, <3>2, NoInputIssued
    <3> QED
      BY <1>0, <1>a, <2>1, <2>2, <3>1, <3>3, BesidesInput DEF Between
  <2>3. CASE UNCHANGED <<call, queue, op>>
    <3>1. InputRequests' \subseteq InputRequests
      BY <1>0, <2>3, NoInputIssued
    <3> QED
      BY <1>0, <2>1, <2>3, <3>1, BesidesInput DEF Between
  <2> QED
    BY <1>14, <2>2, <2>3 DEF ConnectClient
<1>15. CASE SetupAnswered
  <2>0. op.phase = "setup" /\ op.kind = "launch" /\ "launch" \notin InputKinds
    BY <1>15, InputKindsAre DEF SetupAnswered, StageInv, PhaseInv
  <2>1. CASE GoOn([op EXCEPT !.at = @ + 1], LaunchSteps[op.at + 1]) /\ op.at < Len(LaunchSteps)
    <3> DEFINE o == [op EXCEPT !.at = @ + 1]
    <3>1. o.kind = op.kind /\ o.phase = "setup" /\ GoOn(o, LaunchSteps[op.at + 1])
      BY <1>0, <2>0, <2>1
    <3>2. LaunchSteps[op.at + 1] \in {"probe", "emulate"}
      BY <2>1 DEF LaunchSteps, BaseInv, OpTypes
    <3> HIDE DEF o
    <3> QED
      BY <1>c, <1>g, <3>1, <3>2
  <2>2. CASE HangUp /\ op' = NoOp /\ UNCHANGED <<results, captured>>
    <3>1. InputRequests' \subseteq InputRequests
      BY <1>0, <2>2, NoInputIssued DEF HangUp
    <3> QED
      BY <1>0, <2>0, <2>2, <3>1, BesidesInput DEF Between
  <2> QED
    BY <1>15, <2>1, <2>2 DEF SetupAnswered
<1> QED
  BY <1>0, <1>1, <1>2, <1>3, <1>4, <1>5, <1>6, <1>7, <1>9, <1>10, <1>11, <1>12, <1>13, <1>14, <1>15 DEF CallerSteps

(* A step of the caller that is no input's is beside it.                    *)
LEMMA CallerStepsAre ==
  ASSUME BaseInv, StageInv, CallerSteps
  PROVE  (\E kind \in Operations : Perform(kind)) \/ InputAnswered \/ Cancel \/ Aside
<1>0. /\ DOMAIN op = DOMAIN NoOp /\ "phase" \in DOMAIN op /\ NoOp.phase = "none"
      /\ \A kind, phase : Operation(kind, phase).phase = phase /\ DOMAIN Operation(kind, phase) = DOMAIN NoOp
  BY OperationIs DEF BaseInv, OpTypes, NoOp
<1>a. /\ \A o, m : GoOn(o, m) => op' = o
      /\ \A result : Finish(result) => op'.phase = "none"
  BY <1>0 DEF GoOn, Finish
<1>b. Fail => op'.phase = "none"
  BY <1>a DEF Fail
<1>c. \A verdict, seen : CleanUp(verdict, seen) => op'.phase = "cleanup"
  BY <1>0, <1>a DEF CleanUp
<1>d. \A seen : Judge(seen) => op'.phase = "cleanup"
  BY <1>c DEF Judge
<1> SUFFICES ASSUME ~InputAnswered, ~Cancel, ~\E kind \in Operations : Perform(kind)
             PROVE  op.phase # "input" /\ op'.phase # "input"
  BY DEF Aside
<1>1. CASE Navigate
  BY <1>0, <1>a, <1>1 DEF Navigate, Free
<1>2. CASE \E kind \in Captures : Capture(kind)
  BY <1>0, <1>a, <1>2 DEF Capture, More, Free
<1>3. CASE CommitAnswered
  BY <1>0, <1>a, <1>b, <1>3 DEF CommitAnswered
<1>4. CASE DocumentAnswered
  BY <1>0, <1>a, <1>b, <1>4 DEF DocumentAnswered
<1>5. CASE WidthAnswered \/ WithheldAnswered
  BY <1>0, <1>a, <1>b, <1>5 DEF WidthAnswered, WithheldAnswered
<1>6. CASE CaptureAnswered
  <2>1. op.phase = "capture"
    BY <1>6 DEF CaptureAnswered
  <2>2. op'.phase \in {"capture", "cleanup"}
    BY <1>0, <1>6, <1>a, <1>c, <1>d, <2>1 DEF CaptureAnswered
  <2> QED
    BY <2>1, <2>2
<1>7. CASE CleanupAnswered
  <2>1. op.phase = "cleanup"
    BY <1>7 DEF CleanupAnswered
  <2>2. \/ GoOn([op EXCEPT !.at = @ + 1], CleanupSteps[op.at + 1])
        \/ op' = NoOp
        \/ GoOn([Operation(op.kind, "capture") EXCEPT !.attempt = op.attempt + 1], "watch")
        \/ GoOn([op EXCEPT !.phase = "withheld"], "observe")
        \/ Fail
    BY <1>7 DEF CleanupAnswered
  <2>3. CASE GoOn([Operation(op.kind, "capture") EXCEPT !.attempt = op.attempt + 1], "watch")
    <3> DEFINE o == Operation(op.kind, "capture")
    <3>1. o.phase = "capture" /\ "phase" \in DOMAIN o
      BY <1>0
    <3>2. op' = [o EXCEPT !.attempt = op.attempt + 1]
      BY <1>a, <2>3
    <3> HIDE DEF o
    <3> QED
      BY <2>1, <3>1, <3>2
  <2> QED
    BY <1>0, <1>a, <1>b, <2>1, <2>2, <2>3
<1>8. CASE SettleInput
  BY <1>0, <1>a, <1>b, <1>8 DEF SettleInput
<1>9. CASE AwaitLoading
  BY <1>0, <1>a, <1>b, <1>9 DEF AwaitLoading
<1>10. CASE ConnectClient
  <2>1. op = NoOp
    BY <1>10 DEF ConnectClient, StageInv, PhaseInv
  <2>2. op' = op \/ op' = Operation("launch", "setup")
    BY <1>10 DEF ConnectClient
  <2>3. Operation("launch", "setup").phase = "setup"
    BY <1>0
  <2> QED
    BY <1>0, <2>1, <2>2, <2>3
<1>11. CASE SetupAnswered
  BY <1>0, <1>a, <1>11 DEF SetupAnswered
<1> QED
  BY <1>1, <1>2, <1>3, <1>4, <1>5, <1>6, <1>7, <1>8, <1>9, <1>10, <1>11 DEF CallerSteps

(* What happens elsewhere leaves the page's text, or it is gone.            *)
LEMMA ElsewhereText ==
  ASSUME BaseInv, Elsewhere, ~ChromeHandles
  PROVE  effects' = effects /\ (page'.text = "previous" => page.text = "previous")
<1>0. DOMAIN page = DOMAIN NewPage /\ "text" \in DOMAIN page
  BY DEF BaseInv, PageTypes, NewPage
<1>1. CASE Drift
  <2>1. effects' = effects
    BY <1>1, MovesAre DEF Drift
  <2>2. \E p : p.text \in {page.text, "gone"} /\ "text" \in DOMAIN p /\ page' = p
    <3>1. ASSUME NEW p, NEW events, Moves(p, events), p.text = page.text, "text" \in DOMAIN p
          PROVE  p.text \in {page.text, "gone"} /\ "text" \in DOMAIN p /\ page' = p
      BY <3>1 DEF Moves, PageMoves
    <3>2. CASE DomChanges
      <4> DEFINE p == [page EXCEPT !.version = @ + 1]
      <4>1. p.text = page.text /\ "text" \in DOMAIN p /\ Moves(p, Mutation("changed"))
        BY <1>0, <3>2 DEF DomChanges
      <4> HIDE DEF p
      <4> QED
        BY <3>1, <4>1
    <3>3. CASE Repaints
      <4> DEFINE p == [page EXCEPT !.paint = @ + 1]
      <4>1. p.text = page.text /\ "text" \in DOMAIN p /\ Moves(p, <<>>)
        BY <1>0, <3>3 DEF Repaints
      <4> HIDE DEF p
      <4> QED
        BY <3>1, <4>1
    <3>4. CASE OpensPopup
      <4> DEFINE p == [page EXCEPT !.popup = TRUE]
      <4>1. p.text = page.text /\ "text" \in DOMAIN p /\ Moves(p, <<Event("popup")>>)
        BY <1>0, <3>4 DEF OpensPopup
      <4> HIDE DEF p
      <4> QED
        BY <3>1, <4>1
    <3>5. CASE StartsLoading
      <4> DEFINE p == [page EXCEPT !.loading = TRUE]
      <4>1. p.text = page.text /\ "text" \in DOMAIN p /\ Moves(p, <<Event("started")>>)
        BY <1>0, <3>5 DEF StartsLoading
      <4> HIDE DEF p
      <4> QED
        BY <3>1, <4>1
    <3>6. CASE FinishesLoading
      <4> DEFINE p == [page EXCEPT !.loading = FALSE, !.version = @ + 1, !.watched = FALSE, !.masked = -1,
                                   !.text = "gone"]
      <4>1. p.text = "gone" /\ "text" \in DOMAIN p /\ page' = p
        BY <1>0, <3>6 DEF FinishesLoading, PageMoves
      <4> HIDE DEF p
      <4> QED
        BY <4>1
    <3> QED
      BY <1>1, <3>2, <3>3, <3>4, <3>5, <3>6 DEF Drift
  <2>3. PICK p : p.text \in {page.text, "gone"} /\ "text" \in DOMAIN p /\ page' = p
    BY <2>2
  <2>4. page'.text = p.text
    BY <2>3
  <2> QED
    BY <2>1, <2>3, <2>4
<1>2. CASE Fails
  BY <1>2 DEF Fails, Breaks, Hangs, Exits, Kill, chrome
<1> QED
  BY <1>1, <1>2 DEF Elsewhere

(* What is known of the input is right after every step.                    *)
LEMMA InputInductive ==
  ASSUME BaseInv, StageInv, RefusalInv, InputGroup, [Next]_vars
  PROVE  InputGroup'
<1>0. DOMAIN op = DOMAIN NoOp /\ {"phase", "kind", "at", "cancelled"} \subseteq DOMAIN op
  BY DEF BaseInv, OpTypes, NoOp
<1>1. CASE CallerSteps
  <2>1. CASE \E kind \in Operations : Perform(kind)
    BY <2>1, PerformsInput
  <2>2. CASE InputAnswered
    BY <2>2, AnsweredInput
  <2>3. CASE Cancel
    <3>1. CallerFrame
      BY <1>1, CallerFrames DEF BaseInv, ConnInv
    <3>2. queue' = queue /\ call' = [call EXCEPT !.dead = call.reply # NotSent]
      BY <2>3 DEF Cancel
    <3>3. Waits
      BY <3>2 DEF Waits, BaseInv, ConnInv, ChannelTypes, NoCall
    <3>4. Moving
      BY <3>1, <3>3, WaitingKeeps DEF CallerFrame, BaseInv
    <3>5. op'.kind = op.kind /\ op'.phase = op.phase /\ op'.at = op.at /\ UNCHANGED <<results, effects, page>>
      BY <1>0, <2>3 DEF Cancel, chrome
    <3> QED
      BY <3>4, <3>5, MovingInput
  <2>4. CASE Aside
    BY <2>4, AsideIs
  <2> QED
    BY <1>1, <2>1, <2>2, <2>3, <2>4, CallerStepsAre
<1>2. CASE LifeSteps
  <2>1. UNCHANGED <<transport, page, effects, op, results>>
    BY <1>2, LifeStepsAre
  <2>2. Moving
    BY <2>1 DEF transport, Moving, InFlight, Arriving
  <2> QED
    BY <2>1, <2>2, MovingInput
<1>3. CASE Close
  <2>1. UNCHANGED <<effects, op, results>> /\ op = NoOp /\ InFlight' = {}
    BY <1>3, ClosedIs
  <2>2. op.phase = "none"
    BY <2>1 DEF NoOp
  <2> QED
    BY <2>1, <2>2, BesidesInput DEF InputRequests, Between
<1>4. CASE Elsewhere
  <2>1. UNCHANGED <<op, results>>
    BY <1>4 DEF Elsewhere, Bystanding
  <2>2. CASE ChromeHandles
    BY <2>1, <2>2, HandlesInputs
  <2>3. CASE ~ChromeHandles
    BY <1>4, <2>1, <2>3, ElsewhereText, ElsewhereIs, MovingInput
  <2> QED
    BY <2>2, <2>3
<1> QED
  BY <1>1, <1>2, <1>3, <1>4, NextIs

(* At first there is no operation, no input and nothing in flight.          *)
LEMMA InputInitially ==
  Init => StageInv /\ RefusalInv /\ InputGroup
<1> SUFFICES ASSUME Init PROVE StageInv /\ RefusalInv /\ InputGroup
  OBVIOUS
<1>1. /\ queue = <<>> /\ toChrome = <<>> /\ fromChrome = <<>> /\ call = NoCall /\ effects = <<>> /\ results = <<>>
      /\ op = NoOp /\ life.at = "new" /\ journal = NewJournal
  BY DEF Init, InitTransport, InitChrome
<1>2. InFlight = {} /\ Arriving = {None} /\ InputRequests = {} /\ DOMAIN effects = {} /\ DOMAIN results = {}
  BY <1>1, Singles DEF InFlight, Arriving, InputRequests, NoCall
<1>3. /\ op.phase = "none" /\ op.fence = 0 /\ op.cursor = 0 /\ op.at = 0 /\ journal.cursor = 0
  BY <1>1 DEF NoOp, NewJournal
<1>4. StageInv
  BY <1>1, <1>2, <1>3 DEF StageInv, PhaseInv, CurrentInv
<1>5. RefusalInv
  BY <1>2 DEF RefusalInv, None, Outcome
<1>6. InputGroup
  BY <1>2, <1>3 DEF InputGroup, InputsInFlight, InputsHandled, InputInv, NotPerformedIsSafe
<1> QED
  BY <1>4, <1>5, <1>6

InputParts == BaseInv /\ StageInv /\ RefusalInv /\ InputGroup

(* DispatchedOnce: an operation's input reaches the page in its order and   *)
(* never twice, text the page took is not entered again, and what is        *)
(* reported performed has arrived whole, however long an answer takes,      *)
(* whatever is given up (perform_input, click, type_text).                  *)
THEOREM InputReachesThePageOnce == Spec => []DispatchedOnce
<1>1. Init => InputParts
  BY BaseInitially, InputInitially DEF InputParts
<1>2. InputParts /\ [Next]_vars => InputParts'
  BY BaseInductive, StageInductive, RefusalInductive, InputInductive DEF InputParts
<1>3. InputParts => DispatchedOnce
  <2> SUFFICES ASSUME InputParts, NEW k \in DOMAIN results, results[k].kind \in InputKinds
               PROVE  /\ \A i \in InputOf(k) :
                           /\ effects[i].by.at \in InputsOf(results[k].kind)
                           /\ effects[i].method = Suboperations[results[k].kind][effects[i].by.at].method
                      /\ \A i, j \in InputOf(k) : i < j =>
                           /\ effects[i].by.at < effects[j].by.at
                           /\ effects[i].changed => effects[j].method = "dispatch"
                      /\ results[k].result = "performed" => Whole(k, results[k].kind)
    BY DEF DispatchedOnce
  <2>1. KindOf(k) = results[k].kind
    <3>1. IsSeq(results)
      BY DEF InputParts, BaseInv, OpTypes
    <3>2. k # Number
      BY <3>1, SequenceIs DEF Number
    <3> QED
      BY <3>2 DEF KindOf
  <2> QED
    BY <2>1 DEF InputParts, InputGroup, InputsHandled, EffectOK, InputOf
<1> QED
  BY <1>1, <1>2, <1>3, PTL DEF Spec

(* NotPerformedIsSafe: input that is reported not performed or rejected has *)
(* changed nothing, and no request that could is left behind (classify,     *)
(* command_after_suboperation).                                             *)
THEOREM WhatIsNotPerformedIsSafe == Spec => []NotPerformedIsSafe
<1>1. Init => InputParts
  BY BaseInitially, InputInitially DEF InputParts
<1>2. InputParts /\ [Next]_vars => InputParts'
  BY BaseInductive, StageInductive, RefusalInductive, InputInductive DEF InputParts
<1>3. InputParts => NotPerformedIsSafe
  BY DEF InputParts, InputGroup, InputsHandled
<1> QED
  BY <1>1, <1>2, <1>3, PTL DEF Spec

-----------------------------------------------------------------------------

(* What is known of a capture.  Events and answers come in one order: an    *)
(* answer at place i of the socket has before it what was recorded and what *)
(* comes earlier on the socket; the caller's reply is at place 0.           *)
Signals == Relevant \ {"mask"}
End == Len(fromChrome) + 1
Heard(kind, cursor, i) ==
  \/ journal.arrived[kind] > cursor
  \/ \E j \in DOMAIN fromChrome : j < i /\ fromChrome[j].kind = kind
Signalled(i) == \E kind \in Signals : Heard(kind, op.fence, i)
Moved == broken \/ Signalled(End)

Said(i) == IF i = 0 THEN call.reply ELSE fromChrome[i].answer
Coming ==
  {i \in {0} \cup DOMAIN fromChrome : Said(i).outcome = "confirmed" /\ (i # 0 => fromChrome[i].id = call.id)}

(* A popup was announced.                                                   *)
PopupInv ==
  life.at \notin {"closing", "closed", "leaked"} /\ page.popup => broken \/ Heard("popup", 0, End)

(* Behind the fence the page is watched, unless another document overtook   *)
(* the watch; once it said so, it has masks, and where it is watched they   *)
(* are of what it is; or a change was signalled.                            *)
Pictures(o, s) == o.version = s.version /\ s.masked = s.version
Covers(o, s) == o.masked = s.masked /\ s.masked # -1
Capturing == op.phase = "capture"
Fenced == Capturing /\ op.at >= 2 /\ ~op.renewed
MasksPlaced == Capturing /\ (op.at >= 3 \/ (op.at = 2 /\ \E i \in Coming : Said(i).value = "verified"))
WatchInv ==
  /\ Fenced => page.watched \/ Moved
  /\ MasksPlaced => page.masked # -1 \/ Moved
  /\ Fenced /\ MasksPlaced => page.masked = page.version \/ Moved
(* The observation, the screenshot, and the second observation: each view   *)
(* is of the page as it still is, or a change was signalled; before it,     *)
(* when the view is an answer that was already given.                       *)
ObserveInv ==
  Capturing /\ op.at = 3 => \A i \in Coming : LET view == Said(i).value IN
    /\ view.paint \in Nat /\ view.paint <= page.paint
    /\ view.popup => Heard("popup", 0, i)
    /\ view.masked = page.masked \/ Moved
    /\ Fenced => view.version = page.version \/ Moved
ShotInv ==
  Capturing /\ op.at = 4 =>
    /\ op.seen = <<op.seen[1], op.seen[2]>>
    /\ op.seen[1].paint \in Nat /\ op.seen[1].paint <= page.paint
    /\ op.seen[1].popup => op.seen[2]
    /\ op.seen[1].masked = page.masked \/ Moved
    /\ Fenced => op.seen[1].version = page.version \/ Moved
    /\ \A i \in Coming : LET view == Said(i).value IN
         /\ view.paint \in Nat /\ op.seen[1].paint <= view.paint /\ view.paint <= page.paint
         /\ Covers(op.seen[1], view) \/ Signalled(i)
         /\ Fenced => Pictures(op.seen[1], view) \/ Signalled(i)
MatchInv ==
  Capturing /\ op.at = 5 =>
    /\ op.seen[1].paint \in Nat /\ op.seen[3].paint \in Nat
    /\ op.seen[1].paint <= op.seen[3].paint /\ op.seen[3].paint <= page.paint
    /\ op.seen[1].popup => op.seen[2]
    /\ Covers(op.seen[1], op.seen[3]) \/ Signalled(0)
    /\ Fenced => Pictures(op.seen[1], op.seen[3]) \/ Signalled(0)
    /\ \A i \in Coming : Said(i).value.paint \in Nat /\ op.seen[3].paint <= Said(i).value.paint
(* What is returned once the clean-up is over.                              *)
StableInv ==
  op.phase = "cleanup" /\ op.verdict = "stable" =>
    /\ op.seen[1].popup => op.seen[2]
    /\ Covers(op.seen[1], op.seen[3])
    /\ ~op.renewed => Pictures(op.seen[1], op.seen[3])
    /\ op.kind = "capture_matching" => op.seen[1].paint = op.seen[3].paint
CaptureGroup == PopupInv /\ WatchInv /\ ObserveInv /\ ShotInv /\ MatchInv /\ StableInv

-----------------------------------------------------------------------------

(* What a step keeps: every answer that is confirmed was one before, and    *)
(* what was heard before it still is; and so is what was heard at the end.  *)
Kept(i, j) ==
  \A kind \in Kinds \ {"response"}, cursor \in 0..journal.cursor : Heard(kind, cursor, i) => Heard(kind, cursor, j)'
Carries ==
  /\ \A j \in Coming' : \E i \in Coming : Said(j)' = Said(i) /\ Kept(i, j)
  /\ Kept(0, 0)
  /\ broken => broken'
  /\ broken' \/ \A kind \in Kinds \ {"response"}, cursor \in 0..journal.cursor :
                  Heard(kind, cursor, End) => Heard(kind, cursor, End)'

(* A step that leaves the socket, the journal and the reply alone keeps     *)
(* what is on its way.                                                      *)
LEMMA CarriesStill ==
  ASSUME BaseInv, UNCHANGED <<fromChrome, journal>>, broken => broken', call'.id = call.id,
         call'.reply = call.reply \/ call'.reply.outcome # "confirmed"
  PROVE  Carries
<1>1. \A kind, cursor, i : Heard(kind, cursor, i)' <=> Heard(kind, cursor, i)
  BY DEF Heard
<1>2. \A i \in Coming' : i \in Coming /\ Said(i)' = Said(i)
  <2> SUFFICES ASSUME NEW i \in Coming' PROVE i \in Coming /\ Said(i)' = Said(i)
    OBVIOUS
  <2>1. i \in {0} \cup DOMAIN fromChrome /\ (Said(i)').outcome = "confirmed" /\ (i # 0 => fromChrome[i].id = call.id)
    BY DEF Coming
  <2>2. Said(i)' = Said(i)
    BY <2>1 DEF Said
  <2> QED
    BY <2>1, <2>2 DEF Coming
<1>3. End' = End
  BY DEF End
<1>4. \A kind, cursor : Heard(kind, cursor, End)' <=> Heard(kind, cursor, End)
  BY <1>3 DEF Heard
<1> QED
  BY <1>1, <1>2, <1>4 DEF Carries, Kept

(* So does a connection that breaks, for what is heard after is not asked   *)
(* of it.                                                                   *)
LEMMA CarriesLost ==
  ASSUME BaseInv, UNCHANGED <<journal, call>>, fromChrome' \in {fromChrome, <<>>}, broken'
  PROVE  Carries
<1>1. CASE fromChrome' = fromChrome
  BY <1>1, CarriesStill
<1>2. CASE fromChrome' = <<>>
  <2>1. \A i \in Coming' : i = 0
    BY <1>2, Singles DEF Coming
  <2>2. \A i \in Coming' : i \in Coming /\ Said(i)' = Said(i)
    BY <2>1 DEF Coming, Said
  <2>3. \A kind, cursor : Heard(kind, cursor, 0) => Heard(kind, cursor, 0)'
    <3>1. \A j \in DOMAIN fromChrome : ~(j < 0)
      BY SequenceIs DEF BaseInv, ConnInv, ChannelTypes
    <3> QED
      BY <3>1 DEF Heard
  <2> QED
    BY <2>1, <2>2, <2>3 DEF Carries, Kept
<1> QED
  BY <1>1, <1>2

(* Events that are emitted come after all that is on its way, and are       *)
(* heard.                                                                   *)
LEMMA CarriesGrown ==
  ASSUME BaseInv, UNCHANGED <<journal, call, broken>>, NEW events, IsSeq(events), Emit(events),
         \A j \in DOMAIN events : events[j].id = 0 /\ events[j].answer = None
  PROVE  /\ Carries
         /\ \A j \in DOMAIN events : broken' \/ \A cursor : Heard(events[j].kind, cursor, End)'
<1>1. IsSeq(fromChrome) /\ call.id \in Nat
  BY DEF BaseInv, ConnInv, ChannelTypes
<1>2. /\ IsSeq(fromChrome')
      /\ \A i \in DOMAIN fromChrome : i \in DOMAIN fromChrome' /\ fromChrome'[i] = fromChrome[i]
      /\ \A i \in DOMAIN fromChrome' :
           \/ i \in DOMAIN fromChrome
           \/ \E j \in DOMAIN events : ~broken /\ i = Len(fromChrome) + j /\ fromChrome'[i] = events[j]
      /\ ~broken => \A j \in DOMAIN events :
           Len(fromChrome) + j \in DOMAIN fromChrome' /\ fromChrome'[Len(fromChrome) + j] = events[j]
  BY <1>1, EmitIs
<1>3. \A kind, cursor, i : Heard(kind, cursor, i) => Heard(kind, cursor, i)'
  BY <1>2 DEF Heard
<1>4. \A i \in Coming' : i \in Coming /\ Said(i)' = Said(i)
  <2> SUFFICES ASSUME NEW i \in Coming' PROVE i \in Coming /\ Said(i)' = Said(i)
    OBVIOUS
  <2>1. i \in {0} \cup DOMAIN fromChrome' /\ (Said(i)').outcome = "confirmed" /\ (i # 0 => fromChrome'[i].id = call.id)
    BY DEF Coming
  <2>2. i \in {0} \cup DOMAIN fromChrome
    BY <1>2, <2>1, OutcomesDiffer, SequenceIs DEF Said
  <2>3. Said(i)' = Said(i) /\ (i # 0 => fromChrome[i].id = call.id)
    BY <1>2, <2>1, <2>2 DEF Said
  <2> QED
    BY <2>1, <2>2, <2>3 DEF Coming
<1>5. /\ Len(fromChrome) \in Nat /\ DOMAIN fromChrome = 1..Len(fromChrome)
      /\ Len(fromChrome') \in Nat /\ DOMAIN fromChrome' = 1..Len(fromChrome')
  BY <1>1, <1>2, SequenceIs
<1>6. End <= End' /\ End \in Nat /\ End' \in Nat /\ \A i \in DOMAIN fromChrome' : i < End'
  <2>1. Len(fromChrome) = 0 \/ Len(fromChrome) \in DOMAIN fromChrome'
    BY <1>2, <1>5
  <2> QED
    BY <1>5, <2>1 DEF End
<1>7. ASSUME NEW kind, NEW cursor, Heard(kind, cursor, End) PROVE Heard(kind, cursor, End)'
  BY <1>2, <1>6, <1>7 DEF Heard
<1>8. ASSUME NEW j \in DOMAIN events, ~broken', NEW cursor PROVE Heard(events[j].kind, cursor, End)'
  BY <1>2, <1>6, <1>8 DEF Heard
<1> QED
  BY <1>3, <1>4, <1>7, <1>8 DEF Carries, Kept

(* What is received moves up by one: what was before it has been recorded   *)
(* by then.                                                                 *)
LEMMA CarriesReceived ==
  ASSUME BaseInv, Receives, UNCHANGED broken, call'.id = call.id
  PROVE  Carries
<1>1. IsSeq(fromChrome) /\ JournalTypes /\ JournalInv /\ journal.cursor \in Nat
  BY DEF BaseInv, ConnInv, ChannelTypes, JournalTypes
<1>2. /\ IsSeq(fromChrome') /\ Len(fromChrome') = Len(fromChrome) - 1 /\ Len(fromChrome) \in Nat \ {0}
      /\ \A i \in DOMAIN fromChrome' : i + 1 \in DOMAIN fromChrome /\ fromChrome'[i] = fromChrome[i + 1]
      /\ Head(fromChrome) = fromChrome[1] /\ 1 \in DOMAIN fromChrome
      /\ \A i \in DOMAIN fromChrome : i = 1 \/ (i - 1 \in DOMAIN fromChrome' /\ fromChrome'[i - 1] = fromChrome[i])
  BY <1>1, TailOf DEF Receives
<1>3. /\ DOMAIN fromChrome = 1..Len(fromChrome) /\ DOMAIN fromChrome' = 1..Len(fromChrome')
  BY <1>1, <1>2, SequenceIs
<1>4. /\ Head(fromChrome).kind \in Kinds
      /\ Head(fromChrome).id # 0 => Head(fromChrome).kind = "response"
  BY <1>2 DEF BaseInv, ConnInv, ChannelTypes, ChannelInv
<1>5. ASSUME NEW kind \in Kinds \ {"response"}, NEW cursor \in 0..journal.cursor,
             journal.arrived[kind] > cursor \/ Head(fromChrome).kind = kind
      PROVE  journal'.arrived[kind] > cursor
  <2>1. CASE journal' \in Recorded(Head(fromChrome).kind)
    <3>1. journal'.arrived[kind] = IF kind = Head(fromChrome).kind THEN journal.cursor + 1 ELSE journal.arrived[kind]
      BY <1>1, <1>4, <2>1, RecordedIs
    <3> QED
      BY <1>1, <1>5, <3>1
  <2>2. CASE journal' = journal /\ Head(fromChrome).id # 0
    BY <1>4, <1>5, <2>2
  <2> QED
    BY <2>1, <2>2 DEF Receives
<1>6. ASSUME NEW kind \in Kinds \ {"response"}, NEW cursor \in 0..journal.cursor, NEW i \in Nat, Heard(kind, cursor, i)
      PROVE  Heard(kind, cursor, i - 1)' /\ (i = 0 => Heard(kind, cursor, 0)')
  <2>1. CASE journal.arrived[kind] > cursor
    BY <1>5, <2>1 DEF Heard
  <2>2. CASE \E j \in DOMAIN fromChrome : j < i /\ fromChrome[j].kind = kind
    <3>1. PICK j \in DOMAIN fromChrome : j < i /\ fromChrome[j].kind = kind
      BY <2>2
    <3>2. CASE j = 1
      BY <1>2, <1>3, <1>5, <3>1, <3>2 DEF Heard
    <3>3. CASE j # 1
      BY <1>2, <1>3, <3>1, <3>3 DEF Heard
    <3> QED
      BY <3>2, <3>3
  <2> QED
    BY <1>6, <2>1, <2>2 DEF Heard
<1>7. End \in Nat /\ End' = End - 1
  BY <1>2 DEF End
<1>8. ASSUME NEW kind \in Kinds \ {"response"}, NEW cursor \in 0..journal.cursor, Heard(kind, cursor, End)
      PROVE  Heard(kind, cursor, End)'
  <2>1. PICK e \in Nat : e = End
    BY <1>7
  <2>2. Heard(kind, cursor, e - 1)'
    BY <1>6, <1>8, <2>1
  <2>3. End' = e - 1
    BY <1>7, <2>1
  <2> QED
    BY <2>2, <2>3 DEF Heard
<1>9. ASSUME NEW i \in Coming' PROVE \E p \in Coming : Said(i)' = Said(p) /\ Kept(p, i)
  <2>1. i \in {0} \cup DOMAIN fromChrome' /\ (Said(i)').outcome = "confirmed" /\ (i # 0 => fromChrome'[i].id = call.id)
    BY <1>9 DEF Coming
  <2>2. CASE i # 0
    <3>1. i \in DOMAIN fromChrome' /\ i + 1 \in DOMAIN fromChrome /\ fromChrome'[i] = fromChrome[i + 1] /\ i \in Nat
          /\ i + 1 # 0
      BY <1>2, <1>3, <2>1, <2>2
    <3>2. Said(i)' = Said(i + 1) /\ i + 1 \in Coming
      BY <2>1, <2>2, <3>1 DEF Said, Coming
    <3>3. Kept(i + 1, i)
      BY <1>6, <3>1 DEF Kept
    <3> QED
      BY <3>2, <3>3
  <2>3. CASE i = 0 /\ call'.reply = call.reply
    <3>1. Said(0)' = Said(0) /\ 0 \in Coming
      BY <2>1, <2>3 DEF Said, Coming
    <3>2. Kept(0, 0)
      BY <1>6 DEF Kept
    <3> QED
      BY <2>3, <3>1, <3>2
  <2>4. CASE i = 0 /\ call'.reply = Head(fromChrome).answer /\ Head(fromChrome).id = call.id
    <3>1. Said(0)' = Said(1) /\ 1 \in Coming
      BY <1>2, <2>1, <2>4 DEF Said, Coming
    <3>2. Kept(1, 0)
      BY <1>6 DEF Kept
    <3> QED
      BY <2>4, <3>1, <3>2
  <2> QED
    BY <2>2, <2>3, <2>4 DEF Receives
<1>10. Kept(0, 0)
  BY <1>6 DEF Kept
<1> QED
  BY <1>8, <1>9, <1>10 DEF Carries

(* What the worker, the page and what fails do keeps what is on its way.    *)
LEMMA ElsewhereCarries ==
  ASSUME BaseInv, Elsewhere, ~ChromeHandles
  PROVE  Carries
<1>0. call'.id = call.id /\ ConnInv
  BY ElsewhereIs DEF Moving, BaseInv
<1>1. CASE Drift
  <2>1. PICK events : /\ IsSeq(events) /\ Emit(events)
                      /\ \A j \in DOMAIN events : \E kind \in Kinds : events[j] = Event(kind)
    BY <1>1, MovesAre DEF Drift
  <2>2. \A j \in DOMAIN events : events[j].id = 0 /\ events[j].answer = None
    BY <2>1 DEF Event
  <2>3. UNCHANGED <<journal, call, broken>>
    BY <1>1, MovesAre DEF Drift
  <2> QED
    BY <2>1, <2>2, <2>3, CarriesGrown
<1>2. CASE Fails
  <2>1. CASE Breaks
    BY <2>1, CarriesLost DEF Breaks
  <2>2. CASE Hangs \/ Exits \/ Kill
    BY <2>2, CarriesStill DEF Hangs, Exits, Kill
  <2> QED
    BY <1>2, <2>1, <2>2 DEF Fails
<1>3. CASE Take
  <2>1. UNCHANGED <<fromChrome, journal>> /\ (broken => broken')
    BY <1>3 DEF Take
  <2>2. \/ call' = call
        \/ Reply(Head(queue), NotSent) \/ Reply(Head(queue), Unknown)
    BY <1>3 DEF Take
  <2>3. call'.reply = call.reply \/ call'.reply \in {NotSent, Unknown}
    BY <1>0, <2>2, ReplyIs DEF ConnInv
  <2> QED
    BY <1>0, <2>1, <2>3, OutcomesDiffer, CarriesStill
<1>4. CASE Serves
  <2>1. CASE Receives
    BY <1>0, <1>4, <2>1, ServesIs, CarriesReceived
  <2>2. CASE ~Receives
    BY <1>0, <1>4, <2>2, ServesIs, OutcomesDiffer, CarriesStill
  <2> QED
    BY <2>1, <2>2
<1> QED
  BY <1>1, <1>2, <1>3, <1>4 DEF Elsewhere

(* A change of the page while it is watched is signalled, and so is a       *)
(* navigation and a popup in any case.                                      *)
Steady ==
  /\ page.paint <= page'.paint
  /\ page'.popup => page.popup \/ broken' \/ Heard("popup", 0, End)'
  /\ \/ page'.watched = page.watched /\ page'.masked = page.masked
     \/ broken' \/ \A cursor : Heard("navigated", cursor, End)'
  /\ \/ page'.version = page.version /\ page'.masked = page.masked
     \/ broken' \/ \E kind \in Signals : \A cursor : Heard(kind, cursor, End)'
     \/ ~page.watched

(* A move of the page changes what it says, and emits its events.           *)
LEMMA MovedPage ==
  ASSUME NEW p, NEW events, Moves(p, events), DOMAIN p = DOMAIN NewPage
  PROVE  /\ page'.version = p.version /\ page'.paint = p.paint /\ page'.watched = p.watched
         /\ page'.masked = p.masked /\ page'.popup = p.popup
         /\ Emit(events) /\ UNCHANGED <<journal, call, broken>>
BY DEF Moves, PageMoves, NewPage

(* An event that was emitted is heard, unless the connection is broken.     *)
LEMMA EventHeard ==
  ASSUME BaseInv, UNCHANGED <<journal, call, broken>>, NEW kind, Emit(<<Event(kind)>>)
  PROVE  broken' \/ \A cursor : Heard(kind, cursor, End)'
<1> DEFINE e == Event(kind)
<1>1. e.id = 0 /\ e.answer = None /\ e.kind = kind
  BY DEF Event
<1> HIDE DEF e
<1>2. IsSeq(<<e>>) /\ DOMAIN <<e>> = {1} /\ <<e>>[1] = e
  BY Singles
<1>3. Emit(<<e>>)
  BY DEF e
<1>4. \A j \in DOMAIN <<e>> : <<e>>[j].id = 0 /\ <<e>>[j].answer = None
  BY <1>1, <1>2
<1>5. \A j \in DOMAIN <<e>> : broken' \/ \A cursor : Heard(<<e>>[j].kind, cursor, End)'
  BY <1>2, <1>3, <1>4, CarriesGrown
<1> QED
  BY <1>1, <1>2, <1>5

(* What the page does by itself shows.                                      *)
LEMMA DriftShows ==
  ASSUME BaseInv, Drift
  PROVE  Steady
<1>0. /\ DOMAIN page = DOMAIN NewPage /\ page.version \in Nat /\ page.paint \in Nat
      /\ {"version", "paint", "watched", "masked", "popup"} \subseteq DOMAIN page
  BY DEF BaseInv, PageTypes, NewPage
<1>1. "changed" \in Signals /\ "navigated" \in Signals
  BY DEF Signals, Relevant
<1>2. CASE DomChanges
  <2> DEFINE p == [page EXCEPT !.version = @ + 1]
  <2>1. /\ DOMAIN p = DOMAIN NewPage /\ p.paint = page.paint /\ p.watched = page.watched
        /\ p.masked = page.masked /\ p.popup = page.popup /\ Moves(p, Mutation("changed"))
    BY <1>0, <1>2 DEF DomChanges
  <2> HIDE DEF p
  <2>2. /\ page'.paint = page.paint /\ page'.watched = page.watched /\ page'.masked = page.masked
        /\ page'.popup = page.popup /\ Emit(Mutation("changed")) /\ UNCHANGED <<journal, call, broken>>
    BY <2>1, MovedPage
  <2>3. page.watched => broken' \/ \A cursor : Heard("changed", cursor, End)'
    <3> SUFFICES ASSUME page.watched PROVE broken' \/ \A cursor : Heard("changed", cursor, End)'
      OBVIOUS
    <3>1. Emit(<<Event("changed")>>)
      BY <2>2 DEF Mutation
    <3> QED
      BY <2>2, <3>1, EventHeard
  <2> QED
    BY <1>0, <1>1, <2>2, <2>3 DEF Steady
<1>3. CASE Repaints
  <2> DEFINE p == [page EXCEPT !.paint = @ + 1]
  <2>1. /\ DOMAIN p = DOMAIN NewPage /\ p.paint = page.paint + 1 /\ p.watched = page.watched
        /\ p.masked = page.masked /\ p.popup = page.popup /\ p.version = page.version /\ Moves(p, <<>>)
    BY <1>0, <1>3 DEF Repaints
  <2> HIDE DEF p
  <2>2. /\ page'.paint = p.paint /\ page'.watched = p.watched /\ page'.masked = p.masked
        /\ page'.popup = p.popup /\ page'.version = p.version
    BY <2>1, MovedPage
  <2> QED
    BY <1>0, <2>1, <2>2 DEF Steady
<1>4. CASE OpensPopup
  <2> DEFINE p == [page EXCEPT !.popup = TRUE]
  <2>1. /\ DOMAIN p = DOMAIN NewPage /\ p.paint = page.paint /\ p.watched = page.watched
        /\ p.masked = page.masked /\ p.version = page.version /\ Moves(p, <<Event("popup")>>)
    BY <1>0, <1>4 DEF OpensPopup
  <2> HIDE DEF p
  <2>2. broken' \/ \A cursor : Heard("popup", cursor, End)'
    BY <2>1, MovedPage, EventHeard
  <2> QED
    BY <1>0, <2>1, <2>2, MovedPage DEF Steady
<1>5. CASE StartsLoading
  <2> DEFINE p == [page EXCEPT !.loading = TRUE]
  <2>1. /\ DOMAIN p = DOMAIN NewPage /\ p.paint = page.paint /\ p.watched = page.watched
        /\ p.masked = page.masked /\ p.popup = page.popup /\ p.version = page.version /\ Moves(p, <<Event("started")>>)
    BY <1>0, <1>5 DEF StartsLoading
  <2> HIDE DEF p
  <2> QED
    BY <1>0, <2>1, MovedPage DEF Steady
<1>6. CASE FinishesLoading
  <2> DEFINE es == <<Event("navigated"), Event("stopped")>>
  <2>1. page'.paint = page.paint /\ page'.popup = page.popup /\ UNCHANGED <<journal, call, broken>> /\ Emit(es)
    BY <1>0, <1>6 DEF FinishesLoading, PageMoves
  <2>2. IsSeq(es) /\ DOMAIN es = {1, 2} /\ es[1] = Event("navigated") /\ es[2] = Event("stopped")
    BY Singles
  <2> HIDE DEF es
  <2>3. \A j \in DOMAIN es : es[j].id = 0 /\ es[j].answer = None
    BY <2>2 DEF Event
  <2>4. broken' \/ \A cursor : Heard(es[1].kind, cursor, End)'
    BY <2>1, <2>2, <2>3, CarriesGrown
  <2>5. es[1].kind = "navigated"
    BY <2>2 DEF Event
  <2>6. broken' \/ \A cursor : Heard("navigated", cursor, End)'
    BY <2>4, <2>5
  <2> QED
    BY <1>0, <1>1, <2>1, <2>6 DEF Steady
<1> QED
  BY <1>2, <1>3, <1>4, <1>5, <1>6 DEF Drift

(* And nothing else changes the page beside Chrome's handling of a command. *)
LEMMA ElsewhereShows ==
  ASSUME BaseInv, Elsewhere, ~ChromeHandles
  PROVE  Steady
<1>1. CASE Drift
  BY <1>1, DriftShows
<1>2. CASE ~Drift
  <2>1. page' = page
    BY <1>2 DEF Elsewhere, Fails, Breaks, Hangs, Exits, Kill, chrome
  <2>2. page.paint \in Nat
    BY DEF BaseInv, PageTypes
  <2> QED
    BY <2>1, <2>2 DEF Steady
<1> QED
  BY <1>1, <1>2

(* What was signalled stays so.                                             *)
LEMMA MovedStays ==
  ASSUME BaseInv, StageInv, Carries, op' = op
  PROVE  /\ Moved => Moved'
         /\ \A i, j : Kept(i, j) /\ Signalled(i) => Signalled(j)'
         /\ \A kind \in Signals : (\A cursor : Heard(kind, cursor, End)') => Moved'
         /\ op.fence \in 0..journal.cursor /\ 0 \in 0..journal.cursor
         /\ Signals \subseteq Kinds \ {"response"} /\ "navigated" \in Signals /\ "popup" \in Kinds \ {"response"}
<1>1. op.fence \in 0..journal.cursor /\ 0 \in 0..journal.cursor
  BY DEF BaseInv, OpTypes, JournalTypes, StageInv, PhaseInv
<1>2. Signals \subseteq Kinds \ {"response"} /\ "navigated" \in Signals /\ "popup" \in Kinds \ {"response"}
  BY DEF Signals, Relevant, Kinds
<1>3. PICK fence : fence = op.fence /\ fence = op'.fence
  OBVIOUS
<1>4. \A i : Signalled(i) <=> \E kind \in Signals : Heard(kind, fence, i)
  BY <1>3 DEF Signalled
<1>5. \A i : Signalled(i)' <=> \E kind \in Signals : Heard(kind, fence, i)'
  BY <1>3 DEF Signalled
<1>6. Signalled(End) <=> \E kind \in Signals : Heard(kind, fence, End)
  BY <1>3 DEF Signalled
<1>7. Signalled(End)' <=> \E kind \in Signals : Heard(kind, fence, End)'
  BY <1>3 DEF Signalled
<1>8. Moved => Moved'
  BY <1>1, <1>2, <1>3, <1>6, <1>7 DEF Moved, Carries
<1>9. \A i, j : Kept(i, j) /\ Signalled(i) => Signalled(j)'
  BY <1>1, <1>2, <1>3, <1>4, <1>5 DEF Kept
<1>10. \A kind \in Signals : (\A cursor : Heard(kind, cursor, End)') => Moved'
  BY <1>7 DEF Moved
<1> QED
  BY <1>1, <1>2, <1>8, <1>9, <1>10

(* A popup stays announced.                                                 *)
LEMMA PopupMoves ==
  ASSUME BaseInv, PopupInv, Carries, Steady,
         life'.at \notin {"closing", "closed", "leaked"} => life.at \notin {"closing", "closed", "leaked"}
  PROVE  PopupInv'
<1>1. 0 \in 0..journal.cursor /\ "popup" \in Kinds \ {"response"}
  BY DEF BaseInv, JournalTypes, Kinds
<1>2. Heard("popup", 0, End) => broken' \/ Heard("popup", 0, End)'
  BY <1>1 DEF Carries
<1> QED
  BY <1>2 DEF PopupInv, Steady, Carries

(* A page that is watched, and its masks, are still those, or the change    *)
(* was signalled.                                                           *)
LEMMA WatchMoves ==
  ASSUME BaseInv, StageInv, WatchInv, Carries, Steady, op' = op
  PROVE  /\ WatchInv'
         /\ Moved' \/ page'.masked = page.masked
         /\ Fenced => Moved' \/ (page'.version = page.version /\ page'.masked = page.masked)
<1>1. /\ Moved => Moved'
      /\ (\E kind \in Signals : \A cursor : Heard(kind, cursor, End)') => Moved'
      /\ "navigated" \in Signals
  BY MovedStays
<1>2. broken' => Moved'
  BY DEF Moved
<1>3. Moved' \/ (page'.watched = page.watched /\ page'.masked = page.masked)
  BY <1>1, <1>2 DEF Steady
<1>4. Fenced => Moved' \/ (page'.version = page.version /\ page'.masked = page.masked)
  BY <1>1, <1>2 DEF Steady, WatchInv
<1>5. MasksPlaced' => MasksPlaced
  <2>1. (\E i \in Coming' : (Said(i)').value = "verified") => \E i \in Coming : Said(i).value = "verified"
    BY DEF Carries
  <2> QED
    BY <2>1 DEF MasksPlaced, Capturing
<1>6. Fenced' <=> Fenced
  BY DEF Fenced, Capturing
<1>7. Fenced' => page'.watched \/ Moved'
  BY <1>1, <1>3, <1>6 DEF WatchInv
<1>8. MasksPlaced' => page'.masked # -1 \/ Moved'
  BY <1>1, <1>3, <1>5 DEF WatchInv
<1>9. Fenced' /\ MasksPlaced' => page'.masked = page'.version \/ Moved'
  BY <1>1, <1>4, <1>5, <1>6 DEF WatchInv
<1> QED
  BY <1>3, <1>4, <1>7, <1>8, <1>9 DEF WatchInv

(* An answer of before the step.                                            *)
LEMMA SaidBefore ==
  ASSUME Carries, NEW i \in Coming'
  PROVE  \E p \in Coming : Said(i)' = Said(p) /\ Kept(p, i)
BY DEF Carries

(* What was seen of the page is still what it is, or the change was         *)
(* signalled.                                                               *)
LEMMA ViewMoves ==
  ASSUME BaseInv, StageInv, WatchInv, ObserveInv, ShotInv, MatchInv, StableInv, Carries, Steady, op' = op, PageTypes'
  PROVE  ObserveInv' /\ ShotInv' /\ MatchInv' /\ StableInv'
<1>0. /\ Fenced' <=> Fenced
      /\ Capturing' <=> Capturing
      /\ page.paint \in Nat /\ page'.paint \in Nat /\ page.paint <= page'.paint
  BY DEF Fenced, Capturing, Steady, BaseInv, PageTypes
<1>a. (Fenced => Moved' \/ page'.version = page.version) /\ (Moved' \/ page'.masked = page.masked)
  BY WatchMoves
<1>b. (Moved => Moved') /\ Kept(0, 0) /\ \A i, j : Kept(i, j) /\ Signalled(i) => Signalled(j)'
  BY MovedStays DEF Carries
<1>c. op' = op /\ op'.seen = op.seen /\ op'.at = op.at
  OBVIOUS
<1>1. CASE Capturing /\ op.at = 3
  <2> SUFFICES ASSUME NEW i \in Coming'
               PROVE  LET view == Said(i)' IN
                      /\ view.value.paint \in Nat /\ view.value.paint <= page'.paint
                      /\ view.value.popup => Heard("popup", 0, i)'
                      /\ view.value.masked = page'.masked \/ Moved'
                      /\ Fenced => view.value.version = page'.version \/ Moved'
    BY <1>0, <1>1 DEF ObserveInv, ShotInv, MatchInv, StableInv, Capturing
  <2>1. PICK p \in Coming : Said(i)' = Said(p) /\ Kept(p, i)
    BY SaidBefore
  <2>2. LET view == Said(p).value IN
        /\ view.paint \in Nat /\ view.paint <= page.paint
        /\ view.popup => Heard("popup", 0, p)
        /\ view.masked = page.masked \/ Moved
        /\ Fenced => view.version = page.version \/ Moved
    BY <1>1 DEF ObserveInv
  <2>3. Heard("popup", 0, p) => Heard("popup", 0, i)'
    BY <2>1, MovedStays DEF Kept
  <2> QED
    BY <1>0, <1>a, <1>b, <2>1, <2>2, <2>3
<1>2. CASE Capturing /\ op.at = 4
  <2>0. /\ op.seen = <<op.seen[1], op.seen[2]>>
        /\ op.seen[1].paint \in Nat /\ op.seen[1].paint <= page.paint
        /\ op.seen[1].popup => op.seen[2]
        /\ op.seen[1].masked = page.masked \/ Moved
        /\ Fenced => op.seen[1].version = page.version \/ Moved
    BY <1>2 DEF ShotInv
  <2>1. ASSUME NEW i \in Coming'
        PROVE  LET view == Said(i)' IN
               /\ view.value.paint \in Nat /\ op.seen[1].paint <= view.value.paint /\ view.value.paint <= page'.paint
               /\ Covers(op.seen[1], view.value) \/ Signalled(i)'
               /\ Fenced => Pictures(op.seen[1], view.value) \/ Signalled(i)'
    <3>1. PICK p \in Coming : Said(i)' = Said(p) /\ Kept(p, i)
      BY <2>1, SaidBefore
    <3>2. LET view == Said(p).value IN
          /\ view.paint \in Nat /\ op.seen[1].paint <= view.paint /\ view.paint <= page.paint
          /\ Covers(op.seen[1], view) \/ Signalled(p)
          /\ Fenced => Pictures(op.seen[1], view) \/ Signalled(p)
      BY <1>2 DEF ShotInv
    <3>3. Signalled(p) => Signalled(i)'
      BY <1>b, <3>1
    <3> QED
      BY <1>0, <3>1, <3>2, <3>3
  <2>2. ShotInv'
    <3>1. \A i \in Coming' : LET view == (Said(i)').value IN
            /\ view.paint \in Nat /\ (op'.seen[1]).paint <= view.paint /\ view.paint <= page'.paint
            /\ Covers(op'.seen[1], view) \/ Signalled(i)'
            /\ Fenced' => Pictures(op'.seen[1], view) \/ Signalled(i)'
      BY <1>0, <2>1
    <3>2. /\ op'.seen = <<op'.seen[1], op'.seen[2]>>
          /\ (op'.seen[1]).paint \in Nat /\ (op'.seen[1]).paint <= page'.paint
          /\ (op'.seen[1]).popup => op'.seen[2]
          /\ (op'.seen[1]).masked = page'.masked \/ Moved'
          /\ Fenced' => (op'.seen[1]).version = page'.version \/ Moved'
      BY <1>0, <1>a, <1>b, <2>0
    <3> QED
      BY <3>1, <3>2 DEF ShotInv, Pictures, Covers
  <2> QED
    BY <1>2, <2>2 DEF ObserveInv, MatchInv, StableInv, Capturing
<1>3. CASE Capturing /\ op.at = 5
  <2>0. /\ op.seen[1].paint \in Nat /\ op.seen[3].paint \in Nat
        /\ op.seen[1].paint <= op.seen[3].paint /\ op.seen[3].paint <= page.paint
        /\ op.seen[1].popup => op.seen[2]
        /\ Covers(op.seen[1], op.seen[3]) \/ Signalled(0)
        /\ Fenced => Pictures(op.seen[1], op.seen[3]) \/ Signalled(0)
        /\ \A i \in Coming : Said(i).value.paint \in Nat /\ op.seen[3].paint <= Said(i).value.paint
    BY <1>3 DEF MatchInv
  <2>1. \A i \in Coming' : (Said(i)').value.paint \in Nat /\ op.seen[3].paint <= (Said(i)').value.paint
    BY <2>0, SaidBefore
  <2>2. Signalled(0) => Signalled(0)'
    BY <1>b
  <2>3. MatchInv'
    BY <1>0, <2>0, <2>1, <2>2 DEF MatchInv, Pictures, Covers
  <2> QED
    BY <1>3, <2>3 DEF ObserveInv, ShotInv, StableInv, Capturing
<1>4. CASE ~(Capturing /\ op.at \in {3, 4, 5})
  BY <1>4 DEF ObserveInv, ShotInv, MatchInv, StableInv, Capturing, Pictures, Covers
<1> QED
  BY <1>1, <1>2, <1>3, <1>4

(* Nothing but the answer to the current call is confirmed, and it is heard *)
(* after all that was on its way before.                                    *)
ComesLast(r, answer) ==
  /\ \A j \in Coming' :
       /\ r.id = call.id /\ Said(j)' = answer /\ answer.outcome = "confirmed" /\ ~broken
       /\ \A kind, cursor : Heard(kind, cursor, End) => Heard(kind, cursor, j)'
  /\ \A kind, cursor : Heard(kind, cursor, End) => Heard(kind, cursor, End)'

(* What Chrome answers comes after all that is on its way.                  *)
LEMMA AnswerComes ==
  ASSUME BaseInv, ChromeHandles, NEW es, NEW m, m.id = Head(toChrome).id,
         es = <<>> \/ \E kind \in {"started", "mask", "changed"} : es = <<Event(kind)>>,
         Emit(es \o <<m>>)
  PROVE  ComesLast(Head(toChrome), m.answer)
<1> DEFINE r == Head(toChrome)
<1>0. /\ UNCHANGED <<call, journal, broken>> /\ IsSeq(fromChrome) /\ ConnInv /\ call.id \in Nat
      /\ ~ChromeAnswered
  BY HandlesKeeps DEF ChromeHandles, BaseInv, ConnInv, ChannelTypes
<1>1. IsSeq(es) /\ \A j \in DOMAIN es : j = 1 /\ es[j].answer = None
  BY <1>0, SaysIs
<1>2. /\ IsSeq(fromChrome')
      /\ \A i \in DOMAIN fromChrome : i \in DOMAIN fromChrome' /\ fromChrome'[i] = fromChrome[i]
      /\ \A i \in DOMAIN fromChrome' :
              \/ i \in DOMAIN fromChrome
              \/ \E j \in DOMAIN es : ~broken /\ i = Len(fromChrome) + j /\ fromChrome'[i] = es[j]
              \/ ~broken /\ i = Len(fromChrome) + Len(es) + 1 /\ fromChrome'[i] = m
  BY <1>0, <1>1, EmittedIs
<1>3. /\ Len(fromChrome) \in Nat /\ DOMAIN fromChrome = 1..Len(fromChrome)
      /\ Len(fromChrome') \in Nat /\ DOMAIN fromChrome' = 1..Len(fromChrome') /\ Len(es) \in Nat
  BY <1>0, <1>1, <1>2, SequenceIs
<1>4. End \in Nat /\ End' \in Nat /\ End <= End' /\ \A i \in DOMAIN fromChrome : i < End
  <2>1. Len(fromChrome) = 0 \/ Len(fromChrome) \in DOMAIN fromChrome'
    BY <1>2, <1>3
  <2> QED
    BY <1>3, <2>1 DEF End
<1>5. ASSUME NEW j \in Nat, End <= j, NEW kind, NEW cursor, Heard(kind, cursor, End) PROVE Heard(kind, cursor, j)'
  BY <1>0, <1>2, <1>3, <1>4, <1>5 DEF Heard
<1>6. ASSUME NEW kind, NEW cursor, Heard(kind, cursor, End) PROVE Heard(kind, cursor, End)'
  BY <1>0, <1>2, <1>3, <1>4, <1>6 DEF Heard
<1>7. ASSUME NEW j \in Coming'
      PROVE  /\ r.id = call.id /\ Said(j)' = m.answer /\ (m.answer).outcome = "confirmed" /\ ~broken
             /\ j \in Nat /\ End <= j
  <2>1. j \in {0} \cup DOMAIN fromChrome' /\ (Said(j)').outcome = "confirmed" /\ (j # 0 => fromChrome'[j].id = call.id)
    BY <1>0 DEF Coming
  <2>2. j # 0
    BY <1>0, <2>1 DEF Said, ChromeAnswered, Arriving
  <2>3. j \notin DOMAIN fromChrome
    <3> SUFFICES ASSUME j \in DOMAIN fromChrome PROVE FALSE
      OBVIOUS
    <3>1. fromChrome[j].answer.outcome = "confirmed" /\ fromChrome[j].id = call.id
      BY <1>2, <2>1, <2>2 DEF Said
    <3>2. fromChrome[j].answer \in Arriving
      BY <3>1 DEF Arriving
    <3> QED
      BY <1>0, <3>1, <3>2 DEF ChromeAnswered
  <2>4. Said(j)' = fromChrome'[j].answer
    BY <2>2 DEF Said
  <2>5. fromChrome'[j] = m /\ j = Len(fromChrome) + Len(es) + 1 /\ ~broken
    BY <1>1, <1>2, <2>1, <2>2, <2>3, <2>4, OutcomesDiffer
  <2> QED
    BY <1>3, <2>1, <2>2, <2>4, <2>5 DEF End
<1> QED
  BY <1>5, <1>6, <1>7 DEF ComesLast

(* What the commands of a capture do to the page and say of it.             *)
LEMMA HandledView ==
  ASSUME NEW method, NEW h \in Handled(method), PageTypes
  PROVE  /\ method = "watch" => h[1].watched
         /\ method = "mask" => /\ h[1].watched = page.watched /\ h[1].masked \in {page.masked, page.version}
                               /\ h[3] = "verified" => h[1].masked = page.version
         /\ method \in {"observe", "screenshot"} => h[1] = page /\ h[3] = View
<1>0. {"watched", "masked"} \subseteq DOMAIN page
  BY DEF PageTypes, NewPage
<1>1. CASE method = "watch"
  <2>1. h[1] = [page EXCEPT !.watched = TRUE]
    BY <1>1 DEF Handled
  <2> QED
    BY <1>0, <1>1, <2>1
<1>2. CASE method = "mask"
  <2>1. \/ h[1] = [page EXCEPT !.masked = page.version]
        \/ h[1] = page /\ h[3] = "unverifiable"
    BY <1>2 DEF Handled
  <2> QED
    BY <1>0, <1>2, <2>1
<1>3. CASE method \in {"observe", "screenshot"}
  BY <1>3 DEF Handled
<1> QED
  BY <1>1, <1>2, <1>3

(* A view is what the page is.                                              *)
LEMMA ViewIs ==
  ASSUME PageTypes
  PROVE  /\ View.version = page.version /\ View.paint = page.paint /\ View.masked = page.masked
         /\ View.popup = page.popup
BY DEF View

(* Chrome's part of a capture: what the page is then, and what the answer   *)
(* to the current command says of it.                                       *)
LEMMA HandlesView ==
  ASSUME BaseInv, ChromeHandles
  PROVE  LET r == Head(toChrome) IN
         /\ page'.version = page.version /\ page'.paint = page.paint /\ page'.popup = page.popup
         /\ \E answer :
              /\ ComesLast(r, answer)
              /\ r.method = "watch" /\ answer.outcome = "confirmed" => page'.watched
              /\ r.method = "mask" =>
                   /\ page'.watched = page.watched /\ page'.masked \in {page.masked, page.version}
                   /\ answer.outcome = "confirmed" /\ answer.value = "verified" => page'.masked = page.version
              /\ r.method \in {"observe", "screenshot"} =>
                   page' = page /\ (answer.outcome = "confirmed" => answer.value = View)
<1> DEFINE r == Head(toChrome)
<1>0. PageTypes /\ page'.version = page.version /\ page'.paint = page.paint /\ page'.popup = page.popup
  BY HandlesIs DEF BaseInv, ConnInv
<1>1. CASE \E h \in Handled(r.method) : page' = h[1] /\ Emit(h[2] \o <<Response(r, "confirmed", h[3])>>)
  <2>1. PICK h \in Handled(r.method) : page' = h[1] /\ Emit(h[2] \o <<Response(r, "confirmed", h[3])>>)
    BY <1>1
  <2> DEFINE m == Response(r, "confirmed", h[3])
             a == m.answer
  <2>2. m.id = r.id /\ a.outcome = "confirmed" /\ a.value = h[3]
    BY DEF Response, Outcome
  <2>3. Emit(h[2] \o <<m>>)
    BY <2>1
  <2> HIDE DEF m
  <2>4. h[2] = <<>> \/ \E kind \in {"started", "mask", "changed"} : h[2] = <<Event(kind)>>
    BY <1>0, HandledIs
  <2>5. ComesLast(r, a)
    BY <2>2, <2>3, <2>4, AnswerComes
  <2> HIDE DEF a
  <2>6. /\ r.method = "watch" => page'.watched
        /\ r.method = "mask" => /\ page'.watched = page.watched /\ page'.masked \in {page.masked, page.version}
                                /\ a.value = "verified" => page'.masked = page.version
        /\ r.method \in {"observe", "screenshot"} => page' = page /\ a.value = View
    BY <1>0, <2>1, <2>2, HandledView
  <2> QED
    BY <1>0, <2>5, <2>6
<1>2. CASE Emit(<<Response(r, "rejected", "none")>>) /\ page' = page
  <2> DEFINE m == Response(r, "rejected", "none")
             a == m.answer
  <2>1. m.id = r.id /\ a.outcome = "rejected"
    BY DEF Response, Outcome
  <2>2. <<>> \o <<m>> = <<m>>
    OBVIOUS
  <2>3. Emit(<<>> \o <<m>>)
    BY <1>2, <2>2
  <2> HIDE DEF m
  <2>4. ComesLast(r, a)
    BY <2>1, <2>3, AnswerComes
  <2> HIDE DEF a
  <2> QED
    BY <1>0, <1>2, <2>1, <2>4
<1> QED
  BY <1>1, <1>2 DEF ChromeHandles

(* What Chrome handles in a capture is the capture's command.               *)
LEMMA HandledStep ==
  ASSUME BaseInv, StageInv, ChromeHandles, Capturing
  PROVE  LET r == Head(toChrome) IN
         /\ op.at \in 1..5 /\ (op.at >= 2 => r.id = call.id)
         /\ r.id = call.id => r.method = CaptureSteps[op.at]
<1>1. Head(toChrome) \in InFlight
  BY HandlesKeeps DEF BaseInv
<1> QED
  BY <1>1 DEF StageInv, PhaseInv, CurrentInv, Capturing

(* The commands of a capture, by place.                                     *)
LEMMA StepNames ==
  /\ CaptureSteps[1] = "watch" /\ CaptureSteps[2] = "mask" /\ CaptureSteps[3] = "observe"
  /\ CaptureSteps[4] = "screenshot" /\ CaptureSteps[5] = "observe"
BY DEF CaptureSteps

(* Chrome's part of a capture keeps what is known of it.                    *)
LEMMA HandlesCapture ==
  ASSUME BaseInv, StageInv, CaptureGroup, ChromeHandles, op' = op, life'.at = life.at
  PROVE  CaptureGroup'
<1> DEFINE r == Head(toChrome)
<1>0. /\ page'.version = page.version /\ page'.paint = page.paint /\ page'.popup = page.popup
      /\ page.paint \in Nat /\ PageTypes
      /\ UNCHANGED <<call, journal, broken>>
  BY HandlesView DEF BaseInv, PageTypes, ChromeHandles
<1>1. PICK answer :
        /\ ComesLast(r, answer)
        /\ r.method = "watch" /\ answer.outcome = "confirmed" => page'.watched
        /\ r.method = "mask" =>
             /\ page'.watched = page.watched /\ page'.masked \in {page.masked, page.version}
             /\ answer.outcome = "confirmed" /\ answer.value = "verified" => page'.masked = page.version
        /\ r.method \in {"observe", "screenshot"} =>
             page' = page /\ (answer.outcome = "confirmed" => answer.value = View)
  BY HandlesView
<1>2. /\ \A kind, cursor : Heard(kind, cursor, End) => Heard(kind, cursor, End)'
      /\ \A j \in Coming' :
           /\ r.id = call.id /\ Said(j)' = answer /\ answer.outcome = "confirmed" /\ ~broken
           /\ \A kind, cursor : Heard(kind, cursor, End) => Heard(kind, cursor, j)'
  BY <1>1 DEF ComesLast
<1>3. PICK fence : fence = op.fence /\ fence = op'.fence
  OBVIOUS
<1>4. /\ \A i : Signalled(i)' <=> \E kind \in Signals : Heard(kind, fence, i)'
      /\ Signalled(End) <=> \E kind \in Signals : Heard(kind, fence, End)
      /\ Signalled(End)' <=> \E kind \in Signals : Heard(kind, fence, End)'
  BY <1>3 DEF Signalled
<1>5. Moved => Moved'
  BY <1>0, <1>2, <1>4 DEF Moved
<1>6. ASSUME NEW j \in Coming' PROVE Moved => Signalled(j)'
  BY <1>2, <1>4, <1>6 DEF Moved
<1>7. Signalled(0) => Signalled(0)'
  <2>1. \A j \in DOMAIN fromChrome : ~(j < 0)
    BY SequenceIs DEF BaseInv, ConnInv, ChannelTypes
  <2> QED
    BY <1>0, <2>1 DEF Signalled, Heard
<1>8. PopupInv'
  BY <1>0, <1>2 DEF PopupInv, CaptureGroup
<1>9. (Fenced' <=> Fenced) /\ (Capturing' <=> Capturing) /\ op'.at = op.at /\ op'.seen = op.seen
  BY DEF Fenced, Capturing
<1>10. CASE ~Capturing
  BY <1>8, <1>10 DEF CaptureGroup, WatchInv, ObserveInv, ShotInv, MatchInv, StableInv, Fenced, Capturing, Pictures,
    Covers, MasksPlaced
<1>11. CASE Capturing
  <2>0. op.at \in 1..5 /\ (op.at >= 2 => r.id = call.id) /\ (r.id = call.id => r.method = CaptureSteps[op.at])
    BY <1>11, HandledStep
  <2>s. StableInv'
    BY <1>11 DEF StableInv, Capturing
  <2>1. CASE op.at = 1
    BY <1>8, <1>9, <2>1, <2>s DEF CaptureGroup, WatchInv, ObserveInv, ShotInv, MatchInv, Fenced, MasksPlaced
  <2>2. CASE op.at = 2
    <3>1. r.method = "mask"
      BY <2>0, <2>2, StepNames
    <3>2. Fenced => page'.watched \/ Moved'
      BY <1>1, <1>5, <3>1 DEF CaptureGroup, WatchInv
    <3>3. (\E i \in Coming' : (Said(i)').value = "verified") => page'.masked = page'.version /\ page'.version # -1
      BY <1>0, <1>1, <1>2, <3>1 DEF PageTypes
    <3> QED
      BY <1>8, <1>9, <2>2, <2>s, <3>2, <3>3
         DEF CaptureGroup, WatchInv, ObserveInv, ShotInv, MatchInv, Fenced, MasksPlaced
  <2>3. CASE op.at \in 3..5
    <3>1. r.method \in {"observe", "screenshot"}
      BY <2>0, <2>3, StepNames
    <3>2. page' = page /\ (answer.outcome = "confirmed" => answer.value = View)
      BY <1>1, <3>1
    <3>3. \A i \in Coming' : (Said(i)').value = View
      BY <1>2, <3>2
    <3>4. (page.masked # -1 \/ Moved) /\ (Fenced => page.masked = page.version \/ Moved)
      BY <1>11, <2>3 DEF CaptureGroup, WatchInv, MasksPlaced
    <3>5. WatchInv'
      BY <1>5, <1>9, <2>3, <3>2, <3>4 DEF CaptureGroup, WatchInv, Fenced
    <3>6. CASE op.at = 3
      <4>1. ASSUME NEW i \in Coming'
            PROVE  LET view == (Said(i)').value IN
                   /\ view.paint \in Nat /\ view.paint <= page'.paint
                   /\ view.popup => Heard("popup", 0, i)'
                   /\ view.masked = page'.masked \/ Moved'
                   /\ Fenced' => view.version = page'.version \/ Moved'
        <5>1. page.popup => Heard("popup", 0, End)
          <6>1. life.at = "running"
            BY <1>11 DEF StageInv, PhaseInv, Capturing
          <6>2. ~broken
            BY <1>2, <4>1
          <6> QED
            BY <6>1, <6>2 DEF CaptureGroup, PopupInv
        <5>2. page.popup => Heard("popup", 0, i)'
          BY <1>2, <4>1, <5>1
        <5> QED
          BY <1>0, <3>2, <3>3, <4>1, <5>2, ViewIs
      <4> QED
        BY <1>8, <1>9, <2>s, <3>5, <3>6, <4>1 DEF CaptureGroup, ObserveInv, ShotInv, MatchInv
    <3>7. CASE op.at = 4
      <4>0. /\ op.seen = <<op.seen[1], op.seen[2]>>
            /\ op.seen[1].paint \in Nat /\ op.seen[1].paint <= page.paint
            /\ op.seen[1].popup => op.seen[2]
            /\ op.seen[1].masked = page.masked \/ Moved
            /\ Fenced => op.seen[1].version = page.version \/ Moved
        BY <1>11, <3>7 DEF CaptureGroup, ShotInv
      <4>1. ASSUME NEW i \in Coming'
            PROVE  LET view == (Said(i)').value IN
                   /\ view.paint \in Nat /\ op.seen[1].paint <= view.paint /\ view.paint <= page'.paint
                   /\ Covers(op.seen[1], view) \/ Signalled(i)'
                   /\ Fenced => Pictures(op.seen[1], view) \/ Signalled(i)'
        <5>1. Fenced => (op.seen[1].version = View.version /\ View.masked = View.version) \/ Signalled(i)'
          BY <1>0, <1>6, <3>4, <4>0, <4>1, ViewIs
        <5>2. (op.seen[1].masked = View.masked /\ View.masked # -1) \/ Signalled(i)'
          BY <1>0, <1>6, <3>4, <4>0, <4>1, ViewIs
        <5> QED
          BY <1>0, <3>2, <3>3, <4>0, <4>1, <5>1, <5>2, ViewIs DEF Pictures, Covers
      <4>2. \A i \in Coming' : LET view == (Said(i)').value IN
              /\ view.paint \in Nat /\ (op'.seen[1]).paint <= view.paint /\ view.paint <= page'.paint
              /\ Covers(op'.seen[1], view) \/ Signalled(i)'
              /\ Fenced' => Pictures(op'.seen[1], view) \/ Signalled(i)'
        BY <1>9, <4>1
      <4>3. /\ op'.seen = <<op'.seen[1], op'.seen[2]>>
            /\ (op'.seen[1]).paint \in Nat /\ (op'.seen[1]).paint <= page'.paint
            /\ (op'.seen[1]).popup => op'.seen[2]
            /\ (op'.seen[1]).masked = page'.masked \/ Moved'
            /\ Fenced' => (op'.seen[1]).version = page'.version \/ Moved'
        BY <1>5, <1>9, <3>2, <4>0
      <4>4. ShotInv'
        BY <4>2, <4>3 DEF ShotInv, Pictures, Covers
      <4> QED
        BY <1>8, <1>9, <2>s, <3>5, <3>7, <4>4 DEF CaptureGroup, ObserveInv, MatchInv
    <3>8. CASE op.at = 5
      <4>0. /\ op.seen[1].paint \in Nat /\ op.seen[3].paint \in Nat
            /\ op.seen[1].paint <= op.seen[3].paint /\ op.seen[3].paint <= page.paint
            /\ op.seen[1].popup => op.seen[2]
            /\ Covers(op.seen[1], op.seen[3]) \/ Signalled(0)
            /\ Fenced => Pictures(op.seen[1], op.seen[3]) \/ Signalled(0)
        BY <1>11, <3>8 DEF CaptureGroup, MatchInv
      <4>1. \A i \in Coming' : (Said(i)').value.paint \in Nat /\ op.seen[3].paint <= (Said(i)').value.paint
        BY <1>0, <3>3, <4>0, ViewIs
      <4>2. MatchInv'
        BY <1>7, <1>9, <3>2, <4>0, <4>1 DEF MatchInv, Pictures, Covers
      <4> QED
        BY <1>8, <1>9, <2>s, <3>5, <3>8, <4>2 DEF CaptureGroup, ObserveInv, ShotInv
    <3> QED
      BY <2>3, <3>6, <3>7, <3>8
  <2> QED
    BY <2>0, <2>1, <2>2, <2>3
<1> QED
  BY <1>10, <1>11

(* A new command has no answer yet.                                         *)
LEMMA NothingComes ==
  ASSUME BaseInv, CallerFrame, NEW o, NEW m, GoOn(o, m)
  PROVE  Coming' = {} /\ op' = o /\ captured' = captured
<1>1. Arriving' = {call'.reply} /\ call'.reply \in {None, NotSent} /\ op' = o /\ captured' = captured
  BY GoingOn
<1>2. ASSUME NEW i \in Coming' PROVE FALSE
  <2>1. (Said(i)').outcome = "confirmed" /\ i \in {0} \cup DOMAIN fromChrome' /\ (i # 0 => fromChrome'[i].id = call'.id)
    BY DEF Coming
  <2>2. Said(i)' \in Arriving'
    BY <2>1 DEF Said, Arriving
  <2> QED
    BY <1>1, <2>1, <2>2, OutcomesDiffer
<1> QED
  BY <1>1, <1>2

(* The caller leaves the announcement of a popup alone.                     *)
LEMMA CallerPopup ==
  ASSUME BaseInv, StageInv, PopupInv, CallerSteps \/ LifeSteps
  PROVE  PopupInv'
<1>1. UNCHANGED <<fromChrome, broken, journal>> /\ page'.popup = page.popup
  BY CallerFrames DEF CallerFrame, BaseInv, ConnInv, PageTypes, NewPage
<1>2. Heard("popup", 0, End) => Heard("popup", 0, End)'
  BY <1>1 DEF Heard, End
<1>3. life.at \in {"closing", "closed", "leaked"} => life'.at \in {"closing", "closed", "leaked"}
  <2> SUFFICES ASSUME life.at \in {"closing", "closed", "leaked"} PROVE life'.at \in {"closing", "closed", "leaked"}
    OBVIOUS
  <2>1. op = NoOp /\ op.phase = "none"
    BY DEF StageInv, PhaseInv, NoOp
  <2>2. CASE LifeSteps
    <3>1. \A to : Step(to) => life'.at = life.at
      BY DEF Step
    <3>2. ~(Prepare \/ Spawn \/ AwaitReady)
      BY DEF Prepare, Spawn, AwaitReady
    <3>3. RemoveProfile => life'.at \in {"closing", "closed", "leaked"}
      BY DEF RemoveProfile, Life
    <3>4. UNCHANGED vars => life' = life
      BY DEF vars
    <3> QED
      BY <2>2, <3>1, <3>2, <3>3, <3>4 DEF LifeSteps, TryWait, Signal, AwaitExit
  <2>3. CASE CallerSteps
    BY <2>1, <2>3 DEF CallerSteps, Navigate, Cancel, Capture, Perform, More, Free, CommitAnswered, DocumentAnswered,
      WidthAnswered, CaptureAnswered, CleanupAnswered, WithheldAnswered, InputAnswered, SettleInput, AwaitLoading,
      ConnectClient, SetupAnswered
  <2> QED
    BY <2>2, <2>3
<1> QED
  BY <1>1, <1>2, <1>3 DEF PopupInv

(* The operation is no capture and leaves none to be returned.              *)
LEMMA NoCapture ==
  ASSUME PopupInv', op'.phase # "capture", op'.phase = "cleanup" => op'.verdict # "stable"
  PROVE  CaptureGroup'
BY DEF CaptureGroup, WatchInv, ObserveInv, ShotInv, MatchInv, StableInv, Fenced, Capturing, MasksPlaced

(* A fence at which nothing changed has received no signal: what the        *)
(* journal dropped counts as a change.                                      *)
LEMMA NoSignal ==
  ASSUME BaseInv, StageInv, ~PageChangedSince(op.fence)
  PROVE  ~Signalled(0)
<1>1. op.fence \in Nat /\ JournalTypes /\ JournalInv
  BY DEF BaseInv, OpTypes
<1>2. \A kind \in Signals : kind \in Kinds /\ kind \notin KindsSince(op.fence)
  BY DEF PageChangedSince, Signals, Relevant, Kinds
<1>3. \A kind \in Signals : journal.arrived[kind] <= op.fence
  BY <1>1, <1>2, NothingMissed DEF PageChangedSince
<1>4. \A j \in DOMAIN fromChrome : ~(j < 0)
  BY SequenceIs DEF BaseInv, ConnInv, ChannelTypes
<1>5. \A kind \in Signals : journal.arrived[kind] \in Nat
  BY <1>2 DEF BaseInv, JournalTypes
<1> QED
  BY <1>1, <1>3, <1>4, <1>5 DEF Signalled, Heard

(* A clean-up keeps what it is for.                                         *)
LEMMA CleansUp ==
  ASSUME BaseInv, CallerFrame, NEW verdict, NEW seen, CleanUp(verdict, seen)
  PROVE  /\ op'.phase = "cleanup" /\ op'.verdict = verdict /\ op'.seen = seen /\ op'.renewed = op.renewed
         /\ op'.kind = op.kind /\ captured' = captured
<1>1. PICK at \in {1, 2} : GoOn([op EXCEPT !.phase = "cleanup", !.at = at, !.verdict = verdict, !.seen = seen],
                                CleanupSteps[at])
  BY DEF CleanUp
<1>2. DOMAIN op = DOMAIN NoOp /\ {"phase", "at", "verdict", "seen"} \subseteq DOMAIN op
  BY DEF BaseInv, OpTypes, NoOp
<1>3. op' = [op EXCEPT !.phase = "cleanup", !.at = at, !.verdict = verdict, !.seen = seen] /\ captured' = captured
  BY <1>1 DEF GoOn
<1> QED
  BY <1>2, <1>3

(* The steps of a capture: what it keeps is what it was shown.              *)
LEMMA CapturesOn ==
  ASSUME BaseInv, StageInv, CaptureGroup, CaptureAnswered
  PROVE  CaptureGroup' /\ captured' = captured
<1>0. /\ CallerFrame /\ PopupInv'
      /\ UNCHANGED <<page, fromChrome, broken, journal>>
      /\ DOMAIN op = DOMAIN NoOp /\ {"phase", "at", "fence", "renewed", "seen"} \subseteq DOMAIN op
      /\ op.phase = "capture" /\ op.at \in 1..5 /\ op.fence \in 0..journal.cursor /\ page.paint \in Nat
      /\ journal.cursor \in Nat /\ op.fence \in Nat
  <2>1. CallerSteps /\ ChannelTypes /\ PopupInv
    BY DEF CallerSteps, BaseInv, ConnInv, CaptureGroup
  <2>2. CallerFrame /\ PopupInv'
    BY <2>1, CallerFrames, CallerPopup
  <2>3. op.phase = "capture" /\ UNCHANGED <<page, fromChrome, broken, journal>>
    BY DEF CaptureAnswered, Caller, chrome
  <2>4. DOMAIN op = DOMAIN NoOp /\ {"phase", "at", "fence", "renewed", "seen"} \subseteq DOMAIN op
    BY DEF BaseInv, OpTypes, NoOp
  <2>5. journal.cursor \in Nat /\ op.fence \in Nat /\ page.paint \in Nat
    BY DEF BaseInv, OpTypes, JournalTypes, PageTypes
  <2>6. op.at \in 1..5 /\ op.fence <= journal.cursor
    BY <2>3 DEF StageInv, PhaseInv
  <2> QED
    BY <2>2, <2>3, <2>4, <2>5, <2>6
<1>a. ASSUME NEW o, NEW m, GoOn(o, m) PROVE Coming' = {} /\ op' = o /\ captured' = captured
  BY <1>0, <1>a, NothingComes
<1>1. ASSUME NEW verdict \in {"error", "unverifiable", "changed"}, CleanUp(verdict, <<>>)
      PROVE  CaptureGroup' /\ captured' = captured
  BY <1>0, <1>1, CleansUp, NoCapture
<1>2. CASE Confirmed(call.reply)
  <2>0. 0 \in Coming /\ Said(0) = call.reply
    BY <1>2 DEF Coming, Said, Confirmed
  <2>m. ASSUME op'.fence = op.fence PROVE (Moved <=> Moved') /\ (Signalled(0) <=> Signalled(0)')
    BY <1>0, <2>m DEF Moved, Signalled, Heard, End
  <2>1. CASE /\ op.at = 1
             /\ GoOn([[op EXCEPT !.at = @ + 1] EXCEPT !.fence = journal.cursor,
                         !.renewed = Overtaken], "mask")
    <3> DEFINE on == [op EXCEPT !.at = @ + 1]
               o == [on EXCEPT !.fence = journal.cursor, !.renewed = Overtaken]
    <3>1. on.at = 2 /\ on.phase = "capture" /\ DOMAIN on = DOMAIN op
      BY <1>0, <2>1
    <3> HIDE DEF on
    <3>2. o.at = 2 /\ o.phase = "capture" /\ (o.renewed <=> Overtaken)
      BY <1>0, <3>1
    <3>3. GoOn(o, "mask")
      BY <2>1 DEF on
    <3> HIDE DEF o
    <3>4. Coming' = {} /\ op' = o /\ captured' = captured
      BY <1>a, <3>3
    <3>5. Fenced' => page'.watched \/ Moved'
      <4> SUFFICES ASSUME ~op'.renewed, ~page.watched, ~broken PROVE Signalled(End)'
        BY <1>0 DEF Fenced, Moved
      <4>1. PICK j \in DOMAIN fromChrome : fromChrome[j].kind = "navigated"
        BY <3>2, <3>4 DEF Overtaken
      <4>2. j < End
        BY <4>1, SequenceIs DEF BaseInv, ConnInv, ChannelTypes, End
      <4>3. "navigated" \in Signals
        BY DEF Signals, Relevant
      <4> QED
        BY <1>0, <4>1, <4>2, <4>3 DEF Signalled, Heard, End
    <3>6. op'.at = 2 /\ op'.phase = "capture"
      BY <3>2, <3>4
    <3> QED
      BY <1>0, <3>4, <3>5, <3>6 DEF CaptureGroup, WatchInv, ObserveInv, ShotInv, MatchInv, StableInv, MasksPlaced
  <2>2. CASE op.at = 2 /\ call.reply.value = "verified" /\ GoOn([op EXCEPT !.at = @ + 1], "observe")
    <3> DEFINE o == [op EXCEPT !.at = @ + 1]
    <3>1. o.at = 3 /\ o.phase = "capture" /\ o.fence = op.fence /\ o.renewed = op.renewed
      BY <1>0, <2>2
    <3>2. GoOn(o, "observe")
      BY <2>2
    <3> HIDE DEF o
    <3>3. Coming' = {} /\ op' = o /\ captured' = captured
      BY <1>a, <3>2
    <3>4. Fenced' => Fenced
      BY <1>0, <2>2, <3>1, <3>3 DEF Fenced, Capturing
    <3>5. /\ page.masked # -1 \/ Moved
          /\ Fenced => (page.watched \/ Moved) /\ (page.masked = page.version \/ Moved)
      BY <1>0, <2>0, <2>2 DEF CaptureGroup, WatchInv, MasksPlaced, Capturing
    <3>6. WatchInv'
      BY <1>0, <2>m, <3>1, <3>3, <3>4, <3>5 DEF WatchInv
    <3> QED
      BY <1>0, <3>1, <3>3, <3>6 DEF CaptureGroup, ObserveInv, ShotInv, MatchInv, StableInv
  <2>3. CASE /\ op.at = 3
             /\ GoOn([[op EXCEPT !.at = @ + 1] EXCEPT !.seen = <<call.reply.value, HasReceived("popup")>>], "screenshot")
    <3> DEFINE on == [op EXCEPT !.at = @ + 1]
               s == <<call.reply.value, HasReceived("popup")>>
               o == [on EXCEPT !.seen = s]
    <3>1. /\ on.at = 4 /\ on.phase = "capture" /\ DOMAIN on = DOMAIN op
          /\ on.fence = op.fence /\ on.renewed = op.renewed
      BY <1>0, <2>3
    <3> HIDE DEF on
    <3>2. /\ o.at = 4 /\ o.phase = "capture" /\ o.fence = op.fence /\ o.renewed = op.renewed /\ o.seen = s
      BY <1>0, <3>1
    <3>3. GoOn(o, "screenshot")
      BY <2>3 DEF on
    <3>4. s[1] = call.reply.value /\ (s[2] <=> HasReceived("popup")) /\ s = <<s[1], s[2]>>
      OBVIOUS
    <3> HIDE DEF o, s
    <3>5. Coming' = {} /\ op' = o /\ captured' = captured
      BY <1>a, <3>3
    <3>6. Fenced' => Fenced
      BY <1>0, <2>3, <3>2, <3>5 DEF Fenced, Capturing
    <3>7. LET view == call.reply.value IN
          /\ view.paint \in Nat /\ view.paint <= page.paint
          /\ view.popup => Heard("popup", 0, 0)
          /\ view.masked = page.masked \/ Moved
          /\ Fenced => view.version = page.version \/ Moved
      BY <1>0, <2>0, <2>3 DEF CaptureGroup, ObserveInv, Capturing
    <3>8. Heard("popup", 0, 0) => HasReceived("popup")
      <4>1. \A j \in DOMAIN fromChrome : ~(j < 0)
        BY SequenceIs DEF BaseInv, ConnInv, ChannelTypes
      <4> QED
        BY <4>1 DEF Heard, HasReceived
    <3>9. /\ page.masked # -1 \/ Moved
          /\ Fenced => (page.watched \/ Moved) /\ (page.masked = page.version \/ Moved)
      BY <1>0, <2>3 DEF CaptureGroup, WatchInv, MasksPlaced, Capturing
    <3>10. WatchInv'
      BY <1>0, <2>m, <3>2, <3>5, <3>6, <3>9 DEF WatchInv
    <3>11. op'.seen = s
      BY <3>2, <3>5
    <3>12. ShotInv'
      BY <1>0, <2>m, <3>2, <3>4, <3>5, <3>6, <3>7, <3>8, <3>11 DEF ShotInv, Covers
    <3> QED
      BY <1>0, <3>2, <3>5, <3>10, <3>12 DEF CaptureGroup, ObserveInv, MatchInv, StableInv
  <2>s. op.at = 4 => LET view == call.reply.value
                         s == Append(op.seen, view) IN
        /\ s[1] = op.seen[1] /\ s[2] = op.seen[2] /\ s[3] = view
        /\ op.seen[1].paint \in Nat /\ (op.seen[1].popup => op.seen[2])
        /\ view.paint \in Nat /\ op.seen[1].paint <= view.paint /\ view.paint <= page.paint
        /\ Covers(op.seen[1], view) \/ Signalled(0)
        /\ Fenced => Pictures(op.seen[1], view) \/ Signalled(0)
    <3> SUFFICES ASSUME op.at = 4
                 PROVE  LET view == call.reply.value
                            s == Append(op.seen, view) IN
                        /\ s[1] = op.seen[1] /\ s[2] = op.seen[2] /\ s[3] = view
                        /\ op.seen[1].paint \in Nat /\ (op.seen[1].popup => op.seen[2])
                        /\ view.paint \in Nat /\ op.seen[1].paint <= view.paint /\ view.paint <= page.paint
                        /\ Covers(op.seen[1], view) \/ Signalled(0)
                        /\ Fenced => Pictures(op.seen[1], view) \/ Signalled(0)
      OBVIOUS
    <3>1. PICK x, y : op.seen = <<x, y>>
      BY <1>0 DEF CaptureGroup, ShotInv, Capturing
    <3>2. IsSeq(op.seen) /\ Len(op.seen) = 2 /\ DOMAIN op.seen = {1, 2}
      <4>1. IsSeq(op.seen) /\ DOMAIN op.seen = {1, 2}
        <5>1. IsSeq(<<x, y>>) /\ DOMAIN <<x, y>> = {1, 2}
          BY Singles
        <5> QED
          BY <3>1, <5>1, Zenon
      <4>2. Len(op.seen) = 2
        BY <3>1
      <4> QED
        BY <4>1, <4>2
    <3>3. LET s == Append(op.seen, call.reply.value) IN s[1] = op.seen[1] /\ s[2] = op.seen[2] /\ s[3] = call.reply.value
      BY <3>2, Appended
    <3> QED
      BY <1>0, <2>0, <3>3 DEF CaptureGroup, ShotInv, Capturing
  <2>4. CASE /\ op.at = 4 /\ op.kind = "capture"
             /\ ~PageChangedSince(op.fence) /\ CleanUp("stable", Append(op.seen, call.reply.value))
    <3> DEFINE s == Append(op.seen, call.reply.value)
    <3>1. /\ op'.phase = "cleanup" /\ op'.seen = s /\ op'.renewed = op.renewed
          /\ op'.kind = op.kind /\ captured' = captured
      BY <1>0, <2>4, CleansUp
    <3>2. /\ s[1] = op.seen[1] /\ s[2] = op.seen[2] /\ s[3] = call.reply.value
          /\ op.seen[1].popup => op.seen[2]
          /\ Covers(op.seen[1], call.reply.value)
          /\ Fenced => Pictures(op.seen[1], call.reply.value)
      BY <2>4, <2>s, NoSignal
    <3> HIDE DEF s
    <3>3. ~op.renewed => Fenced
      BY <1>0, <2>4 DEF Fenced, Capturing
    <3>4. StableInv'
      BY <2>4, <3>1, <3>2, <3>3 DEF StableInv, Pictures, Covers
    <3> QED
      BY <1>0, <3>1, <3>4 DEF CaptureGroup, WatchInv, ObserveInv, ShotInv, MatchInv, Fenced, Capturing, MasksPlaced
  <2>5. CASE /\ op.at = 4 /\ op.kind = "capture_matching"
             /\ GoOn([[op EXCEPT !.at = @ + 1] EXCEPT !.seen = Append(op.seen, call.reply.value)], "observe")
    <3> DEFINE on == [op EXCEPT !.at = @ + 1]
               s == Append(op.seen, call.reply.value)
               o == [on EXCEPT !.seen = s]
    <3>1. /\ on.at = 5 /\ on.phase = "capture" /\ DOMAIN on = DOMAIN op
          /\ on.fence = op.fence /\ on.renewed = op.renewed
      BY <1>0, <2>5
    <3> HIDE DEF on
    <3>2. /\ o.at = 5 /\ o.phase = "capture" /\ o.fence = op.fence /\ o.renewed = op.renewed /\ o.seen = s
      BY <1>0, <3>1
    <3>3. GoOn(o, "observe")
      BY <2>5 DEF on
    <3>4. /\ s[1] = op.seen[1] /\ s[2] = op.seen[2] /\ s[3] = call.reply.value
          /\ op.seen[1].paint \in Nat /\ (op.seen[1].popup => op.seen[2])
          /\ s[3].paint \in Nat /\ op.seen[1].paint <= s[3].paint /\ s[3].paint <= page.paint
          /\ Covers(op.seen[1], s[3]) \/ Signalled(0)
          /\ Fenced => Pictures(op.seen[1], s[3]) \/ Signalled(0)
      BY <2>5, <2>s
    <3> HIDE DEF o, s
    <3>5. Coming' = {} /\ op' = o /\ captured' = captured
      BY <1>a, <3>3
    <3>6. Fenced' => Fenced
      BY <1>0, <2>5, <3>2, <3>5 DEF Fenced, Capturing
    <3>7. /\ page.masked # -1 \/ Moved
          /\ Fenced => (page.watched \/ Moved) /\ (page.masked = page.version \/ Moved)
      BY <1>0, <2>5 DEF CaptureGroup, WatchInv, MasksPlaced, Capturing
    <3>8. WatchInv'
      BY <1>0, <2>m, <3>2, <3>5, <3>6, <3>7 DEF WatchInv
    <3>9. op'.seen = s
      BY <3>2, <3>5
    <3>10. MatchInv'
      BY <1>0, <2>m, <3>2, <3>4, <3>5, <3>6, <3>9 DEF MatchInv, Pictures, Covers
    <3> QED
      BY <1>0, <3>2, <3>5, <3>8, <3>10 DEF CaptureGroup, ObserveInv, ShotInv, StableInv
  <2>6. CASE /\ op.at = 5 /\ op.kind = "capture_matching"
             /\ call.reply.value.paint = op.seen[1].paint
             /\ ~PageChangedSince(op.fence) /\ CleanUp("stable", op.seen)
    <3>1. /\ op'.phase = "cleanup" /\ op'.seen = op.seen /\ op'.renewed = op.renewed
          /\ op'.kind = op.kind /\ captured' = captured
      BY <1>0, <2>6, CleansUp
    <3>2. /\ op.seen[1].popup => op.seen[2]
          /\ Covers(op.seen[1], op.seen[3])
          /\ Fenced => Pictures(op.seen[1], op.seen[3])
          /\ op.seen[1].paint \in Nat /\ op.seen[3].paint \in Nat
          /\ op.seen[1].paint <= op.seen[3].paint /\ op.seen[3].paint <= call.reply.value.paint
      BY <1>0, <2>0, <2>6, NoSignal DEF CaptureGroup, MatchInv, Capturing
    <3>3. ~op.renewed => Fenced
      BY <1>0, <2>6 DEF Fenced, Capturing
    <3>4. op.seen[1].paint = op.seen[3].paint
      BY <2>6, <3>2
    <3>5. StableInv'
      BY <3>1, <3>2, <3>3, <3>4 DEF StableInv, Pictures, Covers
    <3> QED
      BY <1>0, <3>1, <3>5 DEF CaptureGroup, WatchInv, ObserveInv, ShotInv, MatchInv, Fenced, Capturing, MasksPlaced
  <2> QED
    BY <1>1, <2>1, <2>2, <2>3, <2>4, <2>5, <2>6, CaptureGoes DEF StageInv
<1> QED
  BY <1>1, <1>2, CaptureGoes DEF StageInv

(* A capture that starts knows nothing yet.                                 *)
LEMMA CaptureStarts ==
  ASSUME PopupInv', op'.phase = "capture", op'.at = 1, Coming' = {}
  PROVE  CaptureGroup'
BY DEF CaptureGroup, WatchInv, ObserveInv, ShotInv, MatchInv, StableInv, Fenced, Capturing, MasksPlaced

(* What was returned stays as it is.                                        *)
LEMMA ReturnedStays ==
  ASSUME CaptureIsOnePage, captured' = captured
  PROVE  CaptureIsOnePage'
BY DEF CaptureIsOnePage

(* What is returned after the clean-up is what was judged stable.           *)
LEMMA CleansOn ==
  ASSUME BaseInv, StageInv, CaptureGroup, CaptureIsOnePage, CleanupAnswered
  PROVE  CaptureGroup' /\ CaptureIsOnePage'
<1>0. /\ CallerFrame /\ PopupInv' /\ op.phase = "cleanup" /\ StableInv
      /\ DOMAIN op = DOMAIN NoOp /\ {"phase", "at", "verdict", "renewed", "seen", "kind"} \subseteq DOMAIN op
      /\ NoOp.phase = "none" /\ op.at \in Nat
  <2>1. CallerSteps /\ ChannelTypes /\ PopupInv /\ StableInv
    BY DEF CallerSteps, BaseInv, ConnInv, CaptureGroup
  <2>2. CallerFrame /\ PopupInv'
    BY <2>1, CallerFrames, CallerPopup
  <2> QED
    BY <2>1, <2>2, OperationIs DEF CleanupAnswered, BaseInv, OpTypes, NoOp
<1>a. ASSUME NEW o, NEW m, GoOn(o, m) PROVE Coming' = {} /\ op' = o /\ captured' = captured
  BY <1>0, <1>a, NothingComes
<1>1. CASE GoOn([op EXCEPT !.at = @ + 1], CleanupSteps[op.at + 1])
  <2> DEFINE o == [op EXCEPT !.at = @ + 1]
  <2>1. /\ o.phase = "cleanup" /\ o.verdict = op.verdict /\ o.seen = op.seen /\ o.renewed = op.renewed
        /\ o.kind = op.kind /\ GoOn(o, CleanupSteps[op.at + 1])
    BY <1>0, <1>1
  <2> HIDE DEF o
  <2>2. op' = o /\ captured' = captured
    BY <1>a, <2>1
  <2>3. StableInv'
    BY <1>0, <2>1, <2>2 DEF StableInv, Pictures, Covers
  <2> QED
    BY <1>0, <2>1, <2>2, <2>3, ReturnedStays
       DEF CaptureGroup, WatchInv, ObserveInv, ShotInv, MatchInv, Fenced, Capturing, MasksPlaced
<1>2. CASE /\ op.verdict = "stable" /\ op' = NoOp
           /\ captured' = <<[kind |-> op.kind, observed |-> op.seen[1], popup |-> op.seen[2],
                             shot |-> op.seen[3], renewed |-> op.renewed]>>
  <2> DEFINE c == [kind |-> op.kind, observed |-> op.seen[1], popup |-> op.seen[2],
                   shot |-> op.seen[3], renewed |-> op.renewed]
  <2>1. /\ c.kind = op.kind /\ c.observed = op.seen[1] /\ c.popup = op.seen[2] /\ c.shot = op.seen[3]
        /\ c.renewed = op.renewed
    OBVIOUS
  <2>2. captured' = <<c>>
    BY <1>2
  <2> HIDE DEF c
  <2>3. DOMAIN captured' = {1} /\ captured'[1] = c
    BY <2>2, Singles
  <2>4. /\ op.seen[1].popup => op.seen[2]
        /\ Covers(op.seen[1], op.seen[3])
        /\ ~op.renewed => Pictures(op.seen[1], op.seen[3])
        /\ op.kind = "capture_matching" => op.seen[1].paint = op.seen[3].paint
    BY <1>0, <1>2 DEF StableInv
  <2>5. IsOneDocument(c) /\ (~c.renewed => IsOneState(c))
    BY <2>1, <2>4 DEF Pictures, Covers, IsOneDocument, IsOneState
  <2>6. CaptureIsOnePage'
    BY <2>3, <2>5 DEF CaptureIsOnePage
  <2>7. op'.phase = "none"
    BY <1>0, <1>2
  <2> QED
    BY <1>0, <2>6, <2>7, NoCapture
<1>3. CASE GoOn([Operation(op.kind, "capture") EXCEPT !.attempt = op.attempt + 1], "watch")
  <2> DEFINE o == Operation(op.kind, "capture")
             p == [o EXCEPT !.attempt = op.attempt + 1]
  <2>1. DOMAIN o = DOMAIN NoOp /\ o.phase = "capture" /\ o.at = 1
    BY OperationIs DEF BaseInv
  <2> HIDE DEF o
  <2>2. p.phase = "capture" /\ p.at = 1
    BY <2>1 DEF NoOp
  <2>3. GoOn(p, "watch")
    BY <1>3 DEF o
  <2> HIDE DEF p
  <2> QED
    BY <1>0, <1>a, <2>2, <2>3, CaptureStarts, ReturnedStays
<1>4. CASE GoOn([op EXCEPT !.phase = "withheld"], "observe")
  <2> DEFINE o == [op EXCEPT !.phase = "withheld"]
  <2>1. o.phase = "withheld" /\ GoOn(o, "observe")
    BY <1>0, <1>4
  <2> HIDE DEF o
  <2> QED
    BY <1>0, <1>a, <2>1, NoCapture, ReturnedStays
<1>5. CASE Fail
  <2>1. op' = NoOp /\ captured' = captured
    BY <1>5 DEF Fail, Finish
  <2> QED
    BY <1>0, <2>1, NoCapture, ReturnedStays
<1> QED
  BY <1>1, <1>2, <1>3, <1>4, <1>5 DEF CleanupAnswered

(* The caller's other steps are no capture's, but for its start.            *)
LEMMA CallerCaptures ==
  ASSUME BaseInv, StageInv, CallerSteps, ~CaptureAnswered, ~CleanupAnswered
  PROVE  /\ captured' = captured
         /\ \/ op'.phase \notin {"capture", "cleanup"}
            \/ op'.phase = "capture" /\ op'.at = 1 /\ Coming' = {}
<1>0. /\ CallerFrame /\ DOMAIN op = DOMAIN NoOp /\ {"phase", "at"} \subseteq DOMAIN op /\ NoOp.phase = "none"
      /\ \A kind, phase : Operation(kind, phase).phase = phase /\ Operation(kind, phase).at = 1
  BY CallerFrames, OperationIs DEF BaseInv, ConnInv, OpTypes, NoOp
<1>a. /\ \A o, m : GoOn(o, m) => op' = o /\ captured' = captured
      /\ \A result : Finish(result) => op'.phase = "none" /\ captured' = captured
  BY <1>0 DEF GoOn, Finish
<1>b. Fail => op'.phase = "none" /\ captured' = captured
  BY <1>a DEF Fail
<1>1. CASE Navigate
  BY <1>0, <1>a, <1>1 DEF Navigate
<1>2. CASE \E kind \in Captures : Capture(kind)
  <2>1. PICK kind \in Captures : GoOn(Operation(kind, "capture"), "watch")
    BY <1>2 DEF Capture
  <2> DEFINE o == Operation(kind, "capture")
  <2>2. o.phase = "capture" /\ o.at = 1 /\ GoOn(o, "watch")
    BY <1>0, <2>1
  <2> HIDE DEF o
  <2> QED
    BY <1>0, <2>2, NothingComes
<1>3. CASE CommitAnswered
  BY <1>0, <1>a, <1>b, <1>3 DEF CommitAnswered
<1>4. CASE DocumentAnswered
  <2>1. op.phase = "document"
    BY <1>4 DEF DocumentAnswered
  <2>2. \/ Finish("performed") \/ Fail
        \/ \E m : GoOn([op EXCEPT !.phase = "width"], m)
        \/ \E quiet, m : GoOn([op EXCEPT !.quiet = quiet, !.cursor = journal.cursor, !.polls = @ + 1], m)
    BY <1>4 DEF DocumentAnswered
  <2>3. CASE \E quiet, m : GoOn([op EXCEPT !.quiet = quiet, !.cursor = journal.cursor, !.polls = @ + 1], m)
    <3>1. PICK quiet, m : GoOn([op EXCEPT !.quiet = quiet, !.cursor = journal.cursor, !.polls = @ + 1], m)
      BY <2>3
    <3> DEFINE o == [op EXCEPT !.quiet = quiet, !.cursor = journal.cursor, !.polls = @ + 1]
    <3>2. o.phase = "document" /\ GoOn(o, m)
      BY <1>0, <2>1, <3>1
    <3> HIDE DEF o
    <3> QED
      BY <1>a, <3>2
  <2>4. CASE \E m : GoOn([op EXCEPT !.phase = "width"], m)
    <3> DEFINE o == [op EXCEPT !.phase = "width"]
    <3>1. PICK m : GoOn(o, m)
      BY <2>4
    <3>2. o.phase = "width"
      BY <1>0
    <3> HIDE DEF o
    <3> QED
      BY <1>a, <3>1, <3>2
  <2> QED
    BY <1>0, <1>a, <1>b, <2>2, <2>3, <2>4
<1>5. CASE WidthAnswered \/ WithheldAnswered
  BY <1>0, <1>a, <1>b, <1>5 DEF WidthAnswered, WithheldAnswered
<1>6. CASE InputAnswered
  <2>1. op.phase = "input"
    BY <1>6 DEF InputAnswered
  <2>2. \/ \E result : Finish(result)
        \/ \E m : GoOn([op EXCEPT !.at = @ + 1], m)
        \/ op' = [op EXCEPT !.phase = "settle"] /\ captured' = captured
    BY <1>6 DEF InputAnswered
  <2> QED
    BY <1>0, <1>a, <2>1, <2>2
<1>7. CASE \E kind \in Operations : Perform(kind)
  BY <1>0, <1>a, <1>7 DEF Perform
<1>8. CASE SettleInput
  BY <1>0, <1>a, <1>b, <1>8 DEF SettleInput
<1>9. CASE AwaitLoading
  <2> DEFINE o == [op EXCEPT !.phase = "document", !.cursor = op.fence, !.cancelled = FALSE]
  <2>1. o.phase = "document" /\ (GoOn(o, "ready_state") \/ Fail)
    BY <1>0, <1>9 DEF AwaitLoading
  <2> HIDE DEF o
  <2> QED
    BY <1>a, <1>b, <2>1
<1>10. CASE ConnectClient
  <2>1. op = NoOp /\ captured' = captured
    BY <1>10 DEF ConnectClient, StageInv, PhaseInv
  <2>2. op' = op \/ op' = Operation("launch", "setup")
    BY <1>10 DEF ConnectClient
  <2>3. Operation("launch", "setup").phase = "setup"
    BY <1>0
  <2> QED
    BY <1>0, <2>1, <2>2, <2>3
<1>11. CASE SetupAnswered
  BY <1>0, <1>a, <1>11 DEF SetupAnswered
<1>12. CASE Cancel
  BY <1>0, <1>12 DEF Cancel
<1> QED
  BY <1>1, <1>2, <1>3, <1>4, <1>5, <1>6, <1>7, <1>8, <1>9, <1>10, <1>11, <1>12 DEF CallerSteps

(* What is known of the capture is right after every step.                  *)
LEMMA CaptureInductive ==
  ASSUME BaseInv, StageInv, CaptureGroup, CaptureIsOnePage, [Next]_vars
  PROVE  CaptureGroup' /\ CaptureIsOnePage'
<1>1. CASE CallerSteps
  <2>1. CASE CaptureAnswered
    BY <2>1, CapturesOn, ReturnedStays
  <2>2. CASE CleanupAnswered
    BY <2>2, CleansOn
  <2>3. CASE ~CaptureAnswered /\ ~CleanupAnswered
    <3>1. PopupInv'
      BY <1>1, CallerPopup DEF CaptureGroup
    <3> QED
      BY <1>1, <2>3, <3>1, CallerCaptures, NoCapture, CaptureStarts, ReturnedStays
  <2> QED
    BY <2>1, <2>2, <2>3
<1>2. CASE LifeSteps
  <2>1. UNCHANGED <<call, fromChrome, broken, journal, page, op, captured>>
    BY <1>2, LifeStepsAre DEF transport
  <2>2. Carries
    BY <2>1, CarriesStill
  <2>3. Steady
    BY <2>1 DEF Steady, BaseInv, PageTypes
  <2>4. PopupInv'
    BY <1>2, CallerPopup DEF CaptureGroup
  <2>5. PageTypes'
    BY <1>2, PageKept
  <2> QED
    BY <2>1, <2>2, <2>3, <2>4, <2>5, WatchMoves, ViewMoves, ReturnedStays DEF CaptureGroup
<1>3. CASE Close
  <2>1. op' = op /\ captured' = captured /\ op = NoOp /\ life'.at = "closing"
    BY <1>3, ClosedIs
  <2>2. PopupInv'
    BY <2>1 DEF PopupInv
  <2>3. op'.phase = "none"
    BY <2>1 DEF NoOp
  <2> QED
    BY <2>1, <2>2, <2>3, NoCapture, ReturnedStays
<1>4. CASE Elsewhere
  <2>1. op' = op /\ captured' = captured /\ life'.at = life.at
    BY <1>4 DEF Elsewhere, Bystanding
  <2>2. CASE ChromeHandles
    BY <2>1, <2>2, HandlesCapture, ReturnedStays
  <2>3. CASE ~ChromeHandles
    <3>1. Carries /\ Steady
      BY <1>4, <2>3, ElsewhereCarries, ElsewhereShows
    <3>2. PageTypes'
      BY <1>4, PageKept
    <3>3. PopupInv'
      BY <2>1, <3>1, PopupMoves DEF CaptureGroup
    <3> QED
      BY <2>1, <3>1, <3>2, <3>3, WatchMoves, ViewMoves, ReturnedStays DEF CaptureGroup
  <2> QED
    BY <2>2, <2>3
<1> QED
  BY <1>1, <1>2, <1>3, <1>4, NextIs

(* And it is so at first.                                                   *)
LEMMA CaptureInitially ==
  Init => CaptureGroup /\ CaptureIsOnePage
<1> SUFFICES ASSUME Init PROVE CaptureGroup /\ CaptureIsOnePage
  OBVIOUS
<1>1. op.phase = "none" /\ captured = <<>> /\ ~page.popup
  BY DEF Init, NoOp, InitChrome, NewPage
<1>2. DOMAIN captured = {}
  BY <1>1, Singles
<1> QED
  BY <1>1, <1>2 DEF CaptureGroup, PopupInv, WatchInv, ObserveInv, ShotInv, MatchInv, StableInv, Fenced, Capturing,
     MasksPlaced, CaptureIsOnePage

CaptureParts == BaseInv /\ StageInv /\ CaptureGroup /\ CaptureIsOnePage

(* CaptureIsOnePage: a returned capture is of one document, masked by the   *)
(* attempt that returns it, of one appearance where that is fenced, and with*)
(* every popup opened before, whatever the page did and whatever the journal*)
(* forgot meanwhile.  It is of one state of that document too, unless the   *)
(* document was committed after DomMutationWatch::start had read the one    *)
(* before it and was recorded before capture_once took its fence: nothing is*)
(* claimed of the changes of such a document.                               *)
THEOREM ACaptureShowsOnePage == Spec => []CaptureIsOnePage
<1>1. Init => CaptureParts
  BY BaseInitially, InputInitially, CaptureInitially DEF CaptureParts
<1>2. CaptureParts /\ [Next]_vars => CaptureParts'
  BY BaseInductive, StageInductive, CaptureInductive DEF CaptureParts
<1>3. CaptureParts => CaptureIsOnePage
  BY DEF CaptureParts
<1> QED
  BY <1>1, <1>2, <1>3, PTL DEF Spec
=============================================================================
