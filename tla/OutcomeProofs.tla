---------------------------- MODULE OutcomeProofs ----------------------------
(***************************************************************************)
(* For logs of any length, any checks and any reset times: what            *)
(* parse_events makes of a log line by line is what the log as a whole     *)
(* says, and so a run is worth what it deserves.                           *)
(***************************************************************************)
EXTENDS Outcome, FiniteSetTheorems, WellFoundedInduction, TLAPS

-----------------------------------------------------------------------------
(* What has been parsed of log l.                                          *)

IsLastRun(l, i, c) == Ran(l, i, c) /\ \A j \in DOMAIN l : Ran(l, j, c) => j <= i

LastInv(p, l) ==
  /\ DOMAIN p.last = Checks \cup {"revert"}
  /\ \A c \in Checks \cup {"revert"} :
       \/ p.last[c] = Never /\ \A i \in DOMAIN l : ~Ran(l, i, c)
       \/ \E i \in DOMAIN l : IsLastRun(l, i, c) /\ l[i].exit = p.last[c]
  /\ p.reversions = {i \in DOMAIN l : Ran(l, i, "revert") /\ l[i].exit # 1}

Coded(l, code) == \E i \in DOMAIN l : ~IsCommand(l[i]) /\ l[i].code = code

CategoryInv(p, l) ==
  /\ p.category \in {"none", "rate_limit", "authentication"}
  /\ p.category = "rate_limit" <=> Coded(l, "rate_limit")
  /\ p.category = "none" <=> ~Coded(l, "rate_limit") /\ ~Coded(l, "authentication")
  /\ p.notice = IF Coded(l, "overage_allowed") THEN "overage_allowed" ELSE "none"

(* An error that the turn may still recover from.                          *)
Open(l, i) ==
  /\ l[i].kind = "error"
  /\ \A k \in DOMAIN l : i <= k =>
       l[k].kind \notin {"turn.started", "turn.failed", "turn.completed"}

ErrorInv(p, l) ==
  /\ p.errors = {[line |-> i, text |-> l[i].text] :
                   i \in {j \in DOMAIN l : ~IsCommand(l[j]) /\ IsError(l[j])}}
  /\ p.resets = {[line |-> i, at |-> l[i].reset] :
                   i \in {j \in DOMAIN l : ~IsCommand(l[j]) /\ l[j].reset # NoReset}}
  /\ p.turn = {i \in DOMAIN l : Open(l, i)}
  /\ p.recovered = {i \in DOMAIN l : Recovered(l, i)}

AllTexts == Texts \cup {"none", "empty"}

Parsed ==
  [errors : SUBSET [line : Nat, text : AllTexts], turn : SUBSET Nat, recovered : SUBSET Nat,
   resets : SUBSET [line : Nat, at : Nat],
   category : {"none", "rate_limit", "authentication"}, notice : {"none", "overage_allowed"},
   last : [Checks \cup {"revert"} -> Nat], reversions : SUBSET Nat]

ReadInv ==
  /\ log \in Seq(Events)
  /\ parsed \in Parsed
  /\ LastInv(parsed, log) /\ CategoryInv(parsed, log) /\ ErrorInv(parsed, log)

(* What finalize_run is told is what the log says.                         *)
Agrees(ev, tr) ==
  /\ ev.failed \in BOOLEAN /\ ev.failed = tr.unresolved
  /\ ~ev.failed => ev.texts = {}
  /\ \A c \in Checks : /\ ev.check[c] \in {"passed", "failed", "not_run"}
                       /\ ev.check[c] = "passed" <=> c \in tr.passed
  /\ ev.reverted \in BOOLEAN /\ ev.reverted = tr.reverted
  /\ ev.category \in {"none", "rate_limit", "authentication"}
  /\ ev.category = "rate_limit" <=> "rate_limit" \in tr.codes
  /\ ev.category = "none" <=> tr.codes \cap {"rate_limit", "authentication"} = {}
  /\ ev.notice = IF "overage_allowed" \in tr.codes THEN "overage_allowed" ELSE "none"
  /\ ev.reset = tr.reset /\ ev.reset \in Resets \cup {NoReset}

StageInv ==
  /\ harness \in {"codex", "claude"} /\ stage \in {"running", "parsed", "decided"}
  /\ stage # "running" => Agrees(evidence, truth)
  /\ stage = "decided" => input \in Inputs /\ outcome = Decision(input, evidence)

IInv == ReadInv /\ StageInv /\ Len(log) <= MaxEvents

-----------------------------------------------------------------------------
(* Events, and a log with one more of them.                                *)

Codes == {"none", "rate_limit", "authentication", "overage_allowed"}

LEMMA Numbers == NoReset \in Nat /\ Unknown \in Nat /\ 0 \in Nat /\ 1 \in Nat
BY DEF NoReset, Unknown

LEMMA EventFacts ==
  ASSUME NEW e \in Events
  PROVE  /\ IsCommand(e) => /\ e.command \in Checks \cup {"revert"}
                            /\ e.exit \in {0, 1, Unknown}
         /\ ~IsCommand(e) => /\ e.text \in AllTexts
                             /\ e.reset \in Resets \cup {NoReset} /\ e.code \in Codes
         /\ e.kind = "error" => ~IsCommand(e) /\ e.code = "none"
<1> DEFINE Kinds == {"garbled", "turn.started", "turn.completed", "turn.failed", "error",
                     "result", "api_retry", "rate_limit_event"}
           Ordered == /\ IsCommand(e) /\ e.kind # "error"
                      /\ e.command \in Checks \cup {"revert"}
                      /\ e.exit \in {0, 1, Unknown}
           Shaped(k, t, code, r) == (k = "error" => code = "none") /\ e = Event(k, t, code, r)
           Known == \/ Ordered
                    \/ \E k \in Kinds, t \in AllTexts, code \in Codes,
                          r \in Resets \cup {NoReset} : Shaped(k, t, code, r)
<1>1. ASSUME NEW k \in Kinds, NEW t \in AllTexts, NEW code \in Codes,
             NEW r \in Resets \cup {NoReset}, Shaped(k, t, code, r)
      PROVE  /\ ~IsCommand(e) /\ e.text \in AllTexts
             /\ e.reset \in Resets \cup {NoReset} /\ e.code \in Codes
             /\ e.kind = "error" => e.code = "none"
  BY <1>1 DEF Event, IsCommand
<1>2. ASSUME NEW k \in Kinds, NEW t \in AllTexts, NEW code \in Codes,
             NEW r \in Resets \cup {NoReset}, k = "error" => code = "none", e = Event(k, t, code, r)
      PROVE  Known
  BY <1>2
<1>3. ASSUME Ordered PROVE Known
  BY <1>3
<1> HIDE DEF Known
<1>4. AllTexts = {"plain", "limit", "auth", "none", "empty"}
  BY DEF AllTexts, Texts
<1>5. {"none", "rate_limit", "authentication", "overage_allowed"} = Codes
  BY DEF Codes
<1>6. ASSUME e = Garbled PROVE Known
  BY <1>2, <1>4, <1>5, <1>6 DEF Garbled
<1>7. ASSUME e \in CodexEvents PROVE Known
  <2>1. CASE e \in {Event(k, "none", "none", NoReset) : k \in {"turn.started", "turn.completed"}}
    BY <1>2, <1>4, <1>5, <2>1
  <2>2. CASE e \in {Event(k, t, "none", NoReset) : k \in {"turn.failed", "error"},
                                                     t \in Texts \cup {"empty"}}
    BY <1>2, <1>5, <2>2 DEF AllTexts
  <2>3. CASE e \in {Event(k, "limit", "none", r) : k \in {"turn.failed", "error"}, r \in Resets}
    BY <1>2, <1>4, <1>5, <2>3
  <2>4. CASE e \in {Command(c, x) : c \in Checks \cup {"revert"}, x \in {0, 1, Unknown}}
    <3>1. Ordered
      BY <2>4 DEF Command, IsCommand
    <3> QED
      BY <1>3, <3>1
  <2> QED
    BY <1>6, <1>7, <2>1, <2>2, <2>3, <2>4 DEF CodexEvents
<1>8. ASSUME e \in ClaudeEvents PROVE Known
  <2>1. CASE e \in {Event("result", t, "none", NoReset) : t \in Texts \cup {"none", "empty"}}
    BY <1>2, <1>5, <2>1 DEF AllTexts
  <2>2. CASE e \in {Event("result", t, c, NoReset) :
                      t \in {"plain", "empty"}, c \in {"rate_limit", "authentication"}}
    BY <1>2, <1>4, <1>5, <2>2
  <2>3. CASE e \in {Event("api_retry", "none", c, NoReset) : c \in {"rate_limit", "authentication"}}
    BY <1>2, <1>4, <1>5, <2>3
  <2>4. CASE e \in {Event("rate_limit_event", "none", "rate_limit", r) : r \in Resets \cup {NoReset}}
    BY <1>2, <1>4, <1>5, <2>4
  <2>5. CASE e = Event("rate_limit_event", "none", "overage_allowed", NoReset)
    BY <1>2, <1>4, <1>5, <2>5
  <2>6. CASE e \in {Command(c, x) : c \in Checks \cup {"revert"}, x \in {0, 1}}
    <3>1. Ordered
      BY <2>6 DEF Command, IsCommand
    <3> QED
      BY <1>3, <3>1
  <2>7. CASE e \in {Denied(c) : c \in Checks \cup {"revert"}}
    <3>1. Ordered
      BY <2>7 DEF Denied, IsCommand
    <3> QED
      BY <1>3, <3>1
  <2> QED
    BY <1>6, <1>8, <2>1, <2>2, <2>3, <2>4, <2>5, <2>6, <2>7 DEF ClaudeEvents
<1>9. Known
  BY <1>7, <1>8 DEF Events
<1> QED
  BY <1>1, <1>9 DEF Known

LEMMA Appending ==
  ASSUME NEW l \in Seq(Events), NEW e \in Events, NEW m, m = Append(l, e),
         NEW n, n = Len(l) + 1
  PROVE  /\ n \in Nat /\ m[n] = e /\ n \notin DOMAIN l /\ n \in DOMAIN m
         /\ DOMAIN l \subseteq Nat /\ DOMAIN m = DOMAIN l \cup {n}
         /\ \A i \in DOMAIN l : m[i] = l[i] /\ i < n /\ l[i] \in Events
OBVIOUS

(* What reading line n does to each field.                                 *)
StillOpen(p, e) == IF StartsTurn(e) THEN {} ELSE p.turn

OpenAfter(p, e, n) ==
  CASE e.kind = "error"          -> StillOpen(p, e) \cup {n}
    [] e.kind = "turn.completed" -> {}
    [] OTHER                     -> StillOpen(p, e)

Reads(p, e, n, q) ==
  /\ q \in Parsed
  /\ IsCommand(e) =>
       /\ q.errors = p.errors /\ q.turn = p.turn /\ q.recovered = p.recovered
       /\ q.resets = p.resets /\ q.category = p.category /\ q.notice = p.notice
       /\ q.last = IF e.kind = "denied" THEN p.last ELSE [p.last EXCEPT ![e.command] = e.exit]
       /\ q.reversions = p.reversions \cup
            IF e.kind = "command" /\ SelfReversion(e) THEN {n} ELSE {}
  /\ ~IsCommand(e) =>
       /\ q.last = p.last /\ q.reversions = p.reversions
       /\ q.category = NextCategory(p.category, e)
       /\ q.notice = IF e.code = "overage_allowed" THEN e.code ELSE p.notice
       /\ q.errors = p.errors \cup IF IsError(e) THEN {[line |-> n, text |-> e.text]} ELSE {}
       /\ q.turn = OpenAfter(p, e, n)
       /\ q.recovered = p.recovered \cup
            IF e.kind = "turn.completed" THEN StillOpen(p, e) ELSE {}
       /\ q.resets = p.resets \cup
            IF e.reset # NoReset THEN {[line |-> n, at |-> e.reset]} ELSE {}

LEMMA ReadFields ==
  ASSUME NEW p \in Parsed, NEW e \in Events, NEW n \in Nat
  PROVE  Reads(p, e, n, ReadLine(p, e, n))
<1> DEFINE q == ReadLine(p, e, n)
<1>1. CASE IsCommand(e)
  <2> DEFINE last == [p.last EXCEPT ![e.command] = e.exit]
             reversions == p.reversions \cup IF SelfReversion(e) THEN {n} ELSE {}
  <2>1. e.exit \in Nat
    BY <1>1, EventFacts, Numbers
  <2>2. last \in [Checks \cup {"revert"} -> Nat] /\ reversions \in SUBSET Nat
    BY <2>1 DEF Parsed
  <2>3. q = IF e.kind = "denied" THEN p
            ELSE [p EXCEPT !.last = last, !.reversions = reversions]
    BY <1>1 DEF ReadLine, ReadCommand
  <2>4. e.kind # "denied" <=> e.kind = "command"
    BY <1>1 DEF IsCommand
  <2> HIDE DEF last, reversions
  <2>5. CASE e.kind = "denied"
    BY <1>1, <2>3, <2>4, <2>5 DEF Reads, IsCommand
  <2>6. CASE e.kind = "command"
    <3>1. /\ q \in Parsed /\ q.last = last /\ q.reversions = reversions
          /\ q.errors = p.errors /\ q.turn = p.turn /\ q.recovered = p.recovered
          /\ q.resets = p.resets /\ q.category = p.category /\ q.notice = p.notice
      BY <2>2, <2>3, <2>6 DEF Parsed
    <3> QED
      BY <1>1, <2>6, <3>1 DEF Reads, last, reversions
  <2> QED
    BY <2>4, <2>5, <2>6
<1>2. CASE ~IsCommand(e)
  <2> DEFINE turn == StillOpen(p, e)
             turnAfter == OpenAfter(p, e, n)
             category == NextCategory(p.category, e)
             notice == IF e.code = "overage_allowed" THEN e.code ELSE p.notice
             errors == p.errors \cup IF IsError(e) THEN {[line |-> n, text |-> e.text]} ELSE {}
             recovered == p.recovered \cup IF e.kind = "turn.completed" THEN turn ELSE {}
             resets == p.resets \cup
                         IF e.reset # NoReset THEN {[line |-> n, at |-> e.reset]} ELSE {}
  <2>1. e.text \in AllTexts /\ e.reset \in Nat /\ e.code \in Codes
    <3>1. e.reset \in Resets \cup {NoReset} /\ e.text \in AllTexts
      BY <1>2, EventFacts
    <3>2. Resets \subseteq Nat
      BY OutcomeAssumption
    <3>3. e.code \in Codes
      BY <1>2, EventFacts
    <3>4. e.reset \in Nat
      BY <3>1, <3>2, Numbers
    <3> QED
      BY <3>1, <3>3, <3>4
  <2>2. /\ turn \in SUBSET Nat /\ turnAfter \in SUBSET Nat /\ recovered \in SUBSET Nat
    BY DEF Parsed, StillOpen, OpenAfter
  <2>3. /\ category \in {"none", "rate_limit", "authentication"}
        /\ notice \in {"none", "overage_allowed"}
        /\ errors \in SUBSET [line : Nat, text : AllTexts]
        /\ resets \in SUBSET [line : Nat, at : Nat]
    BY <2>1 DEF Parsed, NextCategory
  <2>4. q = [p EXCEPT !.category = category, !.notice = notice,
                      !.errors = errors, !.turn = turnAfter, !.recovered = recovered,
                      !.resets = resets]
    BY <1>2 DEF ReadLine, ReadEvent, StillOpen, OpenAfter
  <2> HIDE DEF turnAfter, category, notice, errors, recovered, resets
  <2>5. /\ q \in Parsed /\ q.last = p.last /\ q.reversions = p.reversions
        /\ q.category = category /\ q.notice = notice
        /\ q.errors = errors /\ q.turn = turnAfter /\ q.recovered = recovered
        /\ q.resets = resets
    BY <2>2, <2>3, <2>4 DEF Parsed
  <2> QED
    BY <1>2, <2>5 DEF Reads, turnAfter, category, notice, errors, recovered, resets
<1> QED
  BY <1>1, <1>2

-----------------------------------------------------------------------------
(* Each line keeps what has been parsed in step with the log.              *)

LEMMA LastStep ==
  ASSUME NEW l \in Seq(Events), NEW e \in Events, NEW p \in Parsed, LastInv(p, l)
  PROVE  LastInv(ReadLine(p, e, Len(l) + 1), Append(l, e))
<1> DEFINE m == Append(l, e)
           n == Len(l) + 1
           q == ReadLine(p, e, n)
<1>1. /\ n \in Nat /\ m[n] = e /\ n \notin DOMAIN l /\ n \in DOMAIN m
      /\ DOMAIN l \subseteq Nat /\ DOMAIN m = DOMAIN l \cup {n}
      /\ \A i \in DOMAIN l : m[i] = l[i] /\ i < n
  BY Appending
<1>2. Reads(p, e, n, q)
  BY <1>1, ReadFields
<1>3. IsCommand(e) => e.command \in Checks \cup {"revert"} /\ e.exit \in {0, 1, Unknown}
  BY EventFacts
<1> HIDE DEF m, n, q
<1>4. \A c : Ran(m, n, c) <=> e.kind = "command" /\ e.command = c
  BY <1>1 DEF Ran
<1>5. \A i \in DOMAIN l : \A c : Ran(m, i, c) <=> Ran(l, i, c)
  BY <1>1 DEF Ran
<1>6. DOMAIN q.last = Checks \cup {"revert"}
  BY <1>2 DEF Parsed, Reads
<1>7. q.reversions = {i \in DOMAIN m : Ran(m, i, "revert") /\ m[i].exit # 1}
  <2>1. q.reversions = p.reversions \cup IF Ran(m, n, "revert") /\ e.exit # 1 THEN {n} ELSE {}
    <3>1. CASE e.kind = "command"
      <4>1. SelfReversion(e) <=> e.command = "revert" /\ e.exit # 1
        BY <1>3, <3>1 DEF SelfReversion, Unknown, IsCommand
      <4> QED
        BY <1>2, <1>4, <3>1, <4>1 DEF Reads, IsCommand
    <3>2. CASE e.kind # "command"
      BY <1>2, <1>4, <3>2 DEF Reads
    <3> QED
      BY <3>1, <3>2
  <2>2. p.reversions = {i \in DOMAIN l : Ran(m, i, "revert") /\ m[i].exit # 1}
    BY <1>1, <1>5 DEF LastInv
  <2> QED
    BY <1>1, <2>1, <2>2
<1>8. ASSUME NEW c \in Checks \cup {"revert"}
      PROVE  \/ q.last[c] = Never /\ \A i \in DOMAIN m : ~Ran(m, i, c)
             \/ \E i \in DOMAIN m : IsLastRun(m, i, c) /\ m[i].exit = q.last[c]
  <2>1. CASE Ran(m, n, c)
    <3>1. q.last[c] = e.exit
      <4>1. e.kind = "command" /\ e.command = c /\ IsCommand(e)
        BY <1>4, <2>1 DEF IsCommand
      <4>2. q.last = [p.last EXCEPT ![c] = e.exit]
        BY <1>2, <4>1 DEF Reads
      <4> QED
        BY <4>2 DEF Parsed
    <3>2. IsLastRun(m, n, c)
      BY <1>1, <2>1 DEF IsLastRun
    <3> QED
      BY <1>1, <3>1, <3>2
  <2>2. CASE ~Ran(m, n, c)
    <3>1. q.last[c] = p.last[c]
      <4>1. CASE e.kind = "command"
        <5>1. e.command # c /\ e.command \in Checks \cup {"revert"}
          BY <1>3, <1>4, <2>2, <4>1 DEF IsCommand
        <5>2. q.last = [p.last EXCEPT ![e.command] = e.exit]
          BY <1>2, <4>1 DEF Reads, IsCommand
        <5> QED
          BY <5>1, <5>2 DEF Parsed
      <4>2. CASE e.kind # "command"
        BY <1>2, <4>2 DEF Reads, IsCommand
      <4> QED
        BY <4>1, <4>2
    <3>2. \A i \in DOMAIN l : IsLastRun(l, i, c) => IsLastRun(m, i, c)
      BY <1>1, <1>5, <2>2 DEF IsLastRun
    <3> QED
      BY <1>1, <1>5, <2>2, <3>1, <3>2 DEF LastInv
  <2> QED
    BY <2>1, <2>2
<1>9. LastInv(q, m)
  BY <1>6, <1>7, <1>8 DEF LastInv
<1> QED
  BY <1>9 DEF m, n, q

LEMMA CategoryStep ==
  ASSUME NEW l \in Seq(Events), NEW e \in Events, NEW p \in Parsed, CategoryInv(p, l)
  PROVE  CategoryInv(ReadLine(p, e, Len(l) + 1), Append(l, e))
<1> DEFINE m == Append(l, e)
           n == Len(l) + 1
           q == ReadLine(p, e, n)
<1>1. /\ n \in Nat /\ m[n] = e /\ DOMAIN m = DOMAIN l \cup {n}
      /\ \A i \in DOMAIN l : m[i] = l[i]
  BY Appending
<1>2. Reads(p, e, n, q)
  BY <1>1, ReadFields
<1>3. ~IsCommand(e) => e.code \in {"none", "rate_limit", "authentication", "overage_allowed"}
  BY EventFacts DEF Codes
<1> HIDE DEF m, n, q
<1>4. \A code : Coded(m, code) <=> Coded(l, code) \/ (~IsCommand(e) /\ e.code = code)
  BY <1>1 DEF Coded
<1>5. CategoryInv(q, m)
  BY <1>2, <1>3, <1>4 DEF CategoryInv, NextCategory, Reads
<1> QED
  BY <1>5 DEF m, n, q

LEMMA ErrorStep ==
  ASSUME NEW l \in Seq(Events), NEW e \in Events, NEW p \in Parsed, ErrorInv(p, l)
  PROVE  ErrorInv(ReadLine(p, e, Len(l) + 1), Append(l, e))
<1> DEFINE m == Append(l, e)
           n == Len(l) + 1
           q == ReadLine(p, e, n)
<1>1. /\ n \in Nat /\ m[n] = e /\ n \notin DOMAIN l /\ n \in DOMAIN m
      /\ DOMAIN l \subseteq Nat /\ DOMAIN m = DOMAIN l \cup {n}
      /\ \A i \in DOMAIN l : m[i] = l[i] /\ i < n
  BY Appending
<1>2. DOMAIN l = 1..(n - 1)
  OBVIOUS
<1>3. Reads(p, e, n, q)
  BY <1>1, ReadFields
<1>4. e.kind = "error" => ~IsCommand(e)
  BY EventFacts
<1> HIDE DEF m, n, q
<1>5. q.errors = {[line |-> i, text |-> m[i].text] :
                    i \in {j \in DOMAIN m : ~IsCommand(m[j]) /\ IsError(m[j])}}
  <2>1. p.errors = {[line |-> i, text |-> m[i].text] :
                      i \in {j \in DOMAIN l : ~IsCommand(m[j]) /\ IsError(m[j])}}
    BY <1>1 DEF ErrorInv
  <2>2. q.errors = p.errors \cup IF ~IsCommand(e) /\ IsError(e)
                                   THEN {[line |-> n, text |-> e.text]} ELSE {}
    BY <1>3 DEF Reads
  <2> QED
    BY <1>1, <2>1, <2>2
<1>6. q.resets = {[line |-> i, at |-> m[i].reset] :
                    i \in {j \in DOMAIN m : ~IsCommand(m[j]) /\ m[j].reset # NoReset}}
  <2>1. p.resets = {[line |-> i, at |-> m[i].reset] :
                      i \in {j \in DOMAIN l : ~IsCommand(m[j]) /\ m[j].reset # NoReset}}
    BY <1>1 DEF ErrorInv
  <2>2. q.resets = p.resets \cup IF ~IsCommand(e) /\ e.reset # NoReset
                                   THEN {[line |-> n, at |-> e.reset]} ELSE {}
    BY <1>3 DEF Reads
  <2> QED
    BY <1>1, <2>1, <2>2
<1>7. q.turn = {i \in DOMAIN m : Open(m, i)}
  <2>1. \A i \in DOMAIN l :
          Open(m, i) <=> Open(l, i)
                         /\ e.kind \notin {"turn.started", "turn.failed", "turn.completed"}
    BY <1>1 DEF Open
  <2>2. Open(m, n) <=> e.kind = "error"
    BY <1>1 DEF Open
  <2>3. p.turn = {i \in DOMAIN l : Open(l, i)}
    BY DEF ErrorInv
  <2>4. CASE IsCommand(e)
    BY <1>1, <1>3, <2>1, <2>2, <2>3, <2>4 DEF Reads, IsCommand
  <2>5. CASE ~IsCommand(e)
    BY <1>1, <1>3, <2>1, <2>2, <2>3, <2>5 DEF Reads, OpenAfter, StillOpen, StartsTurn
  <2> QED
    BY <2>4, <2>5
<1>8. q.recovered = {i \in DOMAIN m : Recovered(m, i)}
  <2>1. ASSUME NEW i \in DOMAIN l
        PROVE  Recovered(m, i) <=> Recovered(l, i) \/ (e.kind = "turn.completed" /\ Open(l, i))
    <3>1. ASSUME Recovered(l, i) PROVE Recovered(m, i)
      BY <1>1, <1>2, <3>1 DEF Recovered
    <3>2. ASSUME e.kind = "turn.completed", Open(l, i) PROVE Recovered(m, i)
      <4>1. \A k \in i..n : m[k].kind \notin {"turn.started", "turn.failed"}
        BY <1>1, <1>2, <3>2 DEF Open
      <4> QED
        BY <1>1, <3>2, <4>1 DEF Recovered, Open
    <3>3. ASSUME Recovered(m, i), ~Recovered(l, i)
          PROVE  e.kind = "turn.completed" /\ Open(l, i)
      <4>1. PICK j \in DOMAIN m : /\ i < j /\ m[j].kind = "turn.completed"
                                  /\ \A k \in i..j : m[k].kind \notin {"turn.started", "turn.failed"}
        BY <3>3 DEF Recovered
      <4>2. l[i].kind = "error"
        BY <1>1, <3>3 DEF Recovered
      <4>3. j = n
        <5>1. ASSUME j \in DOMAIN l PROVE FALSE
          <6>1. \A k \in i..j : l[k].kind \notin {"turn.started", "turn.failed"}
            BY <1>1, <1>2, <4>1, <5>1
          <6> QED
            BY <1>1, <3>3, <4>1, <4>2, <5>1, <6>1 DEF Recovered
        <5> QED
          BY <1>1, <5>1
      <4>4. \A k \in DOMAIN l : i <= k => l[k].kind \notin {"turn.started", "turn.failed"}
        BY <1>1, <1>2, <4>1, <4>3
      <4>5. ASSUME NEW k \in DOMAIN l, i <= k, l[k].kind = "turn.completed" PROVE FALSE
        <5>1. i < k
          BY <1>1, <4>2, <4>5
        <5>2. \A x \in i..k : l[x].kind \notin {"turn.started", "turn.failed"}
          BY <1>1, <1>2, <4>4
        <5> QED
          BY <3>3, <4>2, <4>5, <5>1, <5>2 DEF Recovered
      <4> QED
        BY <1>1, <4>1, <4>2, <4>3, <4>4, <4>5 DEF Open
    <3> QED
      BY <3>1, <3>2, <3>3
  <2>2. ~Recovered(m, n)
    BY <1>1 DEF Recovered
  <2>3. /\ p.turn = {i \in DOMAIN l : Open(l, i)}
        /\ p.recovered = {i \in DOMAIN l : Recovered(l, i)}
    BY DEF ErrorInv
  <2>4. q.recovered = p.recovered \cup IF e.kind = "turn.completed" THEN p.turn ELSE {}
    BY <1>3 DEF Reads, StillOpen, StartsTurn, IsCommand
  <2> QED
    BY <1>1, <2>1, <2>2, <2>3, <2>4
<1>9. ErrorInv(q, m)
  BY <1>5, <1>6, <1>7, <1>8 DEF ErrorInv
<1> QED
  BY <1>9 DEF m, n, q

LEMMA ReadStep ==
  ASSUME NEW e \in Events, ReadInv, log' = Append(log, e),
         parsed' = ReadLine(parsed, e, Len(log) + 1), harness' = harness
  PROVE  ReadInv'
<1>1. log' \in Seq(Events)
  BY DEF ReadInv
<1>2. Events' = Events
  BY DEF Events
<1>3. parsed' \in Parsed
  <2>1. Len(log) + 1 \in Nat /\ parsed \in Parsed
    BY DEF ReadInv
  <2>2. Reads(parsed, e, Len(log) + 1, parsed')
    BY <2>1, ReadFields
  <2> QED
    BY <2>2 DEF Reads
<1>4. LastInv(parsed', log') /\ CategoryInv(parsed', log') /\ ErrorInv(parsed', log')
  BY LastStep, CategoryStep, ErrorStep DEF ReadInv
<1> QED
  BY <1>1, <1>2, <1>3, <1>4 DEF ReadInv, LastInv, CategoryInv, ErrorInv

-----------------------------------------------------------------------------
(* A finite set of numbers has a greatest one: among the subsets without   *)
(* one a least one would remain so without any of its elements.            *)
LEMMA GreatestExists ==
  ASSUME NEW S, IsFiniteSet(S), S \subseteq Nat, S # {}
  PROVE  \E x \in S : \A y \in S : y <= x
<1> DEFINE HasGreatest(U) == \E x \in U : \A y \in U : y <= x
           Bad == {U \in SUBSET S : U # {} /\ ~HasGreatest(U)}
           R == StrictSubsetOrdering(S)
<1> SUFFICES Bad = {}
  BY DEF Bad
<1>1. FiniteSubsetsOf(S) = SUBSET S /\ IsWellFoundedOn(R, FiniteSubsetsOf(S))
  BY FS_FiniteSubsetsOfFinite, FS_StrictSubsetOrderingWellFounded
<1>2. ASSUME Bad # {} PROVE FALSE
  <2>1. PICK U \in Bad : \A V \in Bad : <<V, U>> \notin R
    <3>1. Bad \subseteq FiniteSubsetsOf(S)
      BY <1>1
    <3> HIDE DEF Bad, R
    <3> QED
      BY <1>1, <1>2, <3>1, WFMin
  <2>2. PICK x \in U : TRUE
    OBVIOUS
  <2>3. PICK y \in U : ~(y <= x)
    BY <2>2
  <2> DEFINE V == U \ {x}
  <2>4. V \in SUBSET S /\ V # {} /\ <<V, U>> \in R
    <3>1. U \in SUBSET S /\ x \in Nat /\ y \in Nat
      BY <2>2
    <3>2. V \in SUBSET S /\ V \subseteq U /\ V # U
      BY <2>2, <3>1
    <3>3. V # {}
      BY <2>3, <3>1
    <3> QED
      BY <3>1, <3>2, <3>3 DEF StrictSubsetOrdering
  <2>5. HasGreatest(V)
    BY <2>1, <2>4
  <2>6. PICK z \in V : \A v \in V : v <= z
    BY <2>5
  <2>7. \A v \in U : v <= z
    <3>1. x \in Nat /\ y \in Nat /\ z \in Nat /\ y \in V
      BY <2>2, <2>3, <2>6
    <3> QED
      BY <2>3, <2>6, <3>1
  <2> QED
    BY <2>6, <2>7
<1> QED
  BY <1>2

LEMMA LatestType ==
  ASSUME NEW times \in SUBSET Resets
  PROVE  Latest(times) \in Resets \cup {NoReset}
<1>1. CASE times = {}
  BY <1>1 DEF Latest
<1>2. CASE times # {}
  <2>1. IsFiniteSet(times) /\ times \subseteq Nat
    BY OutcomeAssumption, FS_Subset
  <2>2. \E x \in times : \A y \in times : y <= x
    BY <1>2, <2>1, GreatestExists
  <2>3. \E x \in times : \A y \in times : x >= y
    BY <2>1, <2>2
  <2>4. Max(times) \in times
    BY <2>3 DEF Max
  <2> QED
    BY <1>2, <2>4 DEF Latest
<1> QED
  BY <1>1, <1>2

-----------------------------------------------------------------------------
(* What finalize_run is told when the log has been read.                   *)

LEMMA EvidenceAgrees == ReadInv => Agrees(Evidence(parsed), Truth(log))
<1> SUFFICES ASSUME ReadInv PROVE Agrees(Evidence(parsed), Truth(log))
  OBVIOUS
<1> DEFINE ev == Evidence(parsed)
           tr == Truth(log)
<1>1. /\ log \in Seq(Events) /\ parsed \in Parsed
      /\ LastInv(parsed, log) /\ CategoryInv(parsed, log) /\ ErrorInv(parsed, log)
  BY DEF ReadInv
<1>2. \A i \in DOMAIN log : log[i] \in Events
  BY <1>1
<1>3. \A i \in DOMAIN log : log[i].kind = "error" =>
        ~IsCommand(log[i]) /\ log[i].code = "none"
  BY <1>2, EventFacts
<1>4. /\ ev.failed <=> StandingErrors(parsed) # {}
      /\ ev.texts = {x.text : x \in LastThree(StandingErrors(parsed))}
      /\ \A c \in Checks : ev.check[c] = CheckResult(parsed, c)
      /\ ev.reverted <=> parsed.reversions # {}
      /\ ev.category = parsed.category /\ ev.notice = parsed.notice
      /\ ev.reset = StandingReset(parsed)
      /\ ev.failed \in BOOLEAN /\ ev.reverted \in BOOLEAN
  BY DEF Evidence
<1>5. /\ tr.passed = {c \in Checks : Passed(log, c)}
      /\ tr.reverted <=> \E i \in DOMAIN log : Ran(log, i, "revert") /\ log[i].exit # 1
      /\ tr.unresolved <=> \E i \in Standing(log) : IsError(log[i])
      /\ tr.codes = {log[i].code : i \in Standing(log)}
      /\ tr.reset = Latest({log[i].reset : i \in Standing(log)} \ {NoReset})
      /\ tr.reverted \in BOOLEAN /\ tr.unresolved \in BOOLEAN
  BY DEF Truth
<1> HIDE DEF ev, tr
<1>6. \A i \in DOMAIN log : i \in Standing(log) <=>
        ~IsCommand(log[i]) /\ i \notin parsed.recovered
  BY <1>1 DEF Standing, ErrorInv
<1>7. StandingErrors(parsed) =
        {[line |-> i, text |-> log[i].text] : i \in {j \in Standing(log) : IsError(log[j])}}
  BY <1>1, <1>6 DEF StandingErrors, ErrorInv, Standing
<1>8. ev.failed = tr.unresolved
  <2>1. StandingErrors(parsed) # {} <=> \E i \in Standing(log) : IsError(log[i])
    BY <1>7
  <2>2. ev.failed <=> tr.unresolved
    BY <1>4, <1>5, <2>1
  <2> QED
    BY <1>4, <1>5, <2>2
<1>9. ~ev.failed => ev.texts = {}
  BY <1>4 DEF LastThree
<1>10. ASSUME NEW c \in Checks
       PROVE  /\ ev.check[c] \in {"passed", "failed", "not_run"}
              /\ ev.check[c] = "passed" <=> c \in tr.passed
  <2>1. ev.check[c] = CheckResult(parsed, c) /\ (c \in tr.passed <=> Passed(log, c))
    BY <1>4, <1>5
  <2>2. \/ parsed.last[c] = Never /\ \A i \in DOMAIN log : ~Ran(log, i, c)
        \/ \E i \in DOMAIN log : IsLastRun(log, i, c) /\ log[i].exit = parsed.last[c]
    BY <1>1 DEF LastInv
  <2>3. Passed(log, c) <=> \E i \in DOMAIN log : IsLastRun(log, i, c) /\ log[i].exit = 0
    BY DEF Passed, IsLastRun
  <2>4. \A i, j \in DOMAIN log : IsLastRun(log, i, c) /\ IsLastRun(log, j, c) => i = j
    BY <1>1 DEF IsLastRun
  <2>5. Passed(log, c) <=> parsed.last[c] = 0
    BY <2>2, <2>3, <2>4 DEF Never, IsLastRun
  <2> QED
    BY <2>1, <2>5 DEF CheckResult, Never, Unknown
<1>11. ev.reverted = tr.reverted
  BY <1>1, <1>4, <1>5 DEF LastInv
<1>12. \A code : code # "none" => (code \in tr.codes <=> Coded(log, code))
  <2>1. \A i \in DOMAIN log : ~IsCommand(log[i]) /\ log[i].code # "none" => i \in Standing(log)
    BY <1>3 DEF Standing, Recovered
  <2> QED
    BY <1>5, <2>1 DEF Coded, Standing
<1>13. /\ ev.category \in {"none", "rate_limit", "authentication"}
       /\ ev.category = "rate_limit" <=> "rate_limit" \in tr.codes
       /\ ev.category = "none" <=> tr.codes \cap {"rate_limit", "authentication"} = {}
       /\ ev.notice = IF "overage_allowed" \in tr.codes THEN "overage_allowed" ELSE "none"
  BY <1>1, <1>4, <1>12 DEF CategoryInv
<1>14. ev.reset = tr.reset /\ ev.reset \in Resets \cup {NoReset}
  <2> DEFINE times == {log[i].reset : i \in Standing(log)} \ {NoReset}
  <2>1. {x.at : x \in {y \in parsed.resets : y.line \notin parsed.recovered}} = times
    <3>1. \A y : y \in parsed.resets <=>
            \E i \in DOMAIN log : /\ ~IsCommand(log[i]) /\ log[i].reset # NoReset
                                  /\ y = [line |-> i, at |-> log[i].reset]
      BY <1>1 DEF ErrorInv
    <3>2. \A y : y \in parsed.resets /\ y.line \notin parsed.recovered => y.at \in times
      BY <1>6, <3>1
    <3>3. ASSUME NEW i \in Standing(log), log[i].reset # NoReset
          PROVE  \E y \in parsed.resets : y.line \notin parsed.recovered /\ y.at = log[i].reset
      <4>1. i \in DOMAIN log /\ ~IsCommand(log[i]) /\ i \notin parsed.recovered
        BY <1>6 DEF Standing
      <4> DEFINE y == [line |-> i, at |-> log[i].reset]
      <4>2. y \in parsed.resets /\ y.line = i /\ y.at = log[i].reset
        BY <3>1, <3>3, <4>1
      <4> QED
        BY <4>1, <4>2
    <3> QED
      BY <3>2, <3>3
  <2>2. times \subseteq Resets
    BY <1>2, EventFacts DEF Standing
  <2>3. StandingReset(parsed) = Latest(times)
    BY <2>1 DEF StandingReset
  <2> QED
    BY <1>4, <1>5, <2>2, <2>3, LatestType
<1>15. Agrees(ev, tr)
  BY <1>4, <1>8, <1>9, <1>10, <1>11, <1>13, <1>14 DEF Agrees
<1> QED
  BY <1>15 DEF ev, tr

-----------------------------------------------------------------------------
(* The invariant.                                                          *)

LEMMA InitIInv == Init => IInv
<1> SUFFICES ASSUME Init PROVE IInv
  OBVIOUS
<1>1. log = <<>> /\ parsed = NothingParsed /\ stage = "running" /\ harness \in {"codex", "claude"}
  BY DEF Init
<1>2. log \in Seq(Events) /\ Len(log) <= MaxEvents /\ DOMAIN log = {}
  BY <1>1, OutcomeAssumption
<1>3. parsed \in Parsed
  BY <1>1, Numbers DEF NothingParsed, Parsed, Never
<1>4. LastInv(parsed, log) /\ CategoryInv(parsed, log) /\ ErrorInv(parsed, log)
  BY <1>1, <1>2 DEF NothingParsed, LastInv, CategoryInv, ErrorInv, Coded
<1> QED
  BY <1>1, <1>2, <1>3, <1>4 DEF IInv, ReadInv, StageInv

LEMMA IInvPreserved == IInv /\ [Next]_vars => IInv'
<1> SUFFICES ASSUME IInv, [Next]_vars PROVE IInv'
  OBVIOUS
<1>1. ReadInv /\ StageInv /\ Len(log) <= MaxEvents
  BY DEF IInv
<1>2. CASE Emit
  <2>1. PICK e \in Events : log' = Append(log, e) /\ parsed' = ReadLine(parsed, e, Len(log) + 1)
    BY <1>2 DEF Emit
  <2>2. ReadInv'
    BY <1>1, <1>2, <2>1, ReadStep DEF Emit
  <2>3. StageInv'
    BY <1>1, <1>2 DEF StageInv, Emit, Agrees
  <2>4. Len(log') <= MaxEvents
    BY <1>1, <1>2, <2>1, OutcomeAssumption DEF Emit, ReadInv
  <2> QED
    BY <2>2, <2>3, <2>4 DEF IInv
<1>3. CASE Parse
  <2>1. log' = <<>> /\ parsed' = NothingParsed /\ harness' = harness /\ Events' = Events
    BY <1>3 DEF Parse, Events
  <2>2. log' \in Seq(Events) /\ Len(log') <= MaxEvents /\ DOMAIN log' = {}
    BY <2>1, OutcomeAssumption
  <2>3. ReadInv'
    <3>1. parsed' \in Parsed
      BY <2>1, Numbers DEF NothingParsed, Parsed, Never
    <3>2. LastInv(parsed', log') /\ CategoryInv(parsed', log') /\ ErrorInv(parsed', log')
      BY <2>1, <2>2 DEF NothingParsed, LastInv, CategoryInv, ErrorInv, Coded
    <3> QED
      BY <2>1, <2>2, <3>1, <3>2 DEF ReadInv, LastInv, CategoryInv, ErrorInv
  <2>4. Agrees(evidence', truth')
    BY <1>1, <1>3, EvidenceAgrees DEF Parse
  <2>5. StageInv'
    BY <1>1, <1>3, <2>4 DEF StageInv, Parse, Agrees
  <2> QED
    BY <2>2, <2>3, <2>5 DEF IInv
<1>4. CASE Decide
  <2>1. /\ stage = "parsed" /\ stage' = "decided" /\ evidence' = evidence /\ truth' = truth
        /\ harness' = harness /\ log' = log /\ parsed' = parsed
        /\ input' \in Inputs /\ outcome' = Decision(input', evidence)
    BY <1>4 DEF Decide
  <2>2. ReadInv' /\ Len(log') <= MaxEvents
    BY <1>1, <2>1 DEF ReadInv, Events
  <2>3. StageInv'
    BY <1>1, <2>1 DEF StageInv
  <2> QED
    BY <2>2, <2>3 DEF IInv
<1>5. CASE UNCHANGED vars
  BY <1>1, <1>5 DEF vars, IInv, ReadInv, StageInv, Events
<1> QED
  BY <1>2, <1>3, <1>4, <1>5 DEF Next

LEMMA InvariantHolds == Spec => []IInv
BY InitIInv, IInvPreserved, PTL DEF Spec

-----------------------------------------------------------------------------
(* The decision.                                                           *)

LEMMA InputFacts ==
  ASSUME NEW in \in Inputs
  PROVE  /\ in.final.status \in Statuses \cup {"absent", "invalid"}
         /\ in.setting.write \in BOOLEAN /\ in.setting.changed \in BOOLEAN
         /\ in.setting.gitFails \in SUBSET GitChecks
         /\ in.setting.write => ~in.setting.changed
         /\ in.task.checks \subseteq Checks /\ in.task.verifiable \in BOOLEAN
         /\ in.exit \in {0, 1} /\ in.stderr \in StderrTexts
<1>1. /\ in.setting \in Settings /\ in.final \in Finals /\ in.task \in Tasks
      /\ in.exit \in {0, 1} /\ in.stderr \in StderrTexts
  BY DEF Inputs
<1>2. /\ in.setting.write \in BOOLEAN /\ in.setting.changed \in BOOLEAN
      /\ in.setting.gitFails \in SUBSET GitChecks
      /\ in.setting.write => ~in.setting.changed
  BY <1>1 DEF Settings
<1>3. in.task.checks \subseteq Checks /\ in.task.verifiable \in BOOLEAN
  BY <1>1 DEF Tasks
<1>4. in.final.status \in Statuses \cup {"absent", "invalid"}
  <2>1. CASE in.final \in [status : (Statuses \ {"discussion"}) \cup {"invalid", "absent"},
                           points : {FALSE}, error : FinalErrors]
    BY <2>1
  <2>2. CASE in.final \in [status : {"discussion"}, points : BOOLEAN, error : FinalErrors]
    BY <2>2 DEF Statuses
  <2> QED
    BY <1>1, <2>1, <2>2 DEF Finals
<1> QED
  BY <1>1, <1>2, <1>3, <1>4

(* What makes a run a success before the categories of a block are looked  *)
(* at, and what makes it blocked.                                          *)
LEMMA VerifiedFacts ==
  ASSUME NEW in \in Inputs, NEW ev, NEW tr, Agrees(ev, tr)
  PROVE  /\ Verified(in, ev) \in Statuses
         /\ Verified(in, ev) = "success" <=>
              /\ Reported(in, ev) = "success" /\ in.exit = 0 /\ ~ev.failed
              /\ in.task.checks \subseteq tr.passed
              /\ ~(in.task.checks = {} /\ in.task.verifiable)
              /\ ~Reverted(in, ev)
         /\ Reported(in, ev) = "success" =>
              in.final.status = "success" \/ (in.final.status = "absent" /\ in.exit = 0 /\ ~ev.failed)
<1>1. Reported(in, ev) \in Statuses
  BY InputFacts DEF Reported, Statuses
<1>2. Verified(in, ev) \in Statuses
  BY <1>1 DEF Verified, Statuses
<1>3. \A c \in Checks : /\ ev.check[c] \in {"passed", "failed", "not_run"}
                        /\ ev.check[c] = "passed" <=> c \in tr.passed
  BY DEF Agrees
<1>4. in.task.checks \subseteq Checks
  BY InputFacts
<1>5. (\A c \in in.task.checks : ev.check[c] \notin {"failed", "not_run"})
        <=> in.task.checks \subseteq tr.passed
  <2>1. ASSUME NEW c \in in.task.checks
        PROVE  ev.check[c] \notin {"failed", "not_run"} <=> c \in tr.passed
    <3>1. c \in Checks
      BY <1>4
    <3>2. ev.check[c] \in {"passed", "failed", "not_run"} /\ (ev.check[c] = "passed" <=> c \in tr.passed)
      BY <1>3, <3>1
    <3> QED
      BY <3>2
  <2> QED
    BY <2>1
<1>6. Verified(in, ev) = "success" <=>
        /\ Reported(in, ev) = "success" /\ in.exit = 0 /\ ~ev.failed
        /\ \A c \in in.task.checks : ev.check[c] \notin {"failed", "not_run"}
        /\ ~(in.task.checks = {} /\ in.task.verifiable)
        /\ ~Reverted(in, ev)
  BY DEF Verified
<1>7. Reported(in, ev) = "success" =>
        in.final.status = "success" \/ (in.final.status = "absent" /\ in.exit = 0 /\ ~ev.failed)
  BY DEF Reported
<1> QED
  BY <1>2, <1>5, <1>6, <1>7

(* When there is no category of a block, and which one wins.               *)
LEMMA CategoryFacts ==
  ASSUME NEW in \in Inputs, NEW ev, NEW tr, Agrees(ev, tr)
  PROVE  /\ BlockCategory(in, ev) \in Categories
         /\ ev.category # "none" => BlockCategory(in, ev) = ev.category
         /\ BlockCategory(in, ev) = "none" => Verified(in, ev) # "blocked"
         /\ BlockCategory(in, ev) = "executor_reported" => Verified(in, ev) = "blocked"
         /\ /\ ev.category = "none"
            /\ ev.notice = "overage_allowed" => Completed(in)
            /\ ErrorTexts(in, ev) \cap {"limit", "auth"} = {}
            /\ Verified(in, ev) # "blocked"
            => BlockCategory(in, ev) = "none"
<1>1. ev.category \in {"none", "rate_limit", "authentication"}
  BY DEF Agrees
<1>2. Completed(in) => Verified(in, ev) # "blocked"
  <2>1. Completed(in) => Reported(in, ev) = "success"
    BY DEF Completed, Reported
  <2> QED
    BY <2>1 DEF Verified
<1>3. BlockCategory(in, ev) \in Categories
  BY <1>1 DEF BlockCategory, Categories
<1>4. BlockCategory(in, ev) = "none" => Verified(in, ev) # "blocked"
  BY <1>1, <1>2 DEF BlockCategory
<1>5. BlockCategory(in, ev) = "executor_reported" => Verified(in, ev) = "blocked"
  BY <1>1 DEF BlockCategory
<1>6. ev.category # "none" => BlockCategory(in, ev) = ev.category
  BY DEF BlockCategory
<1>7. /\ ev.category = "none"
      /\ ev.notice = "overage_allowed" => Completed(in)
      /\ ErrorTexts(in, ev) \cap {"limit", "auth"} = {}
      /\ Verified(in, ev) # "blocked"
      => BlockCategory(in, ev) = "none"
  <2> SUFFICES ASSUME ev.category = "none",
                      ev.notice = "overage_allowed" => Completed(in),
                      "limit" \notin ErrorTexts(in, ev), "auth" \notin ErrorTexts(in, ev),
                      Verified(in, ev) # "blocked"
               PROVE  BlockCategory(in, ev) = "none"
    OBVIOUS
  <2> QED
    BY DEF BlockCategory
<1> QED
  BY <1>3, <1>4, <1>5, <1>6, <1>7

(* The decision of a run: its fields and when it is blocked or a success.  *)
LEMMA DecisionFacts ==
  ASSUME NEW in \in Inputs, NEW ev, NEW tr, Agrees(ev, tr)
  PROVE  /\ Decision(in, ev) \in [status : Statuses, category : Categories,
                                  reset : Resets \cup {NoReset}, unavailable : SUBSET GitChecks]
         /\ Decision(in, ev).unavailable = in.setting.gitFails
         /\ Decision(in, ev).category = BlockCategory(in, ev)
         /\ Decision(in, ev).status = FinalStatus(in, ev, BlockCategory(in, ev))
         /\ Decision(in, ev).status = "blocked" <=> Decision(in, ev).category # "none"
         /\ Decision(in, ev).reset =
              IF Decision(in, ev).category = "rate_limit" THEN tr.reset ELSE NoReset
<1> DEFINE category == BlockCategory(in, ev)
           status == FinalStatus(in, ev, category)
<1>1. Decision(in, ev) =
        [status |-> status, category |-> category,
         reset |-> IF status = "blocked" /\ category = "rate_limit" THEN ev.reset ELSE NoReset,
         unavailable |-> in.setting.gitFails]
  BY DEF Decision
<1>2. Verified(in, ev) \in Statuses /\ category \in Categories
  BY VerifiedFacts, CategoryFacts
<1>3. status \in Statuses
  BY <1>2 DEF FinalStatus, Statuses
<1>4. ev.reset \in Resets \cup {NoReset} /\ ev.reset = tr.reset
  BY DEF Agrees
<1>5. status = "blocked" <=> category # "none"
  <2>1. category = "none" => Verified(in, ev) # "blocked"
    BY CategoryFacts
  <2>2. category = "executor_reported" => Verified(in, ev) = "blocked"
    BY CategoryFacts
  <2> QED
    BY <1>2, <2>1, <2>2 DEF FinalStatus, Categories
<1> HIDE DEF category, status
<1>6. /\ Decision(in, ev).category = category /\ Decision(in, ev).status = status
      /\ Decision(in, ev).reset = IF category = "rate_limit" THEN tr.reset ELSE NoReset
      /\ Decision(in, ev).unavailable = in.setting.gitFails
  BY <1>1, <1>4, <1>5
<1>7. Decision(in, ev) \in [status : Statuses, category : Categories,
                            reset : Resets \cup {NoReset}, unavailable : SUBSET GitChecks]
  BY <1>1, <1>2, <1>3, <1>4, InputFacts
<1>8. Decision(in, ev).status = "blocked" <=> Decision(in, ev).category # "none"
  BY <1>5, <1>6
<1> QED
  BY <1>6, <1>7, <1>8 DEF category, status

LEMMA Decided ==
  IInv /\ stage = "decided" =>
    input \in Inputs /\ Agrees(evidence, truth) /\ outcome = Decision(input, evidence)
BY DEF IInv, StageInv

-----------------------------------------------------------------------------
(* The variables keep their shape: whatever the log and the final message  *)
(* say, finalize_run ends with a known status, a known category and a      *)
(* reset time it has read.                                                 *)
THEOREM TypeCorrect == Spec => []TypeOK
<1>1. IInv => TypeOK
  <2> SUFFICES ASSUME IInv PROVE TypeOK
    OBVIOUS
  <2>1. stage = "decided" =>
          /\ input \in Inputs
          /\ outcome \in [status : Statuses, category : Categories,
                          reset : Resets \cup {NoReset}, unavailable : SUBSET GitChecks]
    BY Decided, DecisionFacts
  <2> QED
    BY <2>1 DEF TypeOK, IInv, ReadInv, StageInv
<1> QED
  BY <1>1, InvariantHolds, PTL

(* A run is blocked exactly when a category of block is recorded with it   *)
(* (finalize_run).                                                         *)
THEOREM CategoryTheorem == Spec => []BlockedHasCategory
<1>1. IInv => BlockedHasCategory
  BY Decided, DecisionFacts DEF BlockedHasCategory
<1> QED
  BY <1>1, InvariantHolds, PTL

(* A usage limit that the executor reports blocks the run, whatever else   *)
(* the log or the final message says.                                      *)
THEOREM LimitTheorem == Spec => []LimitWins
<1>1. IInv => LimitWins
  <2> SUFFICES ASSUME IInv, stage = "decided", "rate_limit" \in truth.codes
               PROVE  outcome.status = "blocked" /\ outcome.category = "rate_limit"
    BY DEF LimitWins
  <2>1. input \in Inputs /\ Agrees(evidence, truth) /\ outcome = Decision(input, evidence)
    BY Decided
  <2>2. evidence.category = "rate_limit"
    BY <2>1 DEF Agrees
  <2>3. BlockCategory(input, evidence) = "rate_limit"
    BY <2>1, <2>2, CategoryFacts
  <2> QED
    BY <2>1, <2>3, DecisionFacts
<1> QED
  BY <1>1, InvariantHolds, PTL

(* A revival waits for the latest reset time of the limits that stand, and *)
(* only a run blocked by a usage limit has a reset time.                   *)
THEOREM ResetTheorem == Spec => []ResetIsStanding
<1>1. IInv => ResetIsStanding
  BY Decided, DecisionFacts DEF ResetIsStanding
<1> QED
  BY <1>1, InvariantHolds, PTL

(* A run that is called a success deserves it, as far as Git could tell.   *)
THEOREM SuccessTheorem == Spec => []SuccessIsVerified
<1>1. IInv => SuccessIsVerified
  <2> SUFFICES ASSUME IInv, stage = "decided", outcome.status = "success"
               PROVE  Deserved
    BY DEF SuccessIsVerified
  <2> DEFINE category == BlockCategory(input, evidence)
  <2>1. input \in Inputs /\ Agrees(evidence, truth) /\ outcome = Decision(input, evidence)
    BY Decided
  <2>2. FinalStatus(input, evidence, category) = "success"
    BY <2>1, DecisionFacts
  <2>3. /\ Verified(input, evidence) = "success" /\ ~ReadOnlyViolated(input)
        /\ category \notin {"rate_limit", "authentication"}
    BY <2>2 DEF FinalStatus
  <2>4. evidence.category = "none"
    BY <2>1, <2>3, CategoryFacts DEF Agrees
  <2>5. truth.codes \cap {"rate_limit", "authentication"} = {}
    BY <2>1, <2>4 DEF Agrees
  <2>6. /\ Reported(input, evidence) = "success" /\ input.exit = 0 /\ ~evidence.failed
        /\ input.task.checks \subseteq truth.passed
        /\ ~(input.task.checks = {} /\ input.task.verifiable)
        /\ ~Reverted(input, evidence)
        /\ input.final.status \in {"absent", "success"}
    BY <2>1, <2>3, VerifiedFacts
  <2>7. ~truth.unresolved /\ evidence.reverted = truth.reverted
    BY <2>1, <2>6 DEF Agrees
  <2>8. input.setting.changed => "diff_check" \in outcome.unavailable
    BY <2>1, <2>3, InputFacts, DecisionFacts DEF ReadOnlyViolated
  <2>9. input.setting.write /\ truth.reverted => "self_reversion_check" \in outcome.unavailable
    BY <2>1, <2>6, <2>7, DecisionFacts DEF Reverted
  <2> QED
    BY <2>5, <2>6, <2>7, <2>8, <2>9 DEF Deserved
<1> QED
  BY <1>1, InvariantHolds, PTL

(* A success that is deserved is called one.                               *)
THEOREM DeservedTheorem == Spec => []DeservedSucceeds
<1>1. IInv => DeservedSucceeds
  <2> SUFFICES ASSUME IInv, stage = "decided", Deserved,
                      input.final.error \in {"none", "plain"},
                      "overage_allowed" \in truth.codes => input.final.status = "success"
               PROVE  outcome.status = "success" /\ outcome.category = "none"
    BY DEF DeservedSucceeds
  <2> DEFINE category == BlockCategory(input, evidence)
  <2>1. input \in Inputs /\ Agrees(evidence, truth) /\ outcome = Decision(input, evidence)
    BY Decided
  <2>2. /\ input.final.status \in {"absent", "success"} /\ input.exit = 0
        /\ ~truth.unresolved /\ input.task.checks \subseteq truth.passed
        /\ ~(input.task.checks = {} /\ input.task.verifiable)
        /\ input.setting.write /\ truth.reverted =>
             "self_reversion_check" \in input.setting.gitFails
        /\ input.setting.changed => "diff_check" \in input.setting.gitFails
        /\ truth.codes \cap {"rate_limit", "authentication"} = {}
    BY <2>1, DecisionFacts DEF Deserved
  <2>3. /\ ~evidence.failed /\ evidence.texts = {} /\ evidence.category = "none"
        /\ evidence.reverted = truth.reverted
        /\ evidence.notice = "overage_allowed" => Completed(input)
    BY <2>1, <2>2 DEF Agrees, Completed
  <2>4. Reported(input, evidence) = "success" /\ ~Reverted(input, evidence)
    BY <2>2, <2>3 DEF Reported, Reverted
  <2>5. Verified(input, evidence) = "success"
    BY <2>1, <2>2, <2>3, <2>4, VerifiedFacts
  <2>6. ErrorTexts(input, evidence) \cap {"limit", "auth"} = {}
    BY <2>3, <2>5 DEF ErrorTexts
  <2>7. category = "none"
    BY <2>1, <2>3, <2>5, <2>6, CategoryFacts
  <2>8. FinalStatus(input, evidence, category) = "success"
    BY <2>2, <2>5, <2>7 DEF FinalStatus, ReadOnlyViolated
  <2> QED
    BY <2>1, <2>7, <2>8, DecisionFacts
<1> QED
  BY <1>1, InvariantHolds, PTL
=============================================================================
