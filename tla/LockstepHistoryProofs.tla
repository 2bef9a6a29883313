----------------------- MODULE LockstepHistoryProofs ------------------------
(***************************************************************************)
(* Proofs about the histories of Lockstep: as long as nobody times out and *)
(* the counts fit their 16 bits, nobody receives a command too late, and   *)
(* all players do the same on the same frames, for every number of         *)
(* players, send rate, MaxAhead and number of TIMING, EXIT and other       *)
(* events.                                                                 *)
(*                                                                         *)
(* Past says what the histories of timing hold, and that a period of       *)
(* vulnerability keeps what was sent before it clear of what is sent in    *)
(* it.  Story says of each player that it has received what was meant for  *)
(* the frames past, holds what is for later, and did what was right.       *)
(***************************************************************************)
EXTENDS LockstepProofs

-----------------------------------------------------------------------------
(* What the histories hold, and that the windows keep clear of each other.  *)

Frames0 == {x \in Nat : Multiple(x)}
Timings == [MaxAhead : Leads, window : Frames0 \X Frames0, humans : SUBSET Players]

Lead(p, g) == timing[p][g].MaxAhead
Window(p, g) == timing[p][g].window

\* The frame on which p executes what is sent at g, with the window it has at f.
Meant(p, f, g) == PutOff(g + Lead(p, g), Window(p, f))

Frames(p) ==
  /\ \A g \in DOMAIN timing[p] : g \in 0 .. frame[p] /\ Multiple(g) /\ timing[p][g] \in Timings
  /\ \A g \in 0 .. frame[p] : Multiple(g) /\ (g = 0 \/ g < frame[p] \/ phase[p] # "left")
                              => g \in DOMAIN timing[p]
  /\ \A g : g \in DOMAIN executed[p] <=> g \in 1 .. frame[p] - 1 /\ Multiple(g)
  /\ phase[p] # "left" => /\ Lead(p, frame[p]) = MaxAhead[p] /\ Window(p, frame[p]) = window[p]
                          /\ window[p][1] < frame[p] \/ window[p][2] <= frame[p]
  /\ phase[p] = "wait" => frame[p] > 0

\* An event is for the frame MaxAhead past that at which it was given.
Log(h) ==
  \A n \in DOMAIN sent[h] :
    LET e == sent[h][n]
    IN  /\ e.ID = h /\ e.num = n /\ e.at \in DOMAIN timing[h]
        /\ e.Frame = e.at + Lead(h, e.at)

\* What was given at g is done before f or, if not, no sooner than a MaxAhead
\* as it is at f would have it.
KeepsClear(p) ==
  \A f, g \in DOMAIN timing[p] :
    g <= f => Meant(p, f, g) < f \/ Meant(p, f, g) >= g + Lead(p, f)

Past == \A p \in Players : Frames(p) /\ Log(p) /\ KeepsClear(p)

LEMMA RecordedIs ==
  ASSUME NEW past, NEW f, NEW x
  PROVE  /\ \A g : g \in DOMAIN Recorded(past, f, x) <=> g \in DOMAIN past \/ g = f
         /\ Recorded(past, f, x)[f] = x
         /\ \A g \in DOMAIN past : g # f => Recorded(past, f, x)[g] = past[g]
  BY DEF Recorded

LEMMA PutOffIs ==
  ASSUME NEW x \in Nat, NEW w \in Nat \X Nat
  PROVE  /\ PutOff(x, w) \in Nat /\ PutOff(x, w) >= x
         /\ PutOff(PutOff(x, w), w) = PutOff(x, w)
         /\ Multiple(x) /\ Multiple(w[2]) => Multiple(PutOff(x, w))
         /\ x <= w[1] \/ w[2] <= x => PutOff(x, w) = x
         /\ w[1] < x /\ x < w[2] => PutOff(x, w) = w[2]
  BY DEF PutOff

\* The events executed on a frame are for this frame, which is not in the
\* period of vulnerability.
LEMMA DueNow ==
  ASSUME Basic, NEW p \in Players, Frames(p), ~ TooLate(p), phase[p] # "left", NEW i \in DOMAIN Due(p)
  PROVE  /\ Due(p)[i] \in GoodEvents /\ Due(p)[i].Frame = frame[p] /\ window[p][2] <= frame[p]
<1>1. Due(p) \in Seq(GoodEvents)
  BY DueIs
<1>2. PICK j \in DOMAIN DoList[p] : Due(p)[i] = Rescheduled(p)[j] /\ Due(p)[i].Frame <= frame[p]
  BY DueIs
<1>3. Rescheduled(p)[j] = [DoList[p][j] EXCEPT !.Frame = PutOff(@, window[p])]
  BY DueIs
<1>4. DoList[p][j] \in Event /\ DoList[p][j].Frame \in Nat /\ window[p] \in Nat \X Nat /\ frame[p] \in Nat
  <2>1. DoList[p] \in Seq(GoodEvents) /\ window[p] \in Nat \X Nat /\ frame[p] \in Nat
    BY PlayerTypes
  <2>2. DoList[p][j] \in GoodEvents
    BY <2>1
  <2> QED BY <2>1, <2>2 DEF GoodEvents, Event
<1>5. Due(p)[i].Frame = PutOff(DoList[p][j].Frame, window[p])
  BY <1>2, <1>3, <1>4 DEF Event
<1>6. Due(p)[i].Frame = frame[p]
  <2>1. Due(p)[i].Frame \in Nat
    BY <1>4, <1>5, PutOffIs
  <2> QED BY <1>2, <1>4, <2>1 DEF TooLate
<1>7. window[p][2] <= frame[p]
  BY <1>4, <1>5, <1>6 DEF Frames, PutOff
<1> QED BY <1>1, <1>6, <1>7

(* The events of frame f in turn: MaxAhead only falls, or it is raised and  *)
(* the period of vulnerability starts at f and covers the rise.             *)
Went(f, n, t) ==
  /\ t[n] \in Timings /\ t[n].humans \subseteq t[0].humans
  /\ \/ t[n].window = t[0].window /\ t[n].MaxAhead <= t[0].MaxAhead
     \/ n > 0 /\ \E m \in Leads : t[n].window = << f, f + m >> /\ t[n].MaxAhead <= m

LEMMA TraceKeeps ==
  ASSUME NEW f, Multiple(f), NEW n \in Nat, NEW due, NEW t, t[0] \in Timings,
         \A i \in 1 .. n : due[i] \in GoodEvents /\ due[i].Frame = f,
         \A i \in 1 .. n : t[i] = After(t[i - 1], due[i])
  PROVE  Went(f, n, t)
<1> DEFINE I == {k \in 0 .. n :
                   /\ t[k] \in Timings /\ t[k].humans \subseteq t[0].humans
                   /\ \/ t[k].window = t[0].window /\ t[k].MaxAhead <= t[0].MaxAhead
                      \/ k > 0 /\ \E m \in Leads : t[k].window = << f, f + m >> /\ t[k].MaxAhead <= m}
<1>1. 0 \in I
  BY DEF Timings, Leads
<1>2. ASSUME NEW k \in 0 .. n - 1, k \in I PROVE k + 1 \in I
  <2>1. PICK l \in 1 .. n : l = k + 1 /\ l - 1 = k
    OBVIOUS
  <2>2. /\ t[k] \in Timings /\ t[k].humans \subseteq t[0].humans
        /\ \/ t[k].window = t[0].window /\ t[k].MaxAhead <= t[0].MaxAhead
           \/ k > 0 /\ \E m \in Leads : t[k].window = << f, f + m >> /\ t[k].MaxAhead <= m
    BY <1>2
  <2> DEFINE s == t[k]
             e == due[l]
  <2>3. t[l] = After(s, e) /\ e \in GoodEvents /\ e.Frame = f
    BY <2>1
  <2>4. /\ s.MaxAhead \in Leads /\ s.window \in Frames0 \X Frames0 /\ s.humans \in SUBSET Players
        /\ s \in Timings
    BY <2>2 DEF Timings
  <2>5. /\ e.type \in {"COMMAND", "TIMING", "EXIT"} /\ (e.type = "TIMING" => e.arg \in Leads)
        /\ t[0].MaxAhead \in Nat /\ s.MaxAhead \in Nat
    BY <2>3, <2>4, LeadsGood DEF GoodEvents, Event, Timings, Leads
  <2>6. /\ t[l] \in Timings /\ t[l].humans \subseteq s.humans
        /\ \/ t[l].window = s.window /\ t[l].MaxAhead <= s.MaxAhead
           \/ \E m \in Leads : t[l].window = << f, f + m >> /\ t[l].MaxAhead <= m
    <3> HIDE DEF s, e
    <3>1. CASE e.type = "COMMAND"
      <4>1. t[l] = s
        BY <2>3, <3>1 DEF After
      <4> QED BY <2>4, <2>5, <4>1
    <3>2. CASE e.type = "EXIT"
      <4>1. t[l] = [s EXCEPT !.humans = @ \ {e.ID}]
        BY <2>3, <3>2 DEF After
      <4> QED BY <2>4, <2>5, <4>1 DEF Timings
    <3>3. CASE e.type = "TIMING"
      <4>1. t[l] = [s EXCEPT !.window = IF e.arg > s.MaxAhead THEN << f, f + e.arg >> ELSE @,
                             !.MaxAhead = e.arg]
        BY <2>3, <3>3 DEF After
      <4>2. e.arg \in Leads /\ e.arg \in Nat /\ f \in Frames0 /\ f + e.arg \in Frames0
        <5>1. e.arg \in Leads /\ e.arg \in Nat /\ Multiple(e.arg)
          BY <2>5, <3>3 DEF Leads
        <5>2. Multiple(f + e.arg)
          BY <5>1, MultipleSum
        <5> QED BY <5>1, <5>2 DEF Frames0, Multiple
      <4>3. CASE e.arg > s.MaxAhead
        <5> DEFINE w == << f, f + e.arg >>
        <5>1. t[l] = [s EXCEPT !.window = w, !.MaxAhead = e.arg]
          BY <4>1, <4>3
        <5>3. w \in Frames0 \X Frames0
          BY <4>2
        <5> HIDE DEF w
        <5>2. /\ t[l].window = w /\ t[l].MaxAhead = e.arg /\ t[l].humans = s.humans
              /\ t[l] \in Timings
          BY <2>4, <4>2, <5>1, <5>3 DEF Timings
        <5> QED BY <4>2, <5>2 DEF w
      <4>4. CASE ~ (e.arg > s.MaxAhead)
        <5>1. t[l] = [s EXCEPT !.MaxAhead = e.arg]
          BY <2>4, <4>1, <4>4 DEF Timings
        <5>2. /\ t[l].window = s.window /\ t[l].MaxAhead = e.arg /\ t[l].humans = s.humans
              /\ t[l] \in Timings
          BY <2>4, <4>2, <5>1 DEF Timings
        <5> QED BY <2>5, <4>2, <4>4, <5>2
      <4> QED BY <4>3, <4>4
    <3> QED BY <2>5, <3>1, <3>2, <3>3
  <2>7. t[l].MaxAhead \in Nat /\ \A m \in Leads : m \in Nat
    BY <2>6 DEF Timings, Leads
  <2>8. \/ t[l].window = t[0].window /\ t[l].MaxAhead <= t[0].MaxAhead
        \/ l > 0 /\ \E m \in Leads : t[l].window = << f, f + m >> /\ t[l].MaxAhead <= m
    <3>1. CASE \E m \in Leads : t[l].window = << f, f + m >> /\ t[l].MaxAhead <= m
      BY <3>1
    <3>2. CASE t[l].window = s.window /\ t[l].MaxAhead <= s.MaxAhead
      BY <2>2, <2>5, <2>7, <3>2
    <3> QED BY <2>6, <3>1, <3>2
  <2> HIDE DEF s, e
  <2>9. t[l] \in Timings /\ t[l].humans \subseteq t[0].humans
    BY <2>2, <2>6 DEF s
  <2> QED BY <2>1, <2>8, <2>9
<1> HIDE DEF I
<1>3. n \in I
  BY <1>1, <1>2, UpTo
<1> QED BY <1>3 DEF I, Went

LEMMA PastInit == ASSUME Init \/ Started PROVE Past
<1>1. InitFrames
  BY DEF Init, Started
<1>2. Basic
  BY BasicInit
<1> SUFFICES ASSUME NEW p \in Players PROVE Frames(p) /\ Log(p) /\ KeepsClear(p)
  BY DEF Past
<1> DEFINE x == Timing(StartMaxAhead, << 0, 0 >>, Players)
<1>3. /\ frame[p] = 0 /\ MaxAhead[p] = StartMaxAhead /\ window[p] = << 0, 0 >> /\ sent[p] = << >>
      /\ executed[p] = [f \in {} |-> << >>] /\ timing[p] = [f \in {0} |-> x]
  BY <1>1 DEF InitFrames
<1>4. x.MaxAhead = StartMaxAhead /\ x.window = << 0, 0 >> /\ x \in Timings
  BY LeadsGood, MultipleRate DEF Timing, Timings, Frames0
<1>5. phase[p] # "wait"
  BY DEF Init, Started
<1> HIDE DEF x
<1>6. /\ \A g : g \in DOMAIN timing[p] <=> g = 0
      /\ timing[p][0] = x /\ DOMAIN executed[p] = {} /\ Lead(p, 0) = StartMaxAhead /\ Window(p, 0) = << 0, 0 >>
  BY <1>3, <1>4 DEF Lead, Window
<1>7. Frames(p)
  BY <1>3, <1>4, <1>5, <1>6, MultipleRate DEF Frames
<1>8. Log(p)
  BY <1>3 DEF Log
<1>9. KeepsClear(p)
  <2>1. 0 + StartMaxAhead \in Nat /\ << 0, 0 >> \in Nat \X Nat
    BY LeadsGood DEF Leads
  <2>2. Meant(p, 0, 0) >= 0 + StartMaxAhead
    BY <1>6, <2>1, PutOffIs DEF Meant
  <2> QED BY <1>6, <2>2 DEF KeepsClear
<1> QED BY <1>7, <1>8, <1>9

\* Steps that leave the histories alone.
LEMMA PastSame ==
  ASSUME Basic, Past, UNCHANGED << frame, MaxAhead, window, sent, executed, timing >>,
         \A p \in Players : \/ phase'[p] = phase[p]
                            \/ phase[p] # "left" /\ phase'[p] # "wait"
  PROVE  Past'
<1> SUFFICES ASSUME NEW p \in Players PROVE (Frames(p) /\ Log(p) /\ KeepsClear(p))'
  BY DEF Past
<1>1. Frames(p) /\ Log(p) /\ KeepsClear(p)
  BY DEF Past
<1>2. Frames(p)'
  BY <1>1 DEF Frames, Lead, Window
<1>3. Log(p)'
  BY <1>1 DEF Log, Lead
<1>4. KeepsClear(p)'
  BY <1>1 DEF KeepsClear, Meant, Lead, Window
<1> QED BY <1>2, <1>3, <1>4

\* What a history holds of the frames there were before.
Grows(p, f, x) ==
  /\ \A g : g \in DOMAIN timing'[p] <=> g \in DOMAIN timing[p] \/ g = f
  /\ timing'[p][f] = x /\ Lead(p, f)' = x.MaxAhead /\ Window(p, f)' = x.window
  /\ \A g \in DOMAIN timing[p] : /\ timing'[p][g] = timing[p][g]
                                 /\ Lead(p, g)' = Lead(p, g) /\ Window(p, g)' = Window(p, g)
  /\ \A g, h \in DOMAIN timing[p] : Meant(p, g, h)' = Meant(p, g, h)

LEMMA PastGrows ==
  ASSUME NEW p, NEW f, NEW x, timing'[p] = Recorded(timing[p], f, x), f \notin DOMAIN timing[p]
  PROVE  Grows(p, f, x)
<1>1. /\ \A g : g \in DOMAIN timing'[p] <=> g \in DOMAIN timing[p] \/ g = f
      /\ timing'[p][f] = x
      /\ \A g \in DOMAIN timing[p] : timing'[p][g] = timing[p][g]
  BY RecordedIs
<1>2. Lead(p, f)' = x.MaxAhead /\ Window(p, f)' = x.window
  BY <1>1 DEF Lead, Window
<1>3. \A g \in DOMAIN timing[p] : Lead(p, g)' = Lead(p, g) /\ Window(p, g)' = Window(p, g)
  BY <1>1 DEF Lead, Window
<1>4. \A g, h \in DOMAIN timing[p] : Meant(p, g, h)' = Meant(p, g, h)
  BY <1>3 DEF Meant
<1> QED BY <1>1, <1>2, <1>3, <1>4 DEF Grows

(* KeepsClear at the next frame.                                            *)
LEMMA ClearStep ==
  ASSUME NEW f \in Nat, NEW g \in 0 .. f, NEW lead \in Leads, NEW now \in Timings, NEW next \in Timings,
         \/ PutOff(g + lead, now.window) < f
         \/ PutOff(g + lead, now.window) >= g + now.MaxAhead,
         \/ next.window = now.window /\ next.MaxAhead <= now.MaxAhead
         \/ \E m \in Leads : next.window = << f, f + m >> /\ next.MaxAhead <= m
  PROVE  \/ PutOff(g + lead, next.window) < f + FrameSendRate
         \/ PutOff(g + lead, next.window) >= g + next.MaxAhead
<1> DEFINE x == g + lead
<1>1. /\ x \in Nat /\ now.window \in Nat \X Nat /\ next.window \in Nat \X Nat
      /\ now.MaxAhead \in Nat /\ next.MaxAhead \in Nat /\ g \in Nat
  BY DEF Timings, Frames0, Leads
<1> HIDE DEF x
<1>2. CASE next.window = now.window /\ next.MaxAhead <= now.MaxAhead
  <2>1. PutOff(x, now.window) \in Nat
    BY <1>1, PutOffIs
  <2> QED BY <1>1, <1>2, <2>1, RatePositive DEF x
<1>3. CASE \E m \in Leads : next.window = << f, f + m >> /\ next.MaxAhead <= m
  <2>1. PICK m \in Leads : next.window = << f, f + m >> /\ next.MaxAhead <= m
    BY <1>3
  <2>2. m \in Nat
    BY DEF Leads
  <2>3. PutOff(x, next.window) = IF f < x /\ x < f + m THEN f + m ELSE x
    BY <2>1 DEF PutOff
  <2>4. PutOff(x, next.window) < f + FrameSendRate \/ PutOff(x, next.window) >= g + next.MaxAhead
    BY <1>1, <2>1, <2>2, <2>3, RatePositive
  <2> QED BY <2>4 DEF x
<1> QED BY <1>2, <1>3

\* The next frame is recorded.
LEMMA PastNextFrame ==
  ASSUME Basic, Past, NEW p \in Players, NEW x \in Timings,
         phase[p] # "left",
         timing'[p] = Recorded(timing[p], frame[p] + FrameSendRate, x),
         frame'[p] = frame[p] + FrameSendRate,
         \/ x.window = window[p] /\ x.MaxAhead <= MaxAhead[p]
         \/ \E m \in Leads : x.window = << frame[p], frame[p] + m >> /\ x.MaxAhead <= m
  PROVE  KeepsClear(p)'
<1>7. frame[p] \in Nat /\ Multiple(frame[p]) /\ FrameSendRate \in Nat /\ FrameSendRate > 0
  BY PlayerTypes, RatePositive
<1>8. PICK f \in Nat : f = frame[p]
  BY <1>7
<1>9. PICK next \in Nat : next = f + FrameSendRate
  BY <1>7, <1>8
<1>1. Frames(p) /\ KeepsClear(p) /\ f < next /\ Multiple(f)
  BY <1>7, <1>8, <1>9 DEF Past
<1>2. \A g \in DOMAIN timing[p] : g \in 0 .. f /\ timing[p][g] \in Timings
  BY <1>1, <1>8 DEF Frames
<1>3. f \in DOMAIN timing[p] /\ Lead(p, f) = MaxAhead[p] /\ Window(p, f) = window[p]
  BY <1>1, <1>8 DEF Frames
<1>4. timing'[p] = Recorded(timing[p], next, x) /\ next \notin DOMAIN timing[p]
  BY <1>1, <1>2, <1>8, <1>9
<1>5. /\ \A g : g \in DOMAIN timing'[p] <=> g \in DOMAIN timing[p] \/ g = next
      /\ Lead(p, next)' = x.MaxAhead /\ Window(p, next)' = x.window
      /\ \A g \in DOMAIN timing[p] : Lead(p, g)' = Lead(p, g) /\ Window(p, g)' = Window(p, g)
      /\ \A g, h \in DOMAIN timing[p] : Meant(p, g, h)' = Meant(p, g, h)
  <2>1. Grows(p, next, x)
    BY <1>4, PastGrows
  <2> QED BY <2>1 DEF Grows
<1>6. ASSUME NEW h \in DOMAIN timing'[p], NEW g \in DOMAIN timing'[p], g <= h
      PROVE  Meant(p, h, g)' < h \/ Meant(p, h, g)' >= g + Lead(p, h)'
  <2>1. CASE h \in DOMAIN timing[p]
    <3>1. g \in DOMAIN timing[p]
      BY <1>1, <1>2, <1>5, <1>6, <2>1
    <3> QED BY <1>1, <1>5, <1>6, <2>1, <3>1 DEF KeepsClear
  <2>2. CASE h = next /\ g = next
    <3>1. Meant(p, h, g)' = PutOff(next + x.MaxAhead, x.window)
      BY <1>5, <2>2 DEF Meant
    <3>2. next + x.MaxAhead \in Nat /\ x.window \in Nat \X Nat
      BY <1>1 DEF Timings, Leads, Frames0
    <3> QED BY <1>5, <2>2, <3>1, <3>2, PutOffIs
  <2>3. CASE h = next /\ g \in DOMAIN timing[p]
    <3>1. Meant(p, h, g)' = PutOff(g + Lead(p, g), x.window)
      BY <1>5, <2>3 DEF Meant
    <3> DEFINE lead == Lead(p, g)
               now == timing[p][f]
    <3>2. lead \in Leads /\ now \in Timings /\ g \in 0 .. f
      BY <1>2, <1>3, <2>3 DEF Timings, Lead
    <3>3. Meant(p, f, g) < f \/ Meant(p, f, g) >= g + Lead(p, f)
      BY <1>1, <1>3, <2>3, <3>2 DEF KeepsClear
    <3>4. now.MaxAhead = MaxAhead[p] /\ now.window = window[p]
      BY <1>3 DEF Lead, Window
    <3>5. PutOff(g + lead, now.window) < f \/ PutOff(g + lead, now.window) >= g + now.MaxAhead
      BY <3>3 DEF Meant, Lead, Window
    <3> HIDE DEF lead, now
    <3>6. \/ x.window = now.window /\ x.MaxAhead <= now.MaxAhead
          \/ \E m \in Leads : x.window = << f, f + m >> /\ x.MaxAhead <= m
      BY <1>8, <3>4
    <3>7. PutOff(g + lead, x.window) < f + FrameSendRate \/ PutOff(g + lead, x.window) >= g + x.MaxAhead
      BY <1>1, <3>2, <3>5, <3>6, ClearStep
    <3> QED BY <1>5, <1>9, <2>3, <3>1, <3>7 DEF lead
  <2> QED BY <1>5, <2>1, <2>2, <2>3
<1> QED BY <1>6 DEF KeepsClear

\* Of a player whose variables do not change.
LEMMA PastOther ==
  ASSUME Basic, Past, NEW q \in Players, frame'[q] = frame[q], MaxAhead'[q] = MaxAhead[q],
         window'[q] = window[q], sent'[q] = sent[q], executed'[q] = executed[q],
         timing'[q] = timing[q], phase'[q] = phase[q]
  PROVE  (Frames(q) /\ Log(q) /\ KeepsClear(q))'
<1>1. Frames(q) /\ Log(q) /\ KeepsClear(q)
  BY DEF Past
<1>2. Frames(q)'
  BY <1>1 DEF Frames, Lead, Window
<1>3. Log(q)'
  BY <1>1 DEF Log, Lead
<1>4. KeepsClear(q)'
  BY <1>1 DEF KeepsClear, Meant, Lead, Window
<1> QED BY <1>2, <1>3, <1>4

LEMMA ExecFrameIs ==
  ASSUME Basic, NEW p \in Players
  PROVE  ExecFrame(p) = frame[p] + MaxAhead[p] /\ MaxAhead[p] >= 2 * FrameSendRate
         /\ MaxAhead[p] \in Nat /\ Multiple(MaxAhead[p])
<1>1. Multiple(frame[p]) /\ Multiple(MaxAhead[p]) /\ MaxAhead[p] >= 2 * FrameSendRate /\ MaxAhead[p] \in Nat
  BY PlayerTypes DEF Leads
<1>2. Multiple(frame[p] + MaxAhead[p])
  BY <1>1, MultipleSum
<1>3. RoundUp(frame[p] + MaxAhead[p]) = frame[p] + MaxAhead[p]
  BY <1>2, RoundUpMultiple
<1> QED BY <1>1, <1>3 DEF ExecFrame

\* The frames up to the next are those up to this one, and the next.
LEMMA NextFrameIs ==
  ASSUME NEW f, Multiple(f), NEW next, next = f + FrameSendRate
  PROVE  /\ f \in Nat /\ next \in Nat /\ f < next /\ Multiple(next)
         /\ \A g : Multiple(g) => (g < next <=> g <= f)
<1>1. f \in Nat /\ next \in Nat /\ f < next
  BY RatePositive DEF Multiple
<1>2. Multiple(next)
  BY MultipleSum, MultipleRate
<1>3. ASSUME NEW g, Multiple(g) PROVE g < next <=> g <= f
  <2>1. g \in Nat
    BY <1>3 DEF Multiple
  <2>2. f < g => next <= g
    BY <1>3, MultipleStep
  <2> QED BY <1>1, <2>1, <2>2
<1> QED BY <1>1, <1>2, <1>3

LEMMA PastSend == ASSUME Basic, Past, NEW p \in Players, Send_Packets(p) PROVE Past'
<1>1. /\ UNCHANGED << MaxAhead, window, humans, conns, their_frame, their_sent, their_recv, executed >>
      /\ phase[p] = "send"
      /\ \A q \in Players \ {p} : phase'[q] = phase[q] /\ frame'[q] = frame[q] /\ timing'[q] = timing[q]
      /\ frame[p] = 0 => /\ frame'[p] = FrameSendRate /\ phase'[p] = "send"
                         /\ timing'[p] = Recorded(timing[p], FrameSendRate, timing[p][0])
      /\ frame[p] # 0 => frame'[p] = frame[p] /\ phase'[p] = "wait" /\ timing'[p] = timing[p]
  BY SendIs
<1>2. PICK out : Sends(p, out)
  BY SendIs
<1>3. ASSUME NEW q \in Players \ {p} PROVE (Frames(q) /\ Log(q) /\ KeepsClear(q))'
  <2>1. sent'[q] = sent[q]
    BY <1>2 DEF Sends
  <2> QED BY <1>1, <2>1, PastOther
<1>4. Frames(p) /\ Log(p) /\ KeepsClear(p)
  BY DEF Past
<1>5. frame[p] \in Nat /\ Multiple(frame[p]) /\ frame[p] \in DOMAIN timing[p] /\ Lead(p, frame[p]) = MaxAhead[p]
      /\ Window(p, frame[p]) = window[p]
  BY <1>1, <1>4, PlayerTypes DEF Frames
<1>6. /\ \A g \in DOMAIN timing[p] : g \in DOMAIN timing'[p] /\ Lead(p, g)' = Lead(p, g)
      /\ Frames(p)' /\ KeepsClear(p)'
  <2>1. CASE frame[p] # 0
    <3>1. Frames(p)'
      BY <1>1, <1>4, <1>5, <2>1 DEF Frames, Lead, Window
    <3>2. KeepsClear(p)'
      BY <1>1, <1>4, <2>1 DEF KeepsClear, Meant, Lead, Window
    <3> QED BY <1>1, <2>1, <3>1, <3>2 DEF Lead
  <2>2. CASE frame[p] = 0
    <3>1. PICK x : x = timing[p][0]
      OBVIOUS
    <3>2. PICK f : f = FrameSendRate
      OBVIOUS
    <3>3. /\ frame'[p] = f /\ phase'[p] = "send" /\ f = 0 + FrameSendRate
          /\ timing'[p] = Recorded(timing[p], f, x)
      BY <1>1, <2>2, <3>1, <3>2, RatePositive
    <3>4. x \in Timings /\ x.MaxAhead = MaxAhead[p] /\ x.window = window[p] /\ MaxAhead[p] \in Nat
      BY <1>4, <1>5, <2>2, <3>1, PlayerTypes DEF Frames, Lead, Window, Leads
    <3>5. /\ f \in Nat /\ 0 < f /\ Multiple(f) /\ \A g : Multiple(g) => (g < f <=> g <= 0)
      BY <3>3, MultipleRate, NextFrameIs
    <3>6. f \notin DOMAIN timing[p] /\ \A g \in DOMAIN timing[p] : g = 0
      BY <1>4, <2>2, <3>5 DEF Frames
    <3>7. /\ \A g : g \in DOMAIN timing'[p] <=> g \in DOMAIN timing[p] \/ g = f
          /\ timing'[p][f] = x /\ Lead(p, f)' = x.MaxAhead /\ Window(p, f)' = x.window
          /\ \A g \in DOMAIN timing[p] : timing'[p][g] = timing[p][g] /\ Lead(p, g)' = Lead(p, g)
      <4>1. timing'[p] = Recorded(timing[p], f, x)
        BY <3>3
      <4>2. Grows(p, f, x)
        BY <3>6, <4>1, PastGrows
      <4> QED BY <4>2 DEF Grows
    <3>8. KeepsClear(p)'
      BY <1>1, <2>2, <3>3, <3>4, PastNextFrame
    <3>9. Frames(p)'
      <4>1. ASSUME NEW g \in DOMAIN timing'[p]
            PROVE  g \in 0 .. frame'[p] /\ Multiple(g) /\ timing'[p][g] \in Timings
        BY <1>4, <2>2, <3>3, <3>4, <3>5, <3>6, <3>7, MultipleRate DEF Frames
      <4>2. ASSUME NEW g \in 0 .. frame'[p], Multiple(g) PROVE g \in DOMAIN timing'[p]
        <5>1. g < f => g = 0
          BY <3>5, <4>2
        <5>2. 0 \in DOMAIN timing[p]
          BY <1>5, <2>2
        <5> QED BY <3>3, <3>5, <3>7, <4>2, <5>1, <5>2
      <4>3. ASSUME NEW g PROVE g \in DOMAIN executed'[p] <=> g \in 1 .. frame'[p] - 1 /\ Multiple(g)
        <5>1. g \in DOMAIN executed[p] <=> g \in 1 .. 0 - 1 /\ Multiple(g)
          BY <1>4, <2>2 DEF Frames
        <5>2. ~ (g \in 1 .. f - 1 /\ Multiple(g))
          BY <3>5
        <5> QED BY <1>1, <3>3, <5>1, <5>2
      <4>4. window[p][1] < f \/ window[p][2] <= f
        <5>1. window[p] \in Nat \X Nat /\ (window[p][1] < 0 \/ window[p][2] <= 0)
          BY <1>1, <1>4, <2>2, PlayerTypes DEF Frames
        <5> QED BY <3>5, <5>1
      <4>5. Lead(p, frame[p])' = MaxAhead'[p] /\ Window(p, frame[p])' = window'[p]
        BY <1>1, <3>3, <3>4, <3>7 DEF Lead, Window
      <4> QED BY <1>1, <3>3, <4>1, <4>2, <4>3, <4>4, <4>5 DEF Frames, Lead, Window
    <3> QED BY <3>7, <3>8, <3>9
  <2> QED BY <2>1, <2>2
<1>7. Log(p)'
  <2>1. /\ sent'[p] = sent[p] \o out /\ out \in Seq(GoodEvents) /\ sent[p] \in Seq(GoodEvents)
        /\ \A i \in DOMAIN out : /\ out[i].ID = p /\ out[i].num = Len(sent[p]) + i
                                 /\ out[i].at = frame[p] /\ out[i].Frame = ExecFrame(p)
    BY <1>2, PlayerTypes DEF Sends
  <2>2. /\ Len(sent[p]) \in Nat /\ Len(out) \in Nat
        /\ DOMAIN sent[p] = 1 .. Len(sent[p]) /\ DOMAIN out = 1 .. Len(out)
        /\ DOMAIN sent'[p] = 1 .. Len(sent[p]) + Len(out)
        /\ \A i \in 1 .. Len(sent[p]) : sent'[p][i] = sent[p][i]
        /\ \A i \in 1 .. Len(out) : sent'[p][Len(sent[p]) + i] = out[i]
        /\ \A i \in 1 .. Len(sent[p]) + Len(out) : i <= Len(sent[p]) \/ i - Len(sent[p]) \in 1 .. Len(out)
    BY <2>1, JoinedIs
  <2>3. ASSUME NEW n \in DOMAIN sent'[p]
        PROVE  /\ sent'[p][n].ID = p /\ sent'[p][n].num = n /\ sent'[p][n].at \in DOMAIN timing'[p]
               /\ sent'[p][n].Frame = sent'[p][n].at + timing'[p][sent'[p][n].at].MaxAhead
    <3>1. CASE n <= Len(sent[p])
      <4>1. n \in DOMAIN sent[p] /\ sent'[p][n] = sent[p][n]
        BY <2>2, <2>3, <3>1
      <4>2. /\ sent[p][n].ID = p /\ sent[p][n].num = n /\ sent[p][n].at \in DOMAIN timing[p]
            /\ sent[p][n].Frame = sent[p][n].at + timing[p][sent[p][n].at].MaxAhead
        BY <1>4, <4>1 DEF Log, Lead
      <4>3. PICK g : g = sent[p][n].at
        OBVIOUS
      <4>4. g \in DOMAIN timing'[p] /\ timing'[p][g].MaxAhead = timing[p][g].MaxAhead
        BY <1>6, <4>2, <4>3 DEF Lead
      <4> QED BY <4>1, <4>2, <4>3, <4>4
    <3>2. CASE ~ (n <= Len(sent[p]))
      <4>1. PICK i \in 1 .. Len(out) : n = Len(sent[p]) + i
        <5>1. n - Len(sent[p]) \in 1 .. Len(out)
          BY <2>2, <2>3, <3>2
        <5>2. n = Len(sent[p]) + (n - Len(sent[p]))
          BY <2>2, <2>3
        <5> QED BY <5>1, <5>2
      <4>2. sent'[p][n] = out[i] /\ i \in DOMAIN out
        BY <2>2, <4>1
      <4>3. PICK g : g = frame[p]
        OBVIOUS
      <4>4. g \in DOMAIN timing'[p] /\ timing'[p][g].MaxAhead = MaxAhead[p]
        BY <1>5, <1>6, <4>3 DEF Lead
      <4> QED BY <2>1, <4>1, <4>2, <4>3, <4>4, ExecFrameIs
    <3> QED BY <3>1, <3>2
  <2> QED BY <2>3 DEF Log, Lead
<1> QED BY <1>3, <1>6, <1>7 DEF Past

\* What the events of a frame do to MaxAhead, window and humans.
Steps(p, x) ==
  /\ x \in Timings /\ x.humans \subseteq humans[p]
  /\ \/ x.window = window[p] /\ x.MaxAhead <= MaxAhead[p]
     \/ /\ window[p][2] <= frame[p]
        /\ \E m \in Leads : x.window = << frame[p], frame[p] + m >> /\ x.MaxAhead <= m

LEMMA StepsOn ==
  ASSUME Basic, Past, NEW p \in Players, phase[p] # "left", ~ TooLate(p), NEW t,
         t[0] = Timing(MaxAhead[p], window[p], humans[p]),
         \A i \in 1 .. Len(Due(p)) : t[i] = After(t[i - 1], Due(p)[i])
  PROVE  Steps(p, t[Len(Due(p))])
<1>1. Due(p) \in Seq(GoodEvents)
  BY DueIs
<1>2. Frames(p) /\ frame[p] \in Nat /\ Multiple(frame[p])
  BY PlayerTypes DEF Past
<1>3. PICK f : f = frame[p]
  OBVIOUS
<1>4. PICK n \in Nat : n = Len(Due(p))
  BY <1>1
<1>5. PICK due : due = Due(p)
  OBVIOUS
<1>6. \A i \in 1 .. n : due[i] \in GoodEvents /\ due[i].Frame = f /\ window[p][2] <= frame[p]
  <2> SUFFICES ASSUME NEW i \in 1 .. n
               PROVE  due[i] \in GoodEvents /\ due[i].Frame = f /\ window[p][2] <= frame[p]
    OBVIOUS
  <2>1. i \in DOMAIN Due(p)
    BY <1>1, <1>4
  <2> QED BY <1>2, <1>3, <1>5, <2>1, DueNow
<1>7. t[0] \in Timings
  <2>1. frame[p] \in DOMAIN timing[p] /\ timing[p][frame[p]] \in Timings
    BY <1>2 DEF Frames
  <2>2. MaxAhead[p] \in Leads /\ window[p] \in Frames0 \X Frames0 /\ humans[p] \in SUBSET Players
    BY <1>2, <2>1, PlayerTypes DEF Frames, Lead, Window, Timings
  <2> QED BY <2>2 DEF Timing, Timings
<1>8. t[0].window = window[p] /\ t[0].MaxAhead = MaxAhead[p] /\ t[0].humans = humans[p]
  BY DEF Timing
<1>9. \A i \in 1 .. n : t[i] = After(t[i - 1], due[i])
  BY <1>4, <1>5
<1>10. /\ t[n] \in Timings /\ t[n].humans \subseteq t[0].humans
       /\ \/ t[n].window = t[0].window /\ t[n].MaxAhead <= t[0].MaxAhead
          \/ n > 0 /\ \E m \in Leads : t[n].window = << f, f + m >> /\ t[n].MaxAhead <= m
  <2>1. Multiple(f)
    BY <1>2, <1>3
  <2>2. \A i \in 1 .. n : due[i] \in GoodEvents /\ due[i].Frame = f
    BY <1>6
  <2>3. Went(f, n, t)
    BY <1>7, <1>9, <2>1, <2>2, TraceKeeps
  <2> QED BY <2>3 DEF Went
<1>11. n > 0 => window[p][2] <= frame[p]
  <2>1. n > 0 => 1 \in 1 .. n
    OBVIOUS
  <2> QED BY <1>6, <2>1
<1> QED BY <1>3, <1>4, <1>8, <1>10, <1>11 DEF Steps

\* Execute_DoList, with what it does to the timing.
Moves(p, st) ==
  /\ FromState(p, st) /\ SetState(p, st)
  /\ phase'[p] = IF st.active THEN "send" ELSE "left"
  /\ timing'[p] = IF st.active
                  THEN Recorded(timing[p], frame[p] + FrameSendRate, TimingOf(st))
                  ELSE timing[p]
  /\ st.active =>
       /\ Steps(p, TimingOf(st))
       /\ \E t : /\ t[0] = Timing(MaxAhead[p], window[p], humans[p])
                 /\ t[Len(Due(p))] = TimingOf(st)
                 /\ \A i \in 1 .. Len(Due(p)) : t[i] = After(t[i - 1], Due(p)[i])

LEMMA AdvanceMoves ==
  ASSUME Basic, Past, NEW p \in Players, Advance(p), ~ TooLate(p)
  PROVE  \E st : Moves(p, st)
<1>0. phase[p] = "wait"
  BY DEF Advance
<1>1. PICK st : /\ FromState(p, st) /\ SetState(p, st)
                /\ phase'[p] = IF st.active THEN "send" ELSE "left"
                /\ timing'[p] = IF st.active
                                THEN Recorded(timing[p], frame[p] + FrameSendRate, TimingOf(st))
                                ELSE timing[p]
                /\ st.active =>
                     \E t : /\ t[0] = Timing(MaxAhead[p], window[p], humans[p])
                            /\ t[Len(Due(p))] = TimingOf(st)
                            /\ \A i \in 1 .. Len(Due(p)) : t[i] = After(t[i - 1], Due(p)[i])
  BY AdvanceIs
<1>2. ASSUME st.active PROVE Steps(p, TimingOf(st))
  <2>1. PICK t : /\ t[0] = Timing(MaxAhead[p], window[p], humans[p])
                 /\ t[Len(Due(p))] = TimingOf(st)
                 /\ \A i \in 1 .. Len(Due(p)) : t[i] = After(t[i - 1], Due(p)[i])
    BY <1>1, <1>2
  <2>2. Steps(p, t[Len(Due(p))])
    BY <1>0, <2>1, StepsOn
  <2> QED BY <2>1, <2>2
<1> QED BY <1>1, <1>2 DEF Moves

LEMMA PastAdvance == ASSUME Basic, Past, NEW p \in Players, Advance(p), ~ TooLate(p) PROVE Past'
<1>1. /\ phase[p] = "wait" /\ UNCHANGED sent
      /\ frame'[p] = frame[p] + FrameSendRate
      /\ \A q \in Players \ {p} : frame'[q] = frame[q]
      /\ \A q \in Players \ {p} : /\ phase'[q] = phase[q] /\ executed'[q] = executed[q]
                                  /\ timing'[q] = timing[q]
      /\ executed'[p] = Recorded(executed[p], frame[p], Due(p))
  BY AdvanceIs
<1>2. PICK st : Moves(p, st)
  BY AdvanceMoves
<1>3. /\ MaxAhead'[p] = st.MaxAhead /\ window'[p] = st.window
      /\ \A q \in Players \ {p} : MaxAhead'[q] = MaxAhead[q] /\ window'[q] = window[q]
  BY <1>2, SetStateIs DEF Moves
<1>4. ASSUME NEW q \in Players \ {p} PROVE (Frames(q) /\ Log(q) /\ KeepsClear(q))'
  BY <1>1, <1>3, PastOther
<1>5. Frames(p) /\ Log(p) /\ KeepsClear(p)
  BY DEF Past
<1>6. PICK f \in Nat : f = frame[p] /\ Multiple(f)
  BY PlayerTypes
<1>7. PICK next \in Nat : next = f + FrameSendRate
  BY <1>6, RatePositive
<1>8. /\ f < next /\ Multiple(next) /\ \A g : Multiple(g) => (g < next <=> g <= f)
  BY <1>6, <1>7, NextFrameIs
<1>9. f > 0 /\ frame'[p] = next /\ f \in DOMAIN timing[p]
  BY <1>1, <1>5, <1>6, <1>7 DEF Frames
<1>10. \A g : g \in DOMAIN executed'[p] <=> g \in 1 .. next - 1 /\ Multiple(g)
  <2> SUFFICES ASSUME NEW g PROVE g \in DOMAIN executed'[p] <=> g \in 1 .. next - 1 /\ Multiple(g)
    OBVIOUS
  <2>1. g \in DOMAIN executed'[p] <=> g \in DOMAIN executed[p] \/ g = f
    BY <1>1, <1>6, RecordedIs
  <2>2. g \in DOMAIN executed[p] <=> g \in 1 .. f - 1 /\ Multiple(g)
    BY <1>5, <1>6 DEF Frames
  <2>3. Multiple(g) => g \in Nat /\ (g < next <=> g <= f)
    BY <1>8 DEF Multiple
  <2> QED BY <1>6, <1>8, <1>9, <2>1, <2>2, <2>3
<1>11. CASE st.active
  <2>1. PICK x : x = TimingOf(st)
    OBVIOUS
  <2>2. /\ timing'[p] = Recorded(timing[p], next, x) /\ phase'[p] = "send" /\ Steps(p, x)
        /\ x.MaxAhead = st.MaxAhead /\ x.window = st.window
    BY <1>2, <1>6, <1>7, <1>11, <2>1 DEF Moves, TimingOf, Timing
  <2>3. x \in Timings
    BY <2>2 DEF Steps
  <2>4. \A g \in DOMAIN timing[p] : g \in 0 .. f /\ Multiple(g) /\ timing[p][g] \in Timings
    BY <1>5, <1>6 DEF Frames
  <2>5. next \notin DOMAIN timing[p]
    BY <1>8, <2>4
  <2>6. /\ \A g : g \in DOMAIN timing'[p] <=> g \in DOMAIN timing[p] \/ g = next
        /\ timing'[p][next] = x /\ Lead(p, next)' = x.MaxAhead /\ Window(p, next)' = x.window
        /\ \A g \in DOMAIN timing[p] : timing'[p][g] = timing[p][g] /\ Lead(p, g)' = Lead(p, g)
    <3>1. timing'[p] = Recorded(timing[p], next, x)
      BY <2>2
    <3>2. Grows(p, next, x)
      BY <2>5, <3>1, PastGrows
    <3> QED BY <3>2 DEF Grows
  <2>7. KeepsClear(p)'
    <3>1. timing'[p] = Recorded(timing[p], frame[p] + FrameSendRate, x)
      BY <1>6, <1>7, <2>2
    <3>2. \/ x.window = window[p] /\ x.MaxAhead <= MaxAhead[p]
          \/ \E m \in Leads : x.window = << frame[p], frame[p] + m >> /\ x.MaxAhead <= m
      BY <2>2 DEF Steps
    <3> QED BY <1>1, <2>3, <3>1, <3>2, PastNextFrame
  <2>8. Log(p)'
    BY <1>1, <1>5, <2>6 DEF Log, Lead
  <2>9. Frames(p)'
    <3>1. \A g \in DOMAIN timing'[p] : g \in 0 .. next /\ Multiple(g) /\ timing'[p][g] \in Timings
      BY <1>8, <2>3, <2>4, <2>6
    <3>2. \A g \in 0 .. next : Multiple(g) => g \in DOMAIN timing'[p]
      <4> SUFFICES ASSUME NEW g \in 0 .. next, Multiple(g), g # next PROVE g \in DOMAIN timing[p]
        BY <2>6
      <4>1. g \in 0 .. f
        BY <1>8
      <4> QED BY <1>1, <1>5, <1>6, <4>1 DEF Frames
    <3>3. Lead(p, next)' = MaxAhead'[p] /\ Window(p, next)' = window'[p]
      BY <1>3, <2>2, <2>6
    <3>4. window'[p][1] < next \/ window'[p][2] <= next
      <4>1. CASE x.window = window[p]
        <5>1. window[p] \in Nat \X Nat /\ (window[p][1] < f \/ window[p][2] <= f)
          BY <1>1, <1>5, <1>6, PlayerTypes DEF Frames
        <5> QED BY <1>3, <1>8, <2>2, <4>1, <5>1
      <4>2. CASE \E m \in Leads : x.window = << frame[p], frame[p] + m >>
        BY <1>3, <1>6, <1>8, <2>2, <4>2
      <4> QED BY <2>2, <4>1, <4>2 DEF Steps
    <3>5. Lead(p, frame[p])' = MaxAhead'[p] /\ Window(p, frame[p])' = window'[p]
      BY <1>9, <3>3
    <3> QED BY <1>9, <1>10, <2>2, <3>1, <3>2, <3>4, <3>5 DEF Frames
  <2> QED BY <1>4, <2>7, <2>8, <2>9 DEF Past
<1>12. CASE ~ st.active
  <2>1. timing'[p] = timing[p] /\ phase'[p] = "left"
    BY <1>2, <1>12 DEF Moves
  <2>2. Log(p)' /\ KeepsClear(p)'
    BY <1>1, <1>5, <2>1 DEF Log, KeepsClear, Meant, Lead, Window
  <2>3. Frames(p)'
    <3>1. \A g \in DOMAIN timing'[p] : g \in 0 .. next /\ Multiple(g) /\ timing'[p][g] \in Timings
      BY <1>5, <1>6, <1>8, <2>1 DEF Frames
    <3>2. \A g \in 0 .. next : Multiple(g) /\ (g = 0 \/ g < next) => g \in DOMAIN timing'[p]
      <4> SUFFICES ASSUME NEW g \in 0 .. next, Multiple(g), g = 0 \/ g < next PROVE g \in DOMAIN timing[p]
        BY <2>1
      <4>1. g \in 0 .. f
        BY <1>8
      <4> QED BY <1>1, <1>5, <1>6, <4>1 DEF Frames
    <3> QED BY <1>9, <1>10, <2>1, <3>1, <3>2 DEF Frames
  <2> QED BY <1>4, <2>2, <2>3 DEF Past
<1> QED BY <1>11, <1>12

LEMMA PastNext == ASSUME Basic, Past, [Next]_vars PROVE Past'
<1>1. CASE UNCHANGED vars
  <2>1. UNCHANGED << frame, MaxAhead, window, sent, executed, timing, phase >>
    BY <1>1 DEF vars, local, history
  <2> QED BY <2>1, PastSame
<1>2. ASSUME NEW p \in Players, Send_FrameSync(p) PROVE Past'
  <2>1. UNCHANGED << frame, MaxAhead, window, sent, executed, timing, phase >>
    BY <1>2 DEF Send_FrameSync, local, history
  <2> QED BY <2>1, PastSame
<1>3. ASSUME NEW p \in Players, AllReady(p) PROVE Past'
  <2>1. UNCHANGED << frame, MaxAhead, window, sent, executed, timing >>
    BY <1>3 DEF AllReady, local, history
  <2>2. phase[p] = "ready" /\ phase' = [phase EXCEPT ![p] = "send"] /\ DOMAIN phase = Players
    BY <1>3 DEF AllReady, Basic, Types
  <2>3. \A q \in Players : \/ phase'[q] = phase[q]
                           \/ phase[q] # "left" /\ phase'[q] # "wait"
    BY <2>2
  <2> QED BY <2>1, <2>3, PastSame
<1>4. ASSUME NEW p \in Players, Handle_Timeout(p) \/ GiveUp(p) PROVE Past'
  <2>0. PICK st : SetState(p, st) /\ FromState(p, State(p)) /\ (st.MaxAhead = MaxAhead[p] /\ st.window = window[p])
    <3>1. phase[p] # "left" /\ FromState(p, State(p))
      BY <1>4, StateFrom DEF Handle_Timeout, GiveUp
    <3>2. State(p).MaxAhead = MaxAhead[p] /\ State(p).window = window[p] /\ State(p) \in States
      BY <3>1 DEF State, FromState
    <3>3. CASE Handle_Timeout(p)
      <4>1. PICK i \in DOMAIN conns[p] : SetState(p, Destroy_Connection(State(p), conns[p][i]))
        BY <3>3 DEF Handle_Timeout
      <4>2. /\ Destroy_Connection(State(p), conns[p][i]).MaxAhead = MaxAhead[p]
            /\ Destroy_Connection(State(p), conns[p][i]).window = window[p]
        BY <3>1, <3>2, DestroyFrom
      <4> QED BY <3>1, <4>1, <4>2
    <3>4. CASE GiveUp(p)
      <4>1. SetState(p, [State(p) EXCEPT !.conns = << >>])
        BY <3>4 DEF GiveUp
      <4>2. /\ [State(p) EXCEPT !.conns = << >>].MaxAhead = MaxAhead[p]
            /\ [State(p) EXCEPT !.conns = << >>].window = window[p]
        BY DEF State
      <4> QED BY <3>1, <4>1, <4>2
    <3> QED BY <1>4, <3>3, <3>4
  <2>1. UNCHANGED << MaxAhead, window >>
    <3>1. MaxAhead' = [MaxAhead EXCEPT ![p] = st.MaxAhead] /\ window' = [window EXCEPT ![p] = st.window]
      BY <2>0 DEF SetState
    <3>2. MaxAhead \in [Players -> Leads] /\ window \in [Players -> Nat \X Nat]
      BY DEF Basic, Types
    <3> QED BY <2>0, <3>1, <3>2
  <2>2. UNCHANGED << frame, sent, executed, timing >>
    BY <1>4 DEF Handle_Timeout, GiveUp, history
  <2>3. \A q \in Players : \/ phase'[q] = phase[q]
                           \/ phase[q] # "left" /\ phase'[q] # "wait"
    <3>1. CASE Handle_Timeout(p)
      BY <3>1 DEF Handle_Timeout
    <3>2. CASE GiveUp(p)
      BY <3>2 DEF GiveUp, Basic, Types
    <3> QED BY <1>4, <3>1, <3>2
  <2> QED BY <2>1, <2>2, <2>3, PastSame
<1>5. ASSUME NEW p \in Players, NEW q \in Players, ReceiveCommands(p, q) \/ ReceiveInfo(p, q) PROVE Past'
  <2>1. PICK k : Process_Receive_Packet(p, q, k)
    BY <1>5 DEF ReceiveCommands, ReceiveInfo
  <2>2. UNCHANGED << frame, MaxAhead, window, sent, executed, timing, phase >>
    BY <2>1 DEF Process_Receive_Packet, local, history
  <2> QED BY <2>2, PastSame
<1>6. ASSUME NEW p \in Players, Advance(p) PROVE Past'
  <2>1. CASE TooLate(p)
    <3>1. UNCHANGED << frame, MaxAhead, window, sent, executed, timing >>
      BY <1>6, <2>1 DEF Advance, local, history
    <3>2. phase[p] = "wait" /\ phase' = [phase EXCEPT ![p] = "late"] /\ DOMAIN phase = Players
      BY <1>6, <2>1 DEF Advance, Basic, Types
    <3>3. \A q \in Players : \/ phase'[q] = phase[q]
                             \/ phase[q] # "left" /\ phase'[q] # "wait"
      BY <3>2
    <3> QED BY <3>1, <3>3, PastSame
  <2>2. CASE ~ TooLate(p)
    BY <1>6, <2>2, PastAdvance
  <2> QED BY <2>1, <2>2
<1>7. CASE Next
  BY <1>2, <1>3, <1>4, <1>5, <1>6, <1>7, PastSend DEF Next
<1> QED BY <1>1, <1>7

LEMMA PastAlways == Spec \/ StartedSpec => []Past
<1>1. Init => Past
  <2>1. SUFFICES ASSUME Init PROVE Past
    OBVIOUS
  <2> QED BY <2>1, PastInit
<1>2. Started => Past
  <2>1. SUFFICES ASSUME Started PROVE Past
    OBVIOUS
  <2> QED BY <2>1, PastInit
<1>3. Basic /\ Past /\ [Next]_vars => Past'
  BY PastNext
<1> QED BY <1>1, <1>2, <1>3, BasicAlways, PTL DEF Spec, StartedSpec

-----------------------------------------------------------------------------
(* The history: who has received what in time, and what was done with it.   *)

\* How many of h's events p has.
Got(p, h) == IF h = p THEN Len(sent[p]) ELSE their_recv[p][Place(p, h)]

\* p has everything that was given at a frame g and is meant for a frame past.
InTime(p) ==
  phase[p] # "left" =>
    \A h \in humans[p] \ {p} : \A g \in DOMAIN timing[p] :
      Meant(p, frame[p], g) < frame[p] =>
        /\ g < frame[h]
        /\ \A n \in DOMAIN sent[h] : sent[h][n].at = g => n <= Got(p, h)

\* What p still holds is what was given, to be executed when it was to be.
Copy(p, e) ==
  /\ e.num \in 1 .. Got(p, e.ID)
  /\ e = [sent[e.ID][e.num] EXCEPT !.Frame = e.Frame]
  /\ PutOff(e.Frame, window[p]) = PutOff(sent[e.ID][e.num].Frame, window[p])
  /\ PutOff(e.Frame, window[p]) >= frame[p]

Copies(p) ==
  phase[p] # "left" =>
    \A i \in DOMAIN DoList[p] : DoList[p][i].ID \in humans[p] => Copy(p, DoList[p][i])

\* And p holds all that is not past.
Holds(p, h, n) == \E i \in DOMAIN DoList[p] : DoList[p][i].ID = h /\ DoList[p][i].num = n

Complete(p) ==
  phase[p] # "left" =>
    \A h \in humans[p] : \A n \in 1 .. Got(p, h) :
      PutOff(sent[h][n].Frame, window[p]) >= frame[p] => Holds(p, h, n)

InOrder(p) ==
  phase[p] # "left" =>
    \A i, j \in DOMAIN DoList[p] :
      i < j /\ DoList[p][i].ID = DoList[p][j].ID /\ DoList[p][i].ID \in humans[p]
      => DoList[p][i].num < DoList[p][j].num

Agrees(p) == phase[p] # "left" => timing[p][frame[p]].humans = humans[p]

\* When p was at f the others were not a MaxAhead behind.
Close(p) ==
  \A f \in DOMAIN executed[p] : \A h \in timing[p][f].humans \ {p} : f < frame[h] + Lead(p, f)

\* What h gave for the frame f, with the period of vulnerability w.
Wanted(h, f, w) ==
  {[sent[h][n] EXCEPT !.Frame = f] : n \in {m \in DOMAIN sent[h] : PutOff(sent[h][m].Frame, w) = f}}

Sorted(s) == \A i, j \in DOMAIN s : i < j => s[i].num < s[j].num

\* At f p did what the humans had given for it, house after house.
Served(p, f, seqs) ==
  /\ seqs \in [Players -> Seq(GoodEvents)]
  /\ executed[p][f] = FlattenSeq(seqs)
  /\ \A h \in Players : /\ Sorted(seqs[h])
                        /\ Range(seqs[h]) = IF h \in timing[p][f].humans
                                            THEN Wanted(h, f, Window(p, f)) ELSE {}
DoneRight(p) == \A f \in DOMAIN executed[p] : \E seqs : Served(p, f, seqs)

\* u comes from t by the events due.
Comes(t, due, u) ==
  \E x : /\ x[0] = t /\ x[Len(due)] = u
         /\ \A i \in 1 .. Len(due) : x[i] = After(x[i - 1], due[i])

Follows(p) ==
  /\ timing[p][0] = Timing(StartMaxAhead, << 0, 0 >>, Players)
  /\ FrameSendRate \in DOMAIN timing[p] => timing[p][FrameSendRate] = timing[p][0]
  /\ \A f \in DOMAIN executed[p] :
       f + FrameSendRate \in DOMAIN timing[p] =>
         Comes(timing[p][f], executed[p][f], timing[p][f + FrameSendRate])

Did(p) == Close(p) /\ DoneRight(p) /\ Follows(p)
Kept(p) == InTime(p) /\ Copies(p) /\ Complete(p) /\ InOrder(p) /\ Agrees(p)

Story == \A p \in Players : phase[p] # "late" /\ Kept(p) /\ Did(p)

-----------------------------------------------------------------------------
\* Of two sorted sequences with the same elements each begins as the other.
LEMMA SortedWithin ==
  ASSUME NEW a \in Seq(GoodEvents), NEW b \in Seq(GoodEvents), Sorted(a), Sorted(b), Range(a) = Range(b)
  PROVE  Len(a) <= Len(b) /\ \A i \in 1 .. Len(a) : a[i] = b[i]
<1>1. /\ Len(a) \in Nat /\ Len(b) \in Nat /\ DOMAIN a = 1 .. Len(a) /\ DOMAIN b = 1 .. Len(b)
  OBVIOUS
<1>2. /\ \A i \in 1 .. Len(a) : a[i].num \in Nat
      /\ \A i \in 1 .. Len(b) : b[i].num \in Nat
  <2>1. \A e \in GoodEvents : e.num \in Nat
    BY DEF GoodEvents, Event
  <2>2. \A i \in 1 .. Len(a) : a[i] \in GoodEvents
    OBVIOUS
  <2>3. \A i \in 1 .. Len(b) : b[i] \in GoodEvents
    OBVIOUS
  <2> QED BY <2>1, <2>2, <2>3
<1>3. /\ \A i \in 1 .. Len(a) : \E j \in 1 .. Len(b) : a[i] = b[j]
      /\ \A j \in 1 .. Len(b) : \E i \in 1 .. Len(a) : b[j] = a[i]
  BY <1>1 DEF Range
<1>4. /\ \A i, j \in 1 .. Len(a) : i < j => a[i].num < a[j].num
      /\ \A i, j \in 1 .. Len(b) : i < j => b[i].num < b[j].num
  BY <1>1 DEF Sorted
<1>5. PICK n \in Nat, m \in Nat : n = Len(a) /\ m = Len(b)
  BY <1>1
<1> DEFINE I == {k \in Nat : k <= m /\ \A i \in 1 .. k : a[i] = b[i]}
<1>6. 0 \in I
  OBVIOUS
<1>7. ASSUME NEW k \in 0 .. n - 1, k \in I PROVE k + 1 \in I
  <2>1. k <= m /\ \A i \in 1 .. k : a[i] = b[i]
    BY <1>7
  <2>2. PICK l \in 1 .. n : l = k + 1
    BY <1>5
  <2>3. PICK j \in 1 .. m : a[l] = b[j]
    BY <1>3, <1>5
  <2>4. j > k
    <3> SUFFICES ASSUME j <= k PROVE FALSE
      BY <1>5, <2>2
    <3>1. j \in 1 .. k /\ j \in 1 .. n /\ j < l
      BY <1>5, <2>2
    <3>2. a[j] = a[l] /\ a[j].num < a[l].num /\ a[l].num \in Nat
      BY <1>2, <1>4, <1>5, <2>1, <2>3, <3>1
    <3> QED BY <3>2
  <2>5. l \in 1 .. m
    BY <1>5, <2>2, <2>4
  <2>6. PICK i \in 1 .. n : b[l] = a[i]
    BY <1>3, <1>5, <2>5
  <2>7. i > k
    <3> SUFFICES ASSUME i <= k PROVE FALSE
      BY <1>5, <2>2
    <3>1. i \in 1 .. k /\ i \in 1 .. m /\ i < l
      BY <1>5, <2>2, <2>5
    <3>2. b[i] = b[l] /\ b[i].num < b[l].num /\ b[l].num \in Nat
      BY <1>2, <1>4, <1>5, <2>1, <2>5, <2>6, <3>1
    <3> QED BY <3>2
  <2>8. i = l
    <3> SUFFICES ASSUME l < i PROVE FALSE
      BY <2>2, <2>7
    <3>1. a[l].num < a[i].num /\ a[l].num \in Nat /\ a[i].num \in Nat
      BY <1>2, <1>4, <1>5
    <3>2. l = j \/ b[l].num < b[j].num
      BY <1>4, <1>5, <2>2, <2>4, <2>5
    <3> QED BY <2>3, <2>6, <3>1, <3>2
  <2>9. \A x \in 1 .. k + 1 : x \in 1 .. k \/ x = l
    BY <2>2
  <2>10. k + 1 \in Nat /\ k + 1 <= m
    BY <1>5, <2>2, <2>5
  <2> QED BY <2>1, <2>6, <2>8, <2>9, <2>10
<1> HIDE DEF I
<1>8. \A k \in 0 .. n : k \in I
  BY <1>5, <1>6, <1>7, UpTo
<1>9. n \in I
  BY <1>5, <1>8
<1> QED BY <1>5, <1>9 DEF I

LEMMA SameSorted ==
  ASSUME NEW a \in Seq(GoodEvents), NEW b \in Seq(GoodEvents), Sorted(a), Sorted(b), Range(a) = Range(b)
  PROVE  a = b
<1>1. Len(a) <= Len(b) /\ \A i \in 1 .. Len(a) : a[i] = b[i]
  BY SortedWithin
<1>2. Len(b) <= Len(a)
  BY SortedWithin
<1>3. Len(a) \in Nat /\ Len(b) \in Nat
  OBVIOUS
<1>4. Len(a) = Len(b)
  BY <1>1, <1>2, <1>3
<1> QED BY <1>1, <1>4

\* Who agrees on the timing of a frame has done the same on it.
LEMMA SameDone ==
  ASSUME NEW p, NEW q, NEW f, timing[p][f] = timing[q][f], NEW x, NEW y,
         Served(p, f, x), Served(q, f, y)
  PROVE  executed[p][f] = executed[q][f]
<1>1. x \in [Players -> Seq(GoodEvents)] /\ y \in [Players -> Seq(GoodEvents)]
  BY DEF Served
<1>2. ASSUME NEW h \in Players PROVE x[h] = y[h]
  <2>1. x[h] \in Seq(GoodEvents) /\ y[h] \in Seq(GoodEvents)
    BY <1>1
  <2>2. Sorted(x[h]) /\ Sorted(y[h]) /\ Range(x[h]) = Range(y[h])
    BY DEF Served, Window
  <2> QED BY <2>1, <2>2, SameSorted
<1>3. x = y
  BY <1>1, <1>2
<1> QED BY <1>3 DEF Served

LEMMA SameComes ==
  ASSUME NEW t, NEW due, Len(due) \in Nat, NEW u, NEW v, Comes(t, due, u), Comes(t, due, v)
  PROVE  u = v
<1>1. PICK n \in Nat : n = Len(due)
  OBVIOUS
<1>2. PICK x : /\ x[0] = t /\ x[n] = u /\ \A i \in 1 .. n : x[i] = After(x[i - 1], due[i])
  BY <1>1 DEF Comes
<1>3. PICK y : /\ y[0] = t /\ y[n] = v /\ \A i \in 1 .. n : y[i] = After(y[i - 1], due[i])
  BY <1>1 DEF Comes
<1> DEFINE I == {k \in Nat : x[k] = y[k]}
<1>4. 0 \in I
  BY <1>2, <1>3
<1>5. ASSUME NEW k \in 0 .. n - 1, k \in I PROVE k + 1 \in I
  <2>1. PICK l \in 1 .. n : l = k + 1 /\ l - 1 = k
    OBVIOUS
  <2>2. x[k] = y[k]
    BY <1>5
  <2>3. x[l] = y[l]
    BY <1>2, <1>3, <2>1, <2>2
  <2>4. l \in I
    BY <2>3
  <2> QED BY <2>1, <2>4
<1> HIDE DEF I
<1>6. \A k \in 0 .. n : k \in I
  BY <1>4, <1>5, UpTo
<1>7. n \in I
  BY <1>6
<1> QED BY <1>2, <1>3, <1>7 DEF I

\* What p has of h's events.
LEMMA GotIs ==
  ASSUME Basic, Counts, NEW p \in Players, phase[p] # "left", NEW h \in humans[p]
  PROVE  /\ h \in Players /\ Got(p, h) \in 0 .. Len(sent[h]) /\ DOMAIN sent[h] = 1 .. Len(sent[h])
         /\ Len(sent[h]) \in Nat
         /\ h # p => /\ Connected(p, h) /\ Place(p, h) \in DOMAIN conns[p] /\ conns[p][Place(p, h)] = h
                     /\ Place(p, h) \in 1 .. N - 1
                     /\ Got(p, h) = their_recv[p][Place(p, h)]
                     /\ Link(p, h, Got(p, h))
<1>1. h \in Players
  BY PlayerTypes
<1>2. Len(sent[h]) \in Nat /\ DOMAIN sent[h] = 1 .. Len(sent[h])
  BY <1>1, PlayerTypes
<1>3. CASE h = p
  BY <1>1, <1>2, <1>3 DEF Got
<1>4. CASE h # p
  <2>1. h \in Range(conns[p])
    BY <1>4 DEF Basic, Joined
  <2>2. Connected(p, h)
    BY <2>1, ConnectedRange
  <2>3. PICK i \in DOMAIN conns[p] : i = Place(p, h) /\ conns[p][i] = h
    BY <2>2, PlaceIs
  <2>4. i \in 1 .. N - 1
    BY PlayerTypes
  <2>5. Got(p, h) = their_recv[p][i]
    BY <1>4, <2>3 DEF Got
  <2>6. Link(p, h, Got(p, h))
    BY <2>3, <2>5 DEF Counts, Heard
  <2>7. PICK upto : Carries(sent[h], chan[h][p], Got(p, h), upto)
    BY <2>6 DEF Link
  <2>8. 0 \in 0 .. Len(chan[h][p])
    BY <1>1, PacketTypes
  <2>9. Got(p, h) \in 0 .. Len(sent[h])
    BY <2>7, <2>8 DEF Carries
  <2> QED BY <1>1, <1>2, <2>2, <2>3, <2>4, <2>5, <2>6, <2>9
<1> QED BY <1>3, <1>4

\* The frames of the histories.
LEMMA FramesAre ==
  ASSUME NEW p \in Players, Frames(p), frame[p] \in Nat, NEW f, Multiple(f)
  PROVE  /\ f + FrameSendRate \in DOMAIN timing[p] /\ f > 0 => f \in DOMAIN executed[p]
         /\ f \in DOMAIN executed[p] => f \in DOMAIN timing[p] /\ f < frame[p] /\ f > 0
         /\ f < frame[p] => f \in DOMAIN timing[p]
<1>1. f \in Nat /\ FrameSendRate \in Nat /\ FrameSendRate > 0
  BY RatePositive DEF Multiple
<1>2. ASSUME f + FrameSendRate \in DOMAIN timing[p], f > 0 PROVE f \in DOMAIN executed[p]
  <2>1. f + FrameSendRate <= frame[p]
    BY <1>2 DEF Frames
  <2>2. f \in 1 .. frame[p] - 1
    BY <1>1, <1>2, <2>1
  <2> QED BY <2>2 DEF Frames
<1>3. ASSUME f < frame[p] PROVE f \in DOMAIN timing[p]
  <2>1. f \in 0 .. frame[p]
    BY <1>1, <1>3
  <2> QED BY <1>3, <2>1 DEF Frames
<1>4. ASSUME f \in DOMAIN executed[p] PROVE f < frame[p] /\ f > 0
  <2>1. f \in 1 .. frame[p] - 1
    BY <1>4 DEF Frames
  <2> QED BY <2>1
<1> QED BY <1>2, <1>3, <1>4

LEMMA ServedType ==
  ASSUME NEW p \in Players, NEW f, NEW seqs, Served(p, f, seqs)
  PROVE  executed[p][f] \in Seq(GoodEvents) /\ Len(executed[p][f]) \in Nat
<1>1. seqs \in [1 .. N -> Seq(GoodEvents)] /\ N \in Nat \ {0}
  BY LockstepAssumption DEF Served, Players
<1>2. FlattenSeq(seqs) \in Seq(GoodEvents)
  BY <1>1, FlattenType
<1>3. executed[p][f] = FlattenSeq(seqs)
  BY DEF Served
<1> QED BY <1>2, <1>3

\* Who has followed the rules from the start agrees with all others.
LEMMA TimingsAgree ==
  ASSUME Basic, Past, \A r \in Players : Did(r), NEW p \in Players, NEW q \in Players,
         NEW f \in DOMAIN timing[p], f \in DOMAIN timing[q]
  PROVE  timing[p][f] = timing[q][f]
<1>1. PICK S \in Nat : S = FrameSendRate /\ S > 0
  BY RatePositive
<1> DEFINE I == {k \in Nat : S * k \in DOMAIN timing[p] /\ S * k \in DOMAIN timing[q]
                             => timing[p][S * k] = timing[q][S * k]}
<1>2. Frames(p) /\ Frames(q) /\ Did(p) /\ Did(q) /\ frame[p] \in Nat /\ frame[q] \in Nat
  BY PlayerTypes DEF Past
<1>3. 0 \in I
  <2>1. S * 0 = 0
    BY <1>1
  <2>2. timing[p][0] = timing[q][0]
    BY <1>2 DEF Did, Follows
  <2> QED BY <2>1, <2>2
<1>4. ASSUME NEW k \in Nat, k \in I PROVE k + 1 \in I
  <2>1. PICK g : g = S * k
    OBVIOUS
  <2>2. PICK h : h = S * (k + 1)
    OBVIOUS
  <2>3. g \in Nat /\ h = g + S /\ Multiple(g)
    <3>1. g \in Nat /\ h = g + S
      BY <1>1, <2>1, <2>2
    <3> QED BY <1>1, <2>1, <3>1, MultipleIs
  <2>4. SUFFICES ASSUME h \in DOMAIN timing[p], h \in DOMAIN timing[q] PROVE timing[p][h] = timing[q][h]
    BY <2>2
  <2>5. CASE g = 0
    <3>1. h = S
      BY <1>1, <2>3, <2>5
    <3> QED BY <1>1, <1>2, <2>4, <3>1 DEF Did, Follows
  <2>6. CASE g # 0
    <3>1. g > 0
      BY <2>3, <2>6
    <3>2. g \in DOMAIN executed[p] /\ g \in DOMAIN executed[q]
      BY <1>1, <1>2, <2>3, <2>4, <3>1, FramesAre
    <3>3. g \in DOMAIN timing[p] /\ g \in DOMAIN timing[q]
      BY <1>2, <2>3, <3>2, FramesAre
    <3>4. timing[p][g] = timing[q][g]
      BY <1>4, <2>1, <3>3
    <3>5. PICK x : Served(p, g, x)
      BY <1>2, <3>2 DEF Did, DoneRight
    <3>6. PICK y : Served(q, g, y)
      BY <1>2, <3>2 DEF Did, DoneRight
    <3>7. executed[p][g] = executed[q][g]
      BY <3>4, <3>5, <3>6, SameDone
    <3>8. PICK due : due = executed[p][g] /\ Len(due) \in Nat
      BY <3>5, ServedType
    <3>9. Comes(timing[p][g], due, timing[p][h]) /\ Comes(timing[p][g], due, timing[q][h])
      BY <1>1, <1>2, <2>3, <2>4, <3>2, <3>4, <3>7, <3>8 DEF Did, Follows
    <3> QED BY <3>8, <3>9, SameComes
  <2> QED BY <2>5, <2>6
<1> HIDE DEF I
<1>5. PICK n \in Nat : f = S * n
  <2>1. Multiple(f)
    BY <1>2 DEF Frames
  <2> QED BY <1>1, <2>1, MultipleIs
<1>6. \A k \in 0 .. n : k \in I
  BY <1>3, <1>4, UpTo
<1>7. n \in I
  BY <1>6
<1> QED BY <1>5, <1>7 DEF I

LEMMA StoryMeans ==
  ASSUME Basic, Past, Story
  PROVE  NeverTooLate /\ SameTiming /\ SameHistory
<1>1. \A r \in Players : Did(r)
  BY DEF Story
<1>2. NeverTooLate
  BY DEF Story, NeverTooLate
<1>3. SameTiming
  BY <1>1, TimingsAgree DEF SameTiming
<1>4. ASSUME NEW p \in Players, NEW q \in Players, NEW f \in DOMAIN executed[p], f \in DOMAIN executed[q]
      PROVE  executed[p][f] = executed[q][f]
  <2>1. Frames(p) /\ Frames(q) /\ frame[p] \in Nat /\ frame[q] \in Nat
    BY PlayerTypes DEF Past
  <2>2. Multiple(f)
    BY <2>1 DEF Frames
  <2>3. f \in DOMAIN timing[p] /\ f \in DOMAIN timing[q]
    BY <1>4, <2>1, <2>2, FramesAre
  <2>4. timing[p][f] = timing[q][f]
    BY <1>1, <2>3, TimingsAgree
  <2>5. PICK x : Served(p, f, x)
    BY <1>1 DEF Did, DoneRight
  <2>6. PICK y : Served(q, f, y)
    BY <1>1, <1>4 DEF Did, DoneRight
  <2> QED BY <2>4, <2>5, <2>6, SameDone
<1> QED BY <1>2, <1>3, <1>4 DEF SameHistory

-----------------------------------------------------------------------------
(* The start. *)

LEMMA StoryInit == ASSUME Init \/ Started PROVE Story
<1>1. Basic /\ Counts
  BY BasicInit, CountsInit
<1>2. InitFrames
  BY DEF Init, Started
<1>3. ASSUME NEW p \in Players
      PROVE  /\ phase[p] \in {"ready", "send"} /\ frame[p] = 0 /\ window[p] = << 0, 0 >>
             /\ humans[p] = Players /\ DoList[p] = << >> /\ sent[p] = << >>
             /\ DOMAIN executed[p] = {} /\ DOMAIN timing[p] = {0}
             /\ timing[p][0] = Timing(StartMaxAhead, << 0, 0 >>, Players)
  BY <1>2, <1>3 DEF Init, Started, InitFrames
<1>4. ASSUME NEW p \in Players, NEW h \in humans[p] PROVE Got(p, h) = 0
  <2>1. phase[p] # "left"
    BY <1>3
  <2>2. Got(p, h) \in 0 .. Len(sent[h]) /\ h \in Players
    BY <1>1, <1>4, <2>1, GotIs
  <2>3. Len(sent[h]) = 0
    BY <1>3, <2>2
  <2> QED BY <2>2, <2>3
<1>5. FrameSendRate > 0 /\ FrameSendRate \in Nat /\ StartMaxAhead \in Nat /\ StartMaxAhead >= 2 * FrameSendRate
  BY RatePositive, LeadsGood DEF Leads
<1>6. SUFFICES ASSUME NEW p \in Players PROVE phase[p] # "late" /\ Kept(p) /\ Did(p)
  BY DEF Story
<1>7. InTime(p)
  <2>1. Meant(p, 0, 0) = PutOff(0 + StartMaxAhead, << 0, 0 >>)
    BY <1>3 DEF Meant, Lead, Window, Timing
  <2>2. Meant(p, 0, 0) = StartMaxAhead
    BY <1>5, <2>1 DEF PutOff
  <2> QED BY <1>3, <1>5, <2>2 DEF InTime
<1>8. Copies(p) /\ InOrder(p)
  BY <1>3 DEF Copies, InOrder
<1>9. Complete(p)
  BY <1>4 DEF Complete
<1>10. Agrees(p)
  BY <1>3 DEF Agrees, Timing
<1>11. Did(p)
  BY <1>3, <1>5 DEF Did, Close, DoneRight, Follows
<1> QED BY <1>3, <1>7, <1>8, <1>9, <1>10, <1>11 DEF Kept

-----------------------------------------------------------------------------
(* The story of a player that has no part in a step. *)

\* h has at most given more, at the frame it was at.
Onto(h) ==
  /\ Len(sent[h]) \in Nat /\ DOMAIN sent[h] = 1 .. Len(sent[h])
  /\ Len(sent'[h]) \in Nat /\ DOMAIN sent'[h] = 1 .. Len(sent'[h])
  /\ Len(sent[h]) <= Len(sent'[h])
  /\ \A n \in DOMAIN sent[h] : sent'[h][n] = sent[h][n]
  /\ \A n \in DOMAIN sent'[h] : n \in DOMAIN sent[h] \/ sent'[h][n].at = frame[h]
  /\ frame[h] \in Nat /\ frame'[h] \in Nat /\ frame[h] <= frame'[h]

LEMMA OntoSame ==
  ASSUME Basic, NEW h \in Players, sent'[h] = sent[h], frame'[h] \in Nat, frame[h] <= frame'[h]
  PROVE  Onto(h)
BY PlayerTypes DEF Onto

LEMMA GotSame ==
  ASSUME NEW q, NEW h, sent'[q] = sent[q], conns'[q] = conns[q], their_recv'[q] = their_recv[q]
  PROVE  Got(q, h)' = Got(q, h)
<1>1. Place(q, h)' = Place(q, h)
  BY DEF Place
<1> QED BY <1>1 DEF Got

LEMMA KeptOther ==
  ASSUME Basic, Counts, NEW q \in Players, Frames(q), Kept(q), \A h \in Players : Onto(h),
         phase'[q] = "left" <=> phase[q] = "left", frame'[q] = frame[q], window'[q] = window[q],
         humans'[q] = humans[q], timing'[q] = timing[q], DoList'[q] = DoList[q],
         conns'[q] = conns[q], their_recv'[q] = their_recv[q], sent'[q] = sent[q]
  PROVE  Kept(q)'
<1>1. CASE phase'[q] = "left"
  BY <1>1 DEF Kept, InTime, Copies, Complete, InOrder, Agrees
<1>2. CASE phase'[q] # "left"
  <2>1. phase[q] # "left" /\ InTime(q) /\ Copies(q) /\ Complete(q) /\ InOrder(q) /\ Agrees(q)
    BY <1>2 DEF Kept
  <2>2. ASSUME NEW h \in humans[q]
        PROVE  /\ h \in Players /\ Got(q, h)' = Got(q, h) /\ Got(q, h) \in 0 .. Len(sent[h])
               /\ \A n \in 1 .. Got(q, h) : sent'[h][n] = sent[h][n]
    <3>1. h \in Players /\ Got(q, h) \in 0 .. Len(sent[h])
      BY <2>1, <2>2, GotIs
    <3>2. Got(q, h)' = Got(q, h)
      BY GotSame
    <3>3. Onto(h)
      BY <3>1
    <3> QED BY <3>1, <3>2, <3>3 DEF Onto
  <2>3. InTime(q)'
    <3> SUFFICES ASSUME NEW h \in humans[q] \ {q}, NEW g \in DOMAIN timing[q],
                        Meant(q, frame[q], g) < frame[q]
                 PROVE  /\ g < frame'[h]
                        /\ \A n \in DOMAIN sent'[h] : sent'[h][n].at = g => n <= Got(q, h)
      BY <2>2 DEF InTime, Meant, Lead, Window
    <3>1. g < frame[h] /\ \A n \in DOMAIN sent[h] : sent[h][n].at = g => n <= Got(q, h)
      BY <2>1 DEF InTime
    <3>2. g \in Int
      BY PlayerTypes DEF Frames
    <3>3. Onto(h)
      BY <2>2
    <3> QED BY <3>1, <3>2, <3>3 DEF Onto
  <2>4. Copies(q)'
    <3> SUFFICES ASSUME NEW i \in DOMAIN DoList[q], DoList[q][i].ID \in humans[q] PROVE Copy(q, DoList[q][i])'
      BY DEF Copies
    <3>1. Copy(q, DoList[q][i])
      BY <2>1 DEF Copies
    <3>2. PICK h \in humans[q] : h = DoList[q][i].ID
      OBVIOUS
    <3>3. PICK n \in 1 .. Got(q, h) : n = DoList[q][i].num
      BY <3>1, <3>2 DEF Copy
    <3>4. sent'[h][n] = sent[h][n] /\ Got(q, h)' = Got(q, h)
      BY <2>2
    <3> QED BY <3>1, <3>2, <3>3, <3>4 DEF Copy
  <2>5. Complete(q)'
    BY <2>1, <2>2 DEF Complete, Holds
  <2>6. InOrder(q)' /\ Agrees(q)'
    BY <2>1 DEF InOrder, Agrees
  <2> QED BY <2>3, <2>4, <2>5, <2>6 DEF Kept
<1> QED BY <1>1, <1>2

LEMMA WantedSame ==
  ASSUME NEW h, Onto(h), NEW f, NEW w,
         \A n \in DOMAIN sent'[h] : n \in DOMAIN sent[h] \/ PutOff(sent'[h][n].Frame, w) # f
  PROVE  Wanted(h, f, w)' = Wanted(h, f, w)
<1>1. ASSUME NEW n
      PROVE  n \in DOMAIN sent'[h] /\ PutOff(sent'[h][n].Frame, w) = f
             <=> n \in DOMAIN sent[h] /\ PutOff(sent[h][n].Frame, w) = f
  BY DEF Onto
<1>2. {n \in DOMAIN sent'[h] : PutOff(sent'[h][n].Frame, w) = f}
      = {n \in DOMAIN sent[h] : PutOff(sent[h][n].Frame, w) = f}
  BY <1>1
<1>3. \A n \in {m \in DOMAIN sent[h] : PutOff(sent[h][m].Frame, w) = f} : sent'[h][n] = sent[h][n]
  BY DEF Onto
<1> QED BY <1>2, <1>3 DEF Wanted

\* What was wanted at the frames q has executed is still all that is.
StillWanted(q) ==
  \A f \in DOMAIN executed[q] : \A h \in timing[q][f].humans : \A w :
    w = Window(q, f) => Wanted(h, f, w)' = Wanted(h, f, w)

LEMMA SameWanted ==
  ASSUME NEW q \in Players, \A h \in Players : sent'[h] = sent[h],
         \A f \in DOMAIN executed[q] : timing[q][f].humans \subseteq Players
  PROVE  StillWanted(q)
BY DEF StillWanted, Wanted

LEMMA ServedStays ==
  ASSUME NEW q, NEW f \in DOMAIN executed[q], NEW seqs, Served(q, f, seqs), StillWanted(q),
         timing'[q][f] = timing[q][f], executed'[q][f] = executed[q][f]
  PROVE  Served(q, f, seqs)'
<1>1. PICK w : w = Window(q, f)
  OBVIOUS
<1>2. Window(q, f)' = w
  BY <1>1 DEF Window
<1>3. \A h \in timing[q][f].humans : Wanted(h, f, w)' = Wanted(h, f, w)
  BY <1>1 DEF StillWanted
<1>4. \A h \in Players : Range(seqs[h]) = IF h \in timing[q][f].humans THEN Wanted(h, f, w) ELSE {}
  BY <1>1 DEF Served
<1>5. \A h \in Players : Range(seqs[h]) = IF h \in timing'[q][f].humans THEN Wanted(h, f, w)' ELSE {}
  BY <1>3, <1>4
<1>6. \A h \in Players : Range(seqs[h]) = IF h \in timing'[q][f].humans
                                          THEN Wanted(h, f, Window(q, f))' ELSE {}
  BY <1>2, <1>5
<1> QED BY <1>6 DEF Served

\* The frames only grow.
Onward == \A h \in Players : frame[h] \in Nat /\ frame'[h] \in Nat /\ frame[h] <= frame'[h]

LEMMA TimingIs ==
  ASSUME Basic, NEW q \in Players, Frames(q), NEW f, f \in DOMAIN timing[q] \/ f \in DOMAIN executed[q]
  PROVE  /\ f \in DOMAIN timing[q] /\ Multiple(f) /\ f \in 0 .. frame[q] /\ frame[q] \in Nat
         /\ timing[q][f] \in Timings /\ timing[q][f].humans \subseteq Players
         /\ Lead(q, f) \in Leads /\ Lead(q, f) \in Nat /\ Window(q, f) \in Frames0 \X Frames0
<1>1. frame[q] \in Nat
  BY PlayerTypes
<1>2. f \in DOMAIN timing[q]
  <2>1. f \in DOMAIN executed[q] => Multiple(f)
    BY DEF Frames
  <2> QED BY <1>1, <2>1, FramesAre
<1>3. Multiple(f) /\ f \in 0 .. frame[q] /\ timing[q][f] \in Timings
  BY <1>2 DEF Frames
<1>4. /\ timing[q][f].humans \subseteq Players
      /\ timing[q][f].MaxAhead \in Leads /\ timing[q][f].window \in Frames0 \X Frames0
  BY <1>3 DEF Timings
<1> QED BY <1>1, <1>2, <1>3, <1>4 DEF Lead, Window, Leads

LEMMA CloseOther ==
  ASSUME Basic, NEW q \in Players, Frames(q), Close(q), Onward,
         timing'[q] = timing[q], executed'[q] = executed[q]
  PROVE  Close(q)'
<1> SUFFICES ASSUME NEW f \in DOMAIN executed[q], NEW h \in timing[q][f].humans \ {q}
             PROVE  f < frame'[h] + Lead(q, f)
  BY DEF Close, Lead
<1>1. f < frame[h] + Lead(q, f)
  BY DEF Close
<1>2. f \in Nat /\ Lead(q, f) \in Nat /\ h \in Players
  BY TimingIs
<1> QED BY <1>1, <1>2 DEF Onward

LEMMA DidOther ==
  ASSUME Basic, NEW q \in Players, Frames(q), Did(q), Onward, StillWanted(q),
         timing'[q] = timing[q], executed'[q] = executed[q]
  PROVE  Did(q)'
<1>1. Close(q)'
  BY CloseOther DEF Did
<1>2. DoneRight(q)'
  <2> SUFFICES ASSUME NEW f \in DOMAIN executed[q] PROVE \E seqs : Served(q, f, seqs)'
    BY DEF DoneRight
  <2>1. PICK seqs : Served(q, f, seqs)
    BY DEF Did, DoneRight
  <2>2. Served(q, f, seqs)'
    BY <2>1, ServedStays
  <2> QED BY <2>2
<1>3. Follows(q)'
  BY DEF Did, Follows, Comes
<1> QED BY <1>1, <1>2, <1>3 DEF Did

\* Steps that give, receive and execute nothing.
LEMMA StorySame ==
  ASSUME Basic, Past, Counts, Story,
         UNCHANGED << frame, window, humans, conns, their_recv, DoList, sent, executed, timing >>,
         \A p \in Players : phase'[p] # "late" /\ (phase'[p] = "left" <=> phase[p] = "left")
  PROVE  Story'
<1>1. Onward /\ \A h \in Players : Onto(h)
  BY PlayerTypes, OntoSame DEF Onward
<1>2. SUFFICES ASSUME NEW q \in Players PROVE Kept(q)' /\ Did(q)'
  BY DEF Story
<1>3. Frames(q) /\ Kept(q) /\ Did(q)
  BY DEF Past, Story
<1>4. Kept(q)'
  BY <1>1, <1>3, KeptOther
<1>5. StillWanted(q)
  BY <1>3, TimingIs, SameWanted
<1>6. Did(q)'
  BY <1>1, <1>3, <1>5, DidOther
<1> QED BY <1>4, <1>6

LEMMA StoryFrameSync ==
  ASSUME Basic, Past, Counts, Story, NEW p \in Players, Send_FrameSync(p) PROVE Story'
<1>1. \A q \in Players : phase[q] # "late"
  BY DEF Story
<1> QED BY <1>1, StorySame DEF Send_FrameSync, local, peers, history

LEMMA StoryAllReady ==
  ASSUME Basic, Past, Counts, Story, NEW p \in Players, AllReady(p) PROVE Story'
<1>1. \A q \in Players : phase[q] # "late"
  BY DEF Story
<1>2. \A q \in Players : phase'[q] # "late" /\ (phase'[q] = "left" <=> phase[q] = "left")
  BY <1>1 DEF AllReady, Basic, Types
<1> QED BY <1>2, StorySame DEF AllReady, local, history

-----------------------------------------------------------------------------
(* The story when p sends. *)

\* What p sends now comes after every frame the others have executed, or was
\* given while they knew of it: no frame executed wanted it.
LEMMA SentLater ==
  ASSUME Basic, Past, Story, NEW p \in Players, phase[p] # "left",
         NEW q \in Players, NEW f \in DOMAIN executed[q], p \in timing[q][f].humans
  PROVE  PutOff(ExecFrame(p), Window(q, f)) # f
<1>1. PICK a \in Nat : a = frame[p] /\ Multiple(a)
  BY PlayerTypes
<1>2. ExecFrame(p) = a + MaxAhead[p] /\ MaxAhead[p] \in Nat
  BY <1>1, ExecFrameIs
<1>3. Frames(q) /\ Frames(p) /\ Did(q)
  BY DEF Past, Story
<1>4. /\ f \in DOMAIN timing[q] /\ f \in 0 .. frame[q] /\ frame[q] \in Nat
      /\ Lead(q, f) \in Nat /\ Window(q, f) \in Nat \X Nat
  BY <1>3, TimingIs DEF Frames0
<1>5. PutOff(ExecFrame(p), Window(q, f)) >= ExecFrame(p) /\ PutOff(ExecFrame(p), Window(q, f)) \in Nat
  BY <1>2, <1>4, PutOffIs
<1>6. f < frame[q]
  <2>1. Multiple(f)
    BY <1>3, TimingIs
  <2> QED BY <1>3, <1>4, <2>1, FramesAre
<1>7. MaxAhead[p] > 0
  <2>1. MaxAhead[p] >= 2 * FrameSendRate
    BY ExecFrameIs
  <2> QED BY <1>2, <2>1, RatePositive
<1>8. CASE f < a + MaxAhead[p]
  BY <1>2, <1>5, <1>8, <1>4
<1>9. CASE ~ (f < a + MaxAhead[p])
  <2>1. q # p /\ a <= f
    BY <1>1, <1>2, <1>4, <1>6, <1>7, <1>9
  <2>2. a < frame[q]
    BY <1>1, <1>4, <1>6, <2>1
  <2>3. a \in DOMAIN timing[q]
    BY <1>1, <1>3, <1>4, <2>2, FramesAre
  <2>4. a \in DOMAIN timing[p] /\ Lead(p, a) = MaxAhead[p]
    <3>1. a \in 0 .. frame[p]
      BY <1>1
    <3> QED BY <1>1, <1>3, <3>1 DEF Frames
  <2>5. timing[q][a] = timing[p][a]
    <3>1. \A r \in Players : Did(r)
      BY DEF Story
    <3> QED BY <2>3, <2>4, <3>1, TimingsAgree
  <2>6. Lead(q, a) = MaxAhead[p]
    BY <2>4, <2>5 DEF Lead
  <2>7. Meant(q, f, a) < f \/ Meant(q, f, a) >= a + Lead(q, f)
    BY <1>4, <2>1, <2>3 DEF Past, KeepsClear
  <2>8. Meant(q, f, a) = PutOff(ExecFrame(p), Window(q, f))
    BY <1>2, <2>6 DEF Meant
  <2>9. f < a + Lead(q, f)
    BY <1>1, <1>3, <2>1 DEF Did, Close
  <2> QED BY <1>1, <1>4, <1>5, <2>7, <2>8, <2>9
<1> QED BY <1>8, <1>9

LEMMA SendOnto ==
  ASSUME Basic, NEW p \in Players, Send_Packets(p), NEW out, Sends(p, out)
  PROVE  Onward /\ \A h \in Players : Onto(h)
<1>1. More(p, out) /\ \A q \in Players \ {p} : frame'[q] = frame[q] /\ sent'[q] = sent[q]
  BY SendMore
<1>2. Onto(p)
  BY <1>1, MoreIs DEF Onto, More
<1>3. ASSUME NEW h \in Players \ {p} PROVE Onto(h)
  <2>1. frame'[h] \in Nat /\ frame[h] <= frame'[h] /\ sent'[h] = sent[h]
    BY <1>1, PlayerTypes
  <2> QED BY <2>1, OntoSame
<1>4. \A h \in Players : Onto(h)
  BY <1>2, <1>3
<1> QED BY <1>4 DEF Onto, Onward

LEMMA SendWanted ==
  ASSUME Basic, Past, Story, NEW p \in Players, Send_Packets(p), NEW out, Sends(p, out),
         NEW q \in Players
  PROVE  StillWanted(q)
<1>1. \A h \in Players : Onto(h)
  BY SendOnto
<1>2. SUFFICES ASSUME NEW f \in DOMAIN executed[q], NEW h \in timing[q][f].humans, NEW w, w = Window(q, f)
               PROVE  Wanted(h, f, w)' = Wanted(h, f, w)
  BY DEF StillWanted
<1>3. h \in Players
  BY TimingIs DEF Past
<1>4. Onto(h)
  BY <1>1, <1>3
<1>5. ASSUME NEW n \in DOMAIN sent'[h] PROVE n \in DOMAIN sent[h] \/ PutOff(sent'[h][n].Frame, w) # f
  <2>1. CASE h # p
    <3>1. sent'[h] = sent[h]
      BY <1>3, <2>1 DEF Sends
    <3> QED BY <3>1
  <2>2. CASE h = p /\ n \notin DOMAIN sent[h]
    <3>1. More(p, out)
      BY SendMore
    <3>2. PICK i \in 1 .. Len(out) : n = Len(sent[p]) + i
      <4>1. PICK a \in Nat, b \in Nat : a = Len(sent[p]) /\ b = Len(out)
        BY <3>1, MoreIs
      <4>2. n \in 1 .. a + b /\ n \notin 1 .. a
        BY <2>2, <3>1, <4>1, MoreIs
      <4>3. n - a \in 1 .. b /\ n = a + (n - a)
        BY <4>2
      <4> QED BY <4>1, <4>3
    <3>3. sent'[p][n] = out[i]
      BY <3>1, <3>2, MoreIs
    <3>4. out[i].Frame = ExecFrame(p)
      BY DEF Sends
    <3>5. phase[p] # "left"
      BY SendIs
    <3>6. PutOff(ExecFrame(p), Window(q, f)) # f
      BY <2>2, <3>5, SentLater
    <3> QED BY <1>2, <2>2, <3>3, <3>4, <3>6
  <2> QED BY <2>1, <2>2
<1> QED BY <1>4, <1>5, WantedSame

\* What has been given is due no sooner than the second packet after it.
LEMMA SentFrames ==
  ASSUME Basic, Past, NEW h \in Players, NEW n \in DOMAIN sent[h]
  PROVE  /\ sent[h][n] \in GoodEvents /\ sent[h][n].ID = h /\ sent[h][n].num = n
         /\ sent[h][n].at \in DOMAIN timing[h] /\ sent[h][n].at \in Nat /\ Multiple(sent[h][n].at)
         /\ sent[h][n].Frame = sent[h][n].at + Lead(h, sent[h][n].at)
         /\ Lead(h, sent[h][n].at) \in Leads /\ sent[h][n].Frame \in Nat /\ Multiple(sent[h][n].Frame)
         /\ sent[h][n].Frame >= sent[h][n].at + 2 * FrameSendRate
<1>1. sent[h] \in Seq(GoodEvents)
  BY PlayerTypes
<1>2. sent[h][n] \in GoodEvents
  BY <1>1
<1>3. /\ sent[h][n].ID = h /\ sent[h][n].num = n /\ sent[h][n].at \in DOMAIN timing[h]
      /\ sent[h][n].Frame = sent[h][n].at + Lead(h, sent[h][n].at)
  BY DEF Past, Log
<1>4. PICK a : a = sent[h][n].at
  OBVIOUS
<1>5. Frames(h)
  BY DEF Past
<1>6. Multiple(a) /\ a \in 0 .. frame[h] /\ frame[h] \in Nat /\ Lead(h, a) \in Leads
  BY <1>3, <1>4, <1>5, TimingIs
<1>7. Lead(h, a) \in Nat /\ Multiple(Lead(h, a)) /\ Lead(h, a) >= 2 * FrameSendRate
  BY <1>6 DEF Leads
<1>8. Multiple(a + Lead(h, a))
  BY <1>6, <1>7, MultipleSum
<1>9. a \in Nat /\ a + Lead(h, a) \in Nat /\ a + Lead(h, a) >= a + 2 * FrameSendRate
  BY <1>6, <1>7, RatePositive
<1> QED BY <1>2, <1>3, <1>4, <1>6, <1>8, <1>9

LEMMA SameEvent == \A e \in GoodEvents : e = [e EXCEPT !.Frame = e.Frame]
BY DEF GoodEvents, Event

\* The events that p has of h, when more arrive or are given.
Gains(p) ==
  /\ phase'[p] # "left" /\ phase[p] # "left"
  /\ window'[p] = window[p] /\ humans'[p] = humans[p]
  /\ \A h \in humans[p] :
       /\ h \in Players /\ Onto(h) /\ Got(p, h) \in Nat /\ Got(p, h)' \in Nat
       /\ Got(p, h) <= Got(p, h)' /\ Got(p, h) <= Len(sent[h]) /\ Got(p, h)' <= Len(sent'[h])
  /\ \A h \in humans[p] : \A n \in 1 .. Len(sent[h]) :
       PutOff(sent[h][n].Frame, window[p]) >= frame[p]
       <=> PutOff(sent[h][n].Frame, window[p]) >= frame'[p]
  /\ frame[p] \in Nat /\ frame'[p] \in Nat /\ frame[p] <= frame'[p]

LEMMA CopyStays ==
  ASSUME NEW p, Gains(p), NEW e, Copy(p, e), e.ID \in humans[p]
  PROVE  Copy(p, e)'
<1>1. PICK h \in humans[p] : h = e.ID
  OBVIOUS
<1>2. PICK n \in 1 .. Got(p, h) : n = e.num
  BY <1>1 DEF Copy
<1>3. n \in 1 .. Got(p, h)' /\ n \in 1 .. Len(sent[h])
  BY DEF Gains
<1>4. sent'[h][n] = sent[h][n]
  BY <1>3 DEF Gains, Onto
<1>5. PutOff(e.Frame, window[p]) = PutOff(sent[h][n].Frame, window[p])
      /\ PutOff(e.Frame, window[p]) >= frame[p] /\ e = [sent[h][n] EXCEPT !.Frame = e.Frame]
  BY <1>1, <1>2 DEF Copy
<1>6. PutOff(e.Frame, window[p]) >= frame'[p] /\ window'[p] = window[p]
  BY <1>3, <1>5 DEF Gains
<1> QED BY <1>1, <1>2, <1>3, <1>4, <1>5, <1>6 DEF Copy

\* p appends to its DoList the events of h that it did not have.
Adds(p, h, more) ==
  /\ DoList[p] \in Seq(GoodEvents) /\ more \in Seq(GoodEvents) /\ DoList'[p] = DoList[p] \o more
  /\ h \in humans[p] /\ Got(p, h)' = Got(p, h) + Len(more)
  /\ \A r \in humans[p] \ {h} : Got(p, r)' = Got(p, r)
  /\ \A i \in 1 .. Len(more) :
       /\ more[i].ID = h /\ more[i].num = Got(p, h) + i
       /\ more[i] = sent'[h][Got(p, h) + i]
       /\ PutOff(more[i].Frame, window[p]) >= frame'[p]

LEMMA AddsIs ==
  ASSUME NEW p, NEW h, NEW more, Gains(p), Adds(p, h, more), NEW i \in DOMAIN DoList'[p]
  PROVE  \/ i \in DOMAIN DoList[p] /\ DoList'[p][i] = DoList[p][i]
         \/ \E j \in 1 .. Len(more) : i = Len(DoList[p]) + j /\ DoList'[p][i] = more[j]
<1>1. DoList[p] \in Seq(GoodEvents) /\ more \in Seq(GoodEvents) /\ DoList'[p] = DoList[p] \o more
  BY DEF Adds
<1>2. i \in 1 .. Len(DoList[p]) + Len(more) /\ (i <= Len(DoList[p]) \/ i - Len(DoList[p]) \in 1 .. Len(more))
  BY <1>1, JoinedIs
<1>3. Len(DoList[p]) \in Nat /\ Len(more) \in Nat
  BY <1>1
<1>4. CASE i <= Len(DoList[p])
  <2>1. i \in 1 .. Len(DoList[p])
    BY <1>2, <1>3, <1>4
  <2> QED BY <1>1, <2>1, JoinedIs
<1>5. CASE i - Len(DoList[p]) \in 1 .. Len(more)
  <2>1. PICK j \in 1 .. Len(more) : j = i - Len(DoList[p])
    BY <1>5
  <2>2. i = Len(DoList[p]) + j
    BY <1>2, <1>3, <2>1
  <2> QED BY <1>1, <2>2, JoinedIs
<1> QED BY <1>2, <1>4, <1>5

LEMMA CopiesAdd ==
  ASSUME NEW p, NEW h, NEW more, Gains(p), Adds(p, h, more), Copies(p)
  PROVE  Copies(p)'
<1> SUFFICES ASSUME NEW i \in DOMAIN DoList'[p], NEW e, e = DoList'[p][i], e.ID \in humans[p]
             PROVE  Copy(p, e)'
  BY DEF Copies, Gains
<1>1. CASE i \in DOMAIN DoList[p] /\ DoList'[p][i] = DoList[p][i]
  <2>1. Copy(p, e)
    BY <1>1 DEF Copies, Gains
  <2> QED BY <2>1, CopyStays
<1>2. ASSUME NEW j \in 1 .. Len(more), e = more[j] PROVE Copy(p, e)'
  <2>1. PICK n : n = Got(p, h) + j
    OBVIOUS
  <2>2. /\ more[j].ID = h /\ more[j].num = n /\ more[j] = sent'[h][n]
        /\ PutOff(more[j].Frame, window[p]) >= frame'[p] /\ Got(p, h)' = Got(p, h) + Len(more)
    BY <2>1 DEF Adds
  <2>3. more[j] \in GoodEvents /\ Len(more) \in Nat
    BY DEF Adds
  <2>4. Got(p, h) \in Nat
    BY DEF Gains, Adds
  <2>5. n \in 1 .. Got(p, h)'
    BY <2>1, <2>2, <2>3, <2>4
  <2>6. more[j] = [sent'[h][n] EXCEPT !.Frame = more[j].Frame]
    BY <2>2, <2>3, SameEvent
  <2>7. window'[p] = window[p]
    BY DEF Gains
  <2> QED BY <1>2, <2>2, <2>5, <2>6, <2>7 DEF Copy
<1> QED BY <1>1, <1>2, AddsIs

LEMMA CompleteAdd ==
  ASSUME NEW p, NEW h, NEW more, Gains(p), Adds(p, h, more), Complete(p)
  PROVE  Complete(p)'
<1> SUFFICES ASSUME NEW r \in humans[p], NEW n \in 1 .. Got(p, r)',
                    PutOff(sent'[r][n].Frame, window[p]) >= frame'[p]
             PROVE  Holds(p, r, n)'
  BY DEF Complete, Gains
<1>1. /\ DoList[p] \in Seq(GoodEvents) /\ more \in Seq(GoodEvents) /\ DoList'[p] = DoList[p] \o more
      /\ Len(DoList[p]) \in Nat /\ Len(more) \in Nat
      /\ DOMAIN DoList[p] = 1 .. Len(DoList[p]) /\ DOMAIN DoList'[p] = 1 .. Len(DoList[p]) + Len(more)
  <2>1. DoList[p] \in Seq(GoodEvents) /\ more \in Seq(GoodEvents) /\ DoList'[p] = DoList[p] \o more
    BY DEF Adds
  <2> QED BY <2>1, JoinedIs
<1>2. CASE n <= Got(p, r)
  <2>1. n \in 1 .. Got(p, r) /\ n \in 1 .. Len(sent[r])
    BY <1>2 DEF Gains
  <2>2. sent'[r][n] = sent[r][n]
    BY <2>1 DEF Gains, Onto
  <2>3. PutOff(sent[r][n].Frame, window[p]) >= frame[p]
    <3>1. PutOff(sent[r][n].Frame, window[p]) >= frame'[p]
      BY <2>2
    <3> QED BY <2>1, <3>1 DEF Gains
  <2>4. PICK i \in DOMAIN DoList[p] : DoList[p][i].ID = r /\ DoList[p][i].num = n
    BY <2>1, <2>3 DEF Complete, Holds, Gains
  <2>5. i \in DOMAIN DoList'[p] /\ DoList'[p][i] = DoList[p][i]
    BY <1>1, <2>4, JoinedIs
  <2> QED BY <2>4, <2>5 DEF Holds
<1>3. CASE n > Got(p, r)
  <2>1. r = h
    BY <1>3 DEF Adds, Gains
  <2>2. PICK j \in 1 .. Len(more) : n = Got(p, h) + j
    <3>1. Got(p, h)' = Got(p, h) + Len(more) /\ Got(p, h) \in Nat
      BY DEF Adds, Gains
    <3>2. n - Got(p, h) \in 1 .. Len(more) /\ n = Got(p, h) + (n - Got(p, h))
      BY <1>1, <1>3, <2>1, <3>1
    <3> QED BY <3>2
  <2>3. more[j].ID = h /\ more[j].num = n
    BY <2>2 DEF Adds
  <2>4. Len(DoList[p]) + j \in DOMAIN DoList'[p] /\ DoList'[p][Len(DoList[p]) + j] = more[j]
    BY <1>1, JoinedIs
  <2> QED BY <2>1, <2>3, <2>4 DEF Holds
<1>4. n <= Got(p, r) \/ n > Got(p, r)
  BY DEF Gains
<1> QED BY <1>2, <1>3, <1>4

LEMMA InOrderAdd ==
  ASSUME NEW p, NEW h, NEW more, Gains(p), Adds(p, h, more), Copies(p), InOrder(p)
  PROVE  InOrder(p)'
<1> SUFFICES ASSUME NEW i \in DOMAIN DoList'[p], NEW j \in DOMAIN DoList'[p], i < j,
                    DoList'[p][i].ID = DoList'[p][j].ID, DoList'[p][i].ID \in humans[p]
             PROVE  DoList'[p][i].num < DoList'[p][j].num
  BY DEF InOrder, Gains
<1>1. /\ Len(DoList[p]) \in Nat /\ Len(more) \in Nat /\ DOMAIN DoList[p] = 1 .. Len(DoList[p])
      /\ h \in humans[p] /\ Got(p, h) \in Nat
  <2>1. DoList[p] \in Seq(GoodEvents) /\ more \in Seq(GoodEvents) /\ h \in humans[p]
    BY DEF Adds
  <2>2. Got(p, h) \in Nat
    BY <2>1 DEF Gains
  <2> QED BY <2>1, <2>2
<1>2. CASE i \in DOMAIN DoList[p] /\ DoList'[p][i] = DoList[p][i]
  <2>1. CASE j \in DOMAIN DoList[p] /\ DoList'[p][j] = DoList[p][j]
    BY <1>2, <2>1 DEF InOrder, Gains
  <2>2. ASSUME NEW k \in 1 .. Len(more), j = Len(DoList[p]) + k, DoList'[p][j] = more[k]
        PROVE  DoList'[p][i].num < DoList'[p][j].num
    <3>1. more[k].ID = h /\ more[k].num = Got(p, h) + k
      BY DEF Adds
    <3>2. DoList[p][i].ID = h
      BY <1>2, <2>2, <3>1
    <3>3. Copy(p, DoList[p][i])
      BY <1>1, <1>2, <3>2 DEF Copies, Gains
    <3>4. DoList[p][i].num \in 1 .. Got(p, h)
      BY <3>2, <3>3 DEF Copy
    <3> QED BY <1>1, <1>2, <2>2, <3>1, <3>4
  <2> QED BY <2>1, <2>2, AddsIs
<1>3. ASSUME NEW k \in 1 .. Len(more), i = Len(DoList[p]) + k, DoList'[p][i] = more[k]
      PROVE  DoList'[p][i].num < DoList'[p][j].num
  <2>1. j \notin DOMAIN DoList[p]
    BY <1>1, <1>3
  <2>2. PICK l \in 1 .. Len(more) : j = Len(DoList[p]) + l /\ DoList'[p][j] = more[l]
    BY <2>1, AddsIs
  <2>3. more[k].num = Got(p, h) + k /\ more[l].num = Got(p, h) + l
    BY DEF Adds
  <2> QED BY <1>1, <1>3, <2>2, <2>3
<1> QED BY <1>2, <1>3, AddsIs

\* Send_Packets leaves p on its frame, but for frame 0.
LEMMA SendFrame ==
  ASSUME Basic, Past, NEW p \in Players, Send_Packets(p)
  PROVE  /\ phase[p] = "send" /\ phase'[p] \in {"send", "wait"}
         /\ window'[p] = window[p] /\ humans'[p] = humans[p]
         /\ conns'[p] = conns[p] /\ their_recv'[p] = their_recv[p]
         /\ frame[p] \in Nat /\ frame'[p] \in Nat /\ frame[p] <= frame'[p]
         /\ \/ frame'[p] = frame[p] /\ timing'[p] = timing[p]
            \/ frame[p] = 0 /\ frame'[p] = FrameSendRate /\ Grows(p, FrameSendRate, timing[p][0])
<1>1. /\ phase[p] = "send" /\ UNCHANGED << window, humans, conns, their_recv >>
      /\ frame[p] = 0 => /\ frame'[p] = FrameSendRate /\ phase'[p] = "send"
                         /\ timing'[p] = Recorded(timing[p], FrameSendRate, timing[p][0])
      /\ frame[p] # 0 => frame'[p] = frame[p] /\ phase'[p] = "wait" /\ timing'[p] = timing[p]
  BY SendIs
<1>2. frame[p] \in Nat /\ FrameSendRate \in Nat /\ FrameSendRate > 0
  BY PlayerTypes, RatePositive
<1>3. CASE frame[p] = 0
  <2>1. FrameSendRate \notin DOMAIN timing[p]
    BY <1>2, <1>3 DEF Past, Frames
  <2>2. Grows(p, FrameSendRate, timing[p][0])
    BY <1>1, <1>3, <2>1, PastGrows
  <2> QED BY <1>1, <1>2, <1>3, <2>2
<1> QED BY <1>1, <1>2, <1>3

LEMMA SendGains ==
  ASSUME Basic, Past, Counts, Story, NEW p \in Players, Send_Packets(p), NEW out, Sends(p, out)
  PROVE  Gains(p) /\ Adds(p, p, out)
<1>1. /\ phase[p] = "send" /\ phase'[p] \in {"send", "wait"}
      /\ window'[p] = window[p] /\ humans'[p] = humans[p]
      /\ conns'[p] = conns[p] /\ their_recv'[p] = their_recv[p]
      /\ frame[p] \in Nat /\ frame'[p] \in Nat /\ frame[p] <= frame'[p]
      /\ frame'[p] = frame[p] \/ (frame[p] = 0 /\ frame'[p] = FrameSendRate)
  BY SendFrame
<1>2. \A h \in Players : Onto(h)
  BY SendOnto
<1>3. More(p, out)
  BY SendMore
<1>4. Got(p, p) = Len(sent[p]) /\ Got(p, p)' = Len(sent'[p])
  BY DEF Got
<1>5. Len(sent'[p]) = Len(sent[p]) + Len(out) /\ Len(out) \in Nat /\ Len(sent[p]) \in Nat
  BY <1>3, MoreIs
<1>6. ASSUME NEW h \in humans[p], h # p PROVE Got(p, h)' = Got(p, h)
  <2>1. Place(p, h)' = Place(p, h)
    BY <1>1 DEF Place
  <2> QED BY <1>1, <1>6, <2>1 DEF Got
<1>7. window[p] \in Nat \X Nat /\ FrameSendRate \in Nat /\ FrameSendRate > 0
  BY PlayerTypes, RatePositive
<1>8. ASSUME NEW h \in humans[p]
      PROVE  /\ h \in Players /\ Onto(h) /\ Got(p, h) \in Nat /\ Got(p, h)' \in Nat
             /\ Got(p, h) <= Got(p, h)' /\ Got(p, h) <= Len(sent[h]) /\ Got(p, h)' <= Len(sent'[h])
  <2>1. h \in Players /\ Got(p, h) \in 0 .. Len(sent[h])
    BY <1>1, <1>8, GotIs
  <2>2. Onto(h)
    BY <1>2, <2>1
  <2>3. CASE h = p
    BY <1>4, <1>5, <2>1, <2>2, <2>3
  <2>4. CASE h # p
    BY <1>6, <2>1, <2>2, <2>4 DEF Onto
  <2> QED BY <2>3, <2>4
<1>9. ASSUME NEW h \in humans[p], NEW n \in 1 .. Len(sent[h])
      PROVE  PutOff(sent[h][n].Frame, window[p]) >= frame[p]
             <=> PutOff(sent[h][n].Frame, window[p]) >= frame'[p]
  <2>1. h \in Players /\ n \in DOMAIN sent[h]
    BY <1>8, <1>9 DEF Onto
  <2>2. PICK x \in Nat : x = sent[h][n].Frame
    BY <2>1, SentFrames
  <2>3. x >= 2 * FrameSendRate
    <3>1. PICK a \in Nat : a = sent[h][n].at
      BY <2>1, SentFrames
    <3>2. x >= a + 2 * FrameSendRate
      BY <2>1, <2>2, <3>1, SentFrames
    <3> QED BY <1>7, <3>1, <3>2
  <2>4. PutOff(x, window[p]) \in Nat /\ PutOff(x, window[p]) >= x
    BY <1>7, PutOffIs
  <2>5. PutOff(x, window[p]) >= frame[p] <=> PutOff(x, window[p]) >= frame'[p]
    BY <1>1, <1>7, <2>3, <2>4
  <2> QED BY <2>2, <2>5
<1>10. Gains(p)
  BY <1>1, <1>8, <1>9 DEF Gains
<1>11. ASSUME NEW i \in 1 .. Len(out)
       PROVE  /\ out[i].ID = p /\ out[i].num = Got(p, p) + i
              /\ out[i] = sent'[p][Got(p, p) + i]
              /\ PutOff(out[i].Frame, window[p]) >= frame'[p]
  <2>1. out[i].ID = p /\ out[i].num = Len(sent[p]) + i /\ out[i].Frame = ExecFrame(p)
    BY DEF Sends
  <2>2. sent'[p][Len(sent[p]) + i] = out[i]
    BY <1>3, MoreIs
  <2>3. PICK x : x = ExecFrame(p)
    OBVIOUS
  <2>4. x = frame[p] + MaxAhead[p] /\ MaxAhead[p] >= 2 * FrameSendRate /\ MaxAhead[p] \in Nat
    BY <2>3, ExecFrameIs
  <2>5. x \in Nat /\ x >= frame'[p]
    BY <1>1, <1>7, <2>4
  <2>6. PutOff(x, window[p]) >= x /\ PutOff(x, window[p]) \in Nat
    BY <1>7, <2>5, PutOffIs
  <2>7. PutOff(x, window[p]) >= frame'[p]
    BY <1>1, <2>5, <2>6
  <2> QED BY <1>4, <2>1, <2>2, <2>3, <2>7
<1>12. DoList[p] \in Seq(GoodEvents) /\ out \in Seq(GoodEvents) /\ DoList'[p] = DoList[p] \o out
  BY PlayerTypes DEF Sends
<1>13. p \in humans[p]
  BY DEF Basic, Joined
<1> QED BY <1>4, <1>5, <1>6, <1>10, <1>11, <1>12, <1>13 DEF Adds

LEMMA KeptSend ==
  ASSUME Basic, Past, Counts, Story, NEW p \in Players, Send_Packets(p), NEW out, Sends(p, out)
  PROVE  Kept(p)'
<1>1. Gains(p) /\ Adds(p, p, out)
  BY SendGains
<1>2. InTime(p) /\ Copies(p) /\ Complete(p) /\ InOrder(p) /\ Agrees(p)
  BY DEF Story, Kept
<1>3. Copies(p)' /\ Complete(p)' /\ InOrder(p)'
  BY <1>1, <1>2, CopiesAdd, CompleteAdd, InOrderAdd
<1>4. PICK S \in Nat : S = FrameSendRate /\ S > 0
  BY RatePositive
<1>5. /\ phase[p] = "send" /\ phase'[p] # "left"
      /\ window'[p] = window[p] /\ humans'[p] = humans[p] /\ frame[p] \in Nat
      /\ \/ frame'[p] = frame[p] /\ timing'[p] = timing[p]
         \/ frame[p] = 0 /\ frame'[p] = S /\ Grows(p, S, timing[p][0])
  BY <1>4, SendFrame
<1>6. Agrees(p)'
  BY <1>2, <1>5 DEF Agrees, Grows
<1>7. ASSUME frame'[p] = frame[p], timing'[p] = timing[p] PROVE InTime(p)'
  <2>1. SUFFICES ASSUME NEW h \in humans[p] \ {p}, NEW g \in DOMAIN timing[p],
                        Meant(p, frame[p], g) < frame[p]
                 PROVE  /\ g < frame'[h]
                        /\ \A n \in DOMAIN sent'[h] : sent'[h][n].at = g => n <= Got(p, h)'
    BY <1>5, <1>7 DEF InTime, Meant, Lead, Window
  <2>2. g < frame[h] /\ \A n \in DOMAIN sent[h] : sent[h][n].at = g => n <= Got(p, h)
    BY <1>2, <1>5, <2>1 DEF InTime
  <2>3. h \in Players
    BY <1>1 DEF Gains
  <2>4. frame'[h] = frame[h] /\ sent'[h] = sent[h]
    BY <2>3, SendMore
  <2>5. Got(p, h)' = Got(p, h)
    BY <1>1 DEF Adds
  <2> QED BY <2>2, <2>4, <2>5
<1>8. ASSUME frame[p] = 0, frame'[p] = S, Grows(p, S, timing[p][0]) PROVE InTime(p)'
  <2>1. SUFFICES ASSUME NEW g \in DOMAIN timing'[p], NEW f, f = S, Meant(p, f, g)' < f
                 PROVE  FALSE
    BY <1>8 DEF InTime
  <2>2. Frames(p)
    BY DEF Past
  <2>3. 0 \in DOMAIN timing[p]
    <3>1. 0 \in 0 .. frame[p] /\ Multiple(0)
      BY <1>8, MultipleRate
    <3> QED BY <2>2, <3>1 DEF Frames
  <2>4. Lead(p, 0) \in Leads /\ Window(p, 0) \in Nat \X Nat
    BY <2>2, <2>3, TimingIs DEF Frames0
  <2>5. g = 0 \/ g = S
    <3>1. g \in DOMAIN timing[p] \/ g = S
      BY <1>8 DEF Grows
    <3>2. g \in DOMAIN timing[p] => g \in 0 .. frame[p]
      BY <2>2, TimingIs
    <3> QED BY <1>8, <3>1, <3>2
  <2>6. Lead(p, g)' = Lead(p, 0) /\ Window(p, f)' = Window(p, 0)
    BY <1>8, <2>1, <2>3, <2>5 DEF Grows, Lead, Window
  <2>7. Meant(p, f, g)' = PutOff(g + Lead(p, 0), Window(p, 0))
    BY <2>6 DEF Meant
  <2>8. Lead(p, 0) \in Nat /\ Lead(p, 0) >= 2 * S
    BY <1>4, <2>4 DEF Leads
  <2>9. g + Lead(p, 0) \in Nat /\ g + Lead(p, 0) >= 2 * S
    BY <1>4, <2>5, <2>8
  <2>10. PICK x \in Nat : x = g + Lead(p, 0)
    BY <2>9
  <2>11. PutOff(x, Window(p, 0)) \in Nat /\ PutOff(x, Window(p, 0)) >= x
    BY <2>4, PutOffIs
  <2> QED BY <1>4, <2>1, <2>7, <2>9, <2>10, <2>11
<1>9. InTime(p)'
  BY <1>5, <1>7, <1>8
<1> QED BY <1>3, <1>6, <1>9 DEF Kept

LEMMA DidSend ==
  ASSUME Basic, Past, Counts, Story, NEW p \in Players, Send_Packets(p), NEW out, Sends(p, out)
  PROVE  Did(p)'
<1>1. Frames(p) /\ Did(p) /\ Onward /\ StillWanted(p) /\ executed'[p] = executed[p]
  BY SendOnto, SendWanted, SendIs DEF Past, Story
<1>2. CASE timing'[p] = timing[p]
  BY <1>1, <1>2, DidOther
<1>3. CASE frame[p] = 0 /\ Grows(p, FrameSendRate, timing[p][0])
  <2>1. DOMAIN executed[p] = {}
    BY <1>1, <1>3 DEF Frames
  <2>2. 0 \in DOMAIN timing[p]
    <3>1. 0 \in 0 .. frame[p] /\ Multiple(0)
      BY <1>3, MultipleRate
    <3> QED BY <1>1, <3>1 DEF Frames
  <2>3. timing'[p][0] = timing[p][0] /\ timing'[p][FrameSendRate] = timing[p][0]
    BY <1>3, <2>2 DEF Grows
  <2>4. timing[p][0] = Timing(StartMaxAhead, << 0, 0 >>, Players)
    BY <1>1 DEF Did, Follows
  <2>5. Close(p)' /\ DoneRight(p)'
    BY <1>1, <2>1 DEF Close, DoneRight
  <2>6. Follows(p)'
    BY <1>1, <2>1, <2>3, <2>4 DEF Follows
  <2> QED BY <2>5, <2>6 DEF Did
<1> QED BY <1>2, <1>3, SendFrame

LEMMA StorySend ==
  ASSUME Basic, Past, Counts, Story, NEW p \in Players, Send_Packets(p) PROVE Story'
<1>1. PICK out : Sends(p, out)
  BY SendIs
<1>2. SUFFICES ASSUME NEW q \in Players PROVE phase'[q] # "late" /\ Kept(q)' /\ Did(q)'
  BY DEF Story
<1>3. phase[q] # "late" /\ Frames(q) /\ Kept(q) /\ Did(q)
  BY DEF Past, Story
<1>4. Onward /\ StillWanted(q) /\ \A h \in Players : Onto(h)
  BY <1>1, SendOnto, SendWanted
<1>5. CASE q = p
  BY <1>1, <1>5, SendFrame, KeptSend, DidSend
<1>6. CASE q # p
  <2>1. /\ UNCHANGED << window, humans, conns, their_recv, executed >>
        /\ phase'[q] = phase[q] /\ frame'[q] = frame[q] /\ timing'[q] = timing[q]
    BY <1>6, SendIs
  <2>2. DoList'[q] = DoList[q] /\ sent'[q] = sent[q]
    BY <1>1, <1>6 DEF Sends
  <2>3. Kept(q)'
    BY <1>3, <1>4, <2>1, <2>2, KeptOther
  <2>4. Did(q)'
    BY <1>3, <1>4, <2>1, DidOther
  <2> QED BY <1>3, <2>1, <2>3, <2>4
<1> QED BY <1>5, <1>6

-----------------------------------------------------------------------------
(* The story when p receives. *)

\* The events of k are the next of q's.
Takes(p, q, k) ==
  /\ k.events \in Seq(GoodEvents) /\ Len(k.events) \in Nat
  /\ Got(p, q) + Len(k.events) <= Len(sent[q]) /\ Len(sent[q]) < CountMod
  /\ \A j \in 1 .. Len(k.events) : k.events[j] = sent[q][Got(p, q) + j]

\* An event p does not have yet cannot be late, since all that was is in time.
LEMMA NotLate ==
  ASSUME Basic, Past, Story, NEW p \in Players, phase[p] # "left", NEW q \in humans[p] \ {p},
         NEW n \in DOMAIN sent[q], Got(p, q) \in Nat, n > Got(p, q)
  PROVE  PutOff(sent[q][n].Frame, window[p]) >= frame[p]
<1>1. q \in Players /\ Frames(p) /\ Frames(q) /\ InTime(p) /\ frame[p] \in Nat /\ window[p] \in Nat \X Nat
  BY PlayerTypes DEF Past, Story, Kept
<1>2. PICK a : a = sent[q][n].at
  OBVIOUS
<1>3. PICK x \in Nat : x = sent[q][n].Frame
  BY <1>1, SentFrames
<1>4. /\ a \in DOMAIN timing[q] /\ a \in Nat /\ Multiple(a) /\ x = a + Lead(q, a)
      /\ x >= a + 2 * FrameSendRate
  BY <1>1, <1>2, <1>3, SentFrames
<1>5. PutOff(x, window[p]) \in Nat /\ PutOff(x, window[p]) >= x
  BY <1>1, PutOffIs
<1>6. SUFFICES ASSUME PutOff(x, window[p]) < frame[p] PROVE FALSE
  BY <1>1, <1>3, <1>5
<1>7. a < frame[p]
  BY <1>1, <1>4, <1>5, <1>6, RatePositive
<1>8. a \in DOMAIN timing[p]
  BY <1>1, <1>4, <1>7, FramesAre
<1>9. timing[p][a] = timing[q][a]
  <2>1. \A r \in Players : Did(r)
    BY DEF Story
  <2> QED BY <1>1, <1>4, <1>8, <2>1, TimingsAgree
<1>10. Window(p, frame[p]) = window[p]
  BY <1>1 DEF Frames
<1>11. Meant(p, frame[p], a) = PutOff(x, window[p])
  BY <1>4, <1>9, <1>10 DEF Meant, Lead
<1>12. n <= Got(p, q)
  BY <1>1, <1>2, <1>6, <1>8, <1>11 DEF InTime
<1>13. n \in Nat
  <2>1. DOMAIN sent[q] = 1 .. Len(sent[q])
    BY <1>1, PlayerTypes
  <2> QED BY <2>1
<1> QED BY <1>12, <1>13

LEMMA ReceiveGains ==
  ASSUME Basic, Past, Counts, Story, NEW p \in Players, NEW q \in Players, Listening(p, q),
         NEW k, Processed(p, q, k), Takes(p, q, k)
  PROVE  Gains(p) /\ Adds(p, q, k.events)
<1>1. /\ phase' = phase /\ frame' = frame /\ window' = window /\ humans' = humans
      /\ conns' = conns /\ sent' = sent
  BY DEF Processed
<1>2. phase[p] # "left" /\ Connected(p, q)
  BY DEF Listening
<1>3. q \in humans[p] \ {p}
  BY <1>2, ConnectedRange DEF Basic, Joined
<1>4. \A h \in Players : Onto(h)
  BY <1>1, PlayerTypes, OntoSame
<1>5. PICK len \in Nat : len = Len(k.events)
  BY DEF Takes
<1>6. PICK i \in 1 .. N - 1 : i = Place(p, q)
  BY DEF Processed
<1>7. /\ Got(p, q) \in 0 .. Len(sent[q]) /\ Len(sent[q]) \in Nat /\ Got(p, q) = their_recv[p][i]
      /\ DOMAIN sent[q] = 1 .. Len(sent[q])
  BY <1>2, <1>3, <1>6, GotIs
<1>8. Place(p, q)' = Place(p, q)
  BY <1>1 DEF Place
<1>9. Got(p, q)' = their_recv'[p][i]
  BY <1>3, <1>6, <1>8 DEF Got
<1>10. their_recv'[p][i] = (Got(p, q) + len) % CountMod
  BY <1>5, <1>6, <1>7 DEF Processed
<1>11. Got(p, q) + len \in 0 .. CountMod - 1 /\ CountMod \in Nat /\ Got(p, q) + len <= Len(sent[q])
  <2>1. PICK g \in Nat : g = Got(p, q)
    BY <1>7
  <2>2. PICK l \in Nat : l = Len(sent[q])
    BY <1>7
  <2>3. g + len <= l /\ l < CountMod
    BY <1>5, <2>1, <2>2 DEF Takes
  <2>4. CountMod \in Nat
    BY LockstepAssumption
  <2> QED BY <2>1, <2>2, <2>3, <2>4
<1>12. Got(p, q)' = Got(p, q) + len
  BY <1>9, <1>10, <1>11
<1>13. ASSUME NEW h \in humans[p], h # q PROVE Got(p, h)' = Got(p, h)
  <2>1. CASE h = p
    BY <1>1, <2>1 DEF Got
  <2>2. CASE h # p
    <3>1. PICK j \in 1 .. N - 1 : j = Place(p, h) /\ conns[p][j] = h /\ Got(p, h) = their_recv[p][j]
      BY <1>2, <2>2, GotIs
    <3>2. Place(p, h)' = j
      BY <1>1, <3>1 DEF Place
    <3>3. j # i
      BY <1>6, <1>13, <3>1 DEF Processed
    <3>4. their_recv'[p][j] = their_recv[p][j]
      BY <1>6, <3>3 DEF Processed
    <3> QED BY <2>2, <3>1, <3>2, <3>4 DEF Got
  <2> QED BY <2>1, <2>2
<1>14. ASSUME NEW h \in humans[p]
       PROVE  /\ h \in Players /\ Onto(h) /\ Got(p, h) \in Nat /\ Got(p, h)' \in Nat
              /\ Got(p, h) <= Got(p, h)' /\ Got(p, h) <= Len(sent[h]) /\ Got(p, h)' <= Len(sent'[h])
  <2>1. h \in Players /\ Got(p, h) \in 0 .. Len(sent[h]) /\ Len(sent[h]) \in Nat
    BY <1>2, <1>14, GotIs
  <2>2. CASE h = q
    BY <1>1, <1>4, <1>11, <1>12, <2>1, <2>2
  <2>3. CASE h # q
    BY <1>1, <1>4, <1>13, <2>1, <2>3
  <2> QED BY <2>2, <2>3
<1>15. Gains(p)
  BY <1>1, <1>2, <1>14, PlayerTypes DEF Gains
<1>16. ASSUME NEW j \in 1 .. Len(k.events)
       PROVE  /\ k.events[j].ID = q /\ k.events[j].num = Got(p, q) + j
              /\ k.events[j] = sent'[q][Got(p, q) + j]
              /\ PutOff(k.events[j].Frame, window[p]) >= frame'[p]
  <2>1. PICK n : n = Got(p, q) + j
    OBVIOUS
  <2>2. n \in DOMAIN sent[q] /\ n > Got(p, q)
    <3>1. PICK g \in Nat : g = Got(p, q)
      BY <1>7
    <3>2. PICK l \in Nat : l = Len(sent[q])
      BY <1>7
    <3>3. j \in 1 .. len /\ g + len <= l
      BY <1>5, <1>11, <3>1, <3>2
    <3>4. g + j \in 1 .. l /\ g + j > g
      BY <3>3
    <3> QED BY <1>7, <2>1, <3>1, <3>2, <3>4
  <2>3. k.events[j] = sent[q][n]
    BY <2>1 DEF Takes
  <2>4. sent[q][n].ID = q /\ sent[q][n].num = n
    BY <2>2, SentFrames
  <2>5. PutOff(sent[q][n].Frame, window[p]) >= frame[p]
    BY <1>2, <1>3, <1>7, <2>2, NotLate
  <2> QED BY <1>1, <2>1, <2>3, <2>4, <2>5
<1>17. DoList[p] \in Seq(GoodEvents) /\ k.events \in Seq(GoodEvents) /\ DoList'[p] = DoList[p] \o k.events
  BY PlayerTypes DEF Takes, Processed
<1> QED BY <1>3, <1>5, <1>12, <1>13, <1>15, <1>16, <1>17 DEF Adds

LEMMA SameMarks ==
  ASSUME NEW a \in Marks, NEW b \in Marks, \A i \in 1 .. N - 1 : a[i] = b[i]
  PROVE  a = b
<1>1. a = [i \in 1 .. N - 1 |-> a[i]]
  BY DEF Marks
<1>2. b = [i \in 1 .. N - 1 |-> b[i]]
  BY DEF Marks
<1>3. [i \in 1 .. N - 1 |-> a[i]] = [i \in 1 .. N - 1 |-> b[i]]
  OBVIOUS
<1> QED BY <1>1, <1>2, <1>3

LEMMA StoryProcess ==
  ASSUME Basic, Past, Counts, Story, NEW p \in Players, NEW q \in Players, Listening(p, q),
         NEW k, Processed(p, q, k), Takes(p, q, k)
  PROVE  Story'
<1>1. /\ phase' = phase /\ frame' = frame /\ window' = window /\ humans' = humans
      /\ conns' = conns /\ sent' = sent /\ executed' = executed /\ timing' = timing
  BY DEF Processed
<1>2. Onward /\ \A h \in Players : Onto(h)
  <2>1. ASSUME NEW h \in Players PROVE frame[h] \in Nat /\ frame'[h] \in Nat /\ frame[h] <= frame'[h]
    <3>1. frame[h] \in Nat /\ frame'[h] = frame[h]
      BY <1>1, PlayerTypes
    <3> QED BY <3>1
  <2>2. ASSUME NEW h \in Players PROVE Onto(h)
    <3>1. sent'[h] = sent[h]
      BY <1>1
    <3> QED BY <2>1, <3>1, OntoSame
  <2> QED BY <2>1, <2>2 DEF Onward
<1>3. SUFFICES ASSUME NEW r \in Players PROVE phase'[r] # "late" /\ Kept(r)' /\ Did(r)'
  BY DEF Story
<1>4. phase[r] # "late" /\ Frames(r) /\ Kept(r) /\ Did(r)
  BY DEF Past, Story
<1>5. Did(r)'
  <2>1. StillWanted(r)
    BY <1>1, <1>4, TimingIs, SameWanted
  <2> QED BY <1>1, <1>2, <1>4, <2>1, DidOther
<1>6. CASE r # p
  <2>1. DoList'[r] = DoList[r]
    BY <1>6 DEF Processed
  <2>2. their_recv'[r] = their_recv[r]
    <3>1. PICK a \in Marks : a = their_recv'[r]
      BY DEF Processed
    <3>2. PICK b \in Marks : b = their_recv[r]
      BY PlayerTypes
    <3>3. \A i \in 1 .. N - 1 : a[i] = b[i]
      BY <1>6, <3>1, <3>2 DEF Processed
    <3>4. a = b
      BY <3>3, SameMarks
    <3> QED BY <3>1, <3>2, <3>4
  <2>3. Kept(r)'
    BY <1>1, <1>2, <1>4, <2>1, <2>2, KeptOther
  <2> QED BY <1>1, <1>4, <1>5, <2>3
<1>7. CASE r = p
  <2>1. Gains(p) /\ Adds(p, q, k.events)
    BY ReceiveGains
  <2>2. InTime(p) /\ Copies(p) /\ Complete(p) /\ InOrder(p) /\ Agrees(p)
    BY <1>4, <1>7 DEF Kept
  <2>3. PICK more : more = k.events
    OBVIOUS
  <2>4. Adds(p, q, more)
    BY <2>1, <2>3
  <2>5. Copies(p)' /\ Complete(p)' /\ InOrder(p)'
    BY <2>1, <2>2, <2>4, CopiesAdd, CompleteAdd, InOrderAdd
  <2>6. Agrees(p)'
    BY <1>1, <2>2 DEF Agrees
  <2>7. InTime(p)'
    <3>1. SUFFICES ASSUME NEW h \in humans[p] \ {p}, NEW g \in DOMAIN timing[p],
                          Meant(p, frame[p], g) < frame[p], NEW n \in DOMAIN sent[h], sent[h][n].at = g
                   PROVE  g < frame[h] /\ n <= Got(p, h)'
      <4>1. \A h \in humans[p] \ {p} : \A g \in DOMAIN timing[p] :
              Meant(p, frame[p], g) < frame[p] => g < frame[h]
        BY <2>1, <2>2 DEF InTime, Gains
      <4> QED BY <1>1, <4>1 DEF InTime, Meant, Lead, Window
    <3>2. g < frame[h] /\ n <= Got(p, h)
      BY <2>1, <2>2, <3>1 DEF InTime, Gains
    <3>3. n \in Nat /\ Got(p, h) \in Nat /\ Got(p, h)' \in Nat /\ Got(p, h) <= Got(p, h)'
      <4>1. h \in Players
        BY <2>1 DEF Gains
      <4>2. n \in Nat
        BY <4>1, PlayerTypes
      <4> QED BY <2>1, <4>2 DEF Gains
    <3> QED BY <3>2, <3>3
  <2> QED BY <1>1, <1>4, <1>5, <1>7, <2>5, <2>6, <2>7 DEF Kept
<1> QED BY <1>6, <1>7

LEMMA StoryReceiveInfo ==
  ASSUME Basic, Past, Counts, CountsFit, Story, NEW p \in Players, NEW q \in Players, ReceiveInfo(p, q)
  PROVE  Story'
<1>1. Listening(p, q)
  BY DEF ReceiveInfo
<1>2. PICK k \in info[q][p] : Process_Receive_Packet(p, q, k)
  BY DEF ReceiveInfo
<1>3. k \in GoodPackets
  BY PacketTypes
<1>4. k.events = << >>
  BY DEF Counts, Stamped
<1>5. q \in humans[p] \ {p} /\ phase[p] # "left"
  BY <1>1, ConnectedRange DEF Listening, Basic, Joined
<1>6. Got(p, q) \in 0 .. Len(sent[q]) /\ Len(sent[q]) \in Nat
  BY <1>5, GotIs
<1>7. Len(sent[q]) < CountMod
  BY DEF CountsFit
<1>8. Takes(p, q, k)
  BY <1>4, <1>6, <1>7 DEF Takes
<1>9. Processed(p, q, k)
  BY <1>1, <1>2, <1>3, ProcessIs
<1> QED BY <1>1, <1>8, <1>9, StoryProcess

LEMMA StoryReceiveCommands ==
  ASSUME Basic, Past, Counts, CountsFit, Story, NEW p \in Players, NEW q \in Players, ReceiveCommands(p, q)
  PROVE  Story'
<1>1. Listening(p, q) /\ chan[q][p] # << >>
  BY DEF ReceiveCommands
<1>2. PICK c \in Seq(GoodPackets) : c = chan[q][p]
  BY PacketTypes
<1>3. PICK k : k = c[1]
  OBVIOUS
<1>4. 1 \in DOMAIN chan[q][p] /\ k = chan[q][p][1] /\ Head(chan[q][p]) = k
  BY <1>1, <1>2, <1>3
<1>5. k \in GoodPackets /\ k.events \in Seq(GoodEvents) /\ Len(k.events) \in Nat
  <2>1. k \in GoodPackets
    BY <1>4, PacketTypes
  <2>2. k.events \in Seq(GoodEvents)
    BY <2>1 DEF GoodPackets
  <2> QED BY <2>1, <2>2
<1>6. Process_Receive_Packet(p, q, k)
  BY <1>4 DEF ReceiveCommands
<1>7. q \in humans[p] \ {p} /\ phase[p] # "left"
  BY <1>1, ConnectedRange DEF Listening, Basic, Joined
<1>8. PICK from : from = Got(p, q) /\ Link(p, q, from)
  BY <1>7, GotIs
<1>9. PICK s \in Seq(GoodEvents) : s = sent[q]
  BY PlayerTypes
<1>10. PICK upto : Carries(s, c, from, upto)
  BY <1>2, <1>8, <1>9 DEF Link
<1>11. /\ from + Len(k.events) = upto[1] /\ upto[1] \in 0 .. Len(s)
       /\ \A j \in 1 .. Len(k.events) : k.events[j] = s[from + j]
  <2>1. c # << >>
    BY <1>1, <1>2
  <2> QED BY <1>3, <1>10, <2>1, CarriesTail
<1>12. Len(sent[q]) < CountMod
  BY DEF CountsFit
<1>13. Takes(p, q, k)
  BY <1>5, <1>8, <1>9, <1>11, <1>12 DEF Takes
<1>14. Processed(p, q, k)
  BY <1>1, <1>5, <1>6, ProcessIs
<1> QED BY <1>1, <1>13, <1>14, StoryProcess

-----------------------------------------------------------------------------
(* The story when p executes a frame. *)

\* What Can_Advance makes sure of: of what is due by now p has everything.
ByNow(p) ==
  \A h \in humans[p] \ {p} :
    /\ frame[p] < frame[h] + MaxAhead[p]
    /\ \A g \in Nat : g + MaxAhead[p] <= frame[p] =>
         /\ g < frame[h]
         /\ \A n \in DOMAIN sent[h] : sent[h][n].at = g => n <= Got(p, h)

LEMMA ByNowIs ==
  ASSUME Basic, Past, Counts, NEW p \in Players, phase[p] # "left", Can_Advance(p)
  PROVE  ByNow(p)
<1> SUFFICES ASSUME NEW h \in humans[p] \ {p}
             PROVE  /\ frame[p] < frame[h] + MaxAhead[p]
                    /\ \A g \in Nat : g + MaxAhead[p] <= frame[p] =>
                         /\ g < frame[h]
                         /\ \A n \in DOMAIN sent[h] : sent[h][n].at = g => n <= Got(p, h)
  BY DEF ByNow
<1>1. /\ h \in Players /\ Connected(p, h) /\ Got(p, h) \in 0 .. Len(sent[h]) /\ Len(sent[h]) \in Nat
      /\ DOMAIN sent[h] = 1 .. Len(sent[h])
  BY GotIs
<1>2. PICK i \in 1 .. N - 1 : /\ i = Place(p, h) /\ i \in DOMAIN conns[p] /\ conns[p][i] = h
                              /\ Got(p, h) = their_recv[p][i]
  BY GotIs
<1>3. PICK f \in Int : f = their_frame[p][i]
  BY <1>2, MarkTypes
<1>4. PICK c \in Int : c = their_sent[p][i]
  BY <1>2, MarkTypes
<1>5. Got(p, h) >= c /\ frame[p] < f + MaxAhead[p] /\ f <= frame[h]
  BY <1>1, <1>2, <1>3, <1>4, CanAdvanceIs
<1>6. Says(h, f, c)
  BY <1>1, <1>2, <1>3, <1>4 DEF Counts, Heard
<1>7. frame[p] \in Nat /\ frame[h] \in Nat /\ MaxAhead[p] \in Nat
  BY <1>1, PlayerTypes DEF Leads
<1>8. frame[p] < frame[h] + MaxAhead[p]
  BY <1>5, <1>7
<1>9. ASSUME NEW g \in Nat, g + MaxAhead[p] <= frame[p] PROVE g < f /\ g < frame[h]
  BY <1>5, <1>7, <1>9
<1>10. ASSUME NEW g \in Nat, g + MaxAhead[p] <= frame[p], NEW n \in DOMAIN sent[h], sent[h][n].at = g
       PROVE  n <= Got(p, h)
  <2>1. n <= c
    BY <1>6, <1>9, <1>10 DEF Says
  <2>2. n \in Nat
    BY <1>1
  <2>3. PICK x \in Nat : x = Got(p, h)
    BY <1>1
  <2> QED BY <1>5, <2>1, <2>2, <2>3
<1> QED BY <1>8, <1>9, <1>10

\* Steps and what is put off: by the next frame is done what is by this one.
LEMMA StepPut ==
  ASSUME Basic, Past, NEW p \in Players, phase[p] # "left", NEW y, Steps(p, y),
         NEW x \in Nat, Multiple(x)
  PROVE  /\ PutOff(x, y.window) < frame[p] + FrameSendRate <=> PutOff(x, window[p]) <= frame[p]
         /\ PutOff(x, window[p]) > frame[p] =>
              PutOff(PutOff(x, window[p]), y.window) = PutOff(x, y.window)
         /\ PutOff(x, window[p]) \in Nat /\ PutOff(x, y.window) \in Nat
<1>1. PICK f \in Nat : f = frame[p] /\ Multiple(f)
  BY PlayerTypes
<1>2. PICK S \in Nat : S = FrameSendRate /\ S > 0
  BY RatePositive
<1>3. PICK w \in Frames0 \X Frames0 : w = window[p]
  <2>1. Frames(p)
    BY DEF Past
  <2>2. frame[p] \in 0 .. frame[p]
    BY <1>1
  <2>3. frame[p] \in DOMAIN timing[p] /\ Window(p, frame[p]) = window[p]
    BY <1>1, <2>1, <2>2 DEF Frames
  <2> QED BY <2>1, <2>3, TimingIs
<1>4. PICK v \in Frames0 \X Frames0 : v = y.window
  BY DEF Steps, Timings
<1>5. /\ w \in Nat \X Nat /\ v \in Nat \X Nat /\ w[1] \in Nat /\ w[2] \in Nat /\ v[1] \in Nat /\ v[2] \in Nat
      /\ Multiple(w[2]) /\ Multiple(v[2])
  BY <1>3, <1>4 DEF Frames0
<1>6. \/ v = w
      \/ w[2] <= f /\ \E m \in Leads : v = << f, f + m >>
  BY <1>1, <1>3, <1>4 DEF Steps
<1>7. PICK a \in Nat : /\ a = PutOff(x, w) /\ a >= x /\ PutOff(a, w) = a /\ Multiple(a)
                       /\ (x <= w[1] \/ w[2] <= x => a = x) /\ (w[1] < x /\ x < w[2] => a = w[2])
  BY <1>5, PutOffIs
<1>8. PICK b \in Nat : /\ b = PutOff(x, v) /\ b >= x /\ Multiple(b)
                       /\ (x <= v[1] \/ v[2] <= x => b = x) /\ (v[1] < x /\ x < v[2] => b = v[2])
  BY <1>5, PutOffIs
<1>9. CASE v = w
  <2>1. b = a
    BY <1>7, <1>8, <1>9
  <2>2. b < f + S <=> a <= f
    <3>1. a <= f => b < f + S
      BY <1>2, <2>1
    <3>2. f < a => f + S <= a
      BY <1>1, <1>2, <1>7, MultipleStep
    <3> QED BY <1>2, <2>1, <3>1, <3>2
  <2> QED BY <1>1, <1>2, <1>3, <1>4, <1>7, <1>8, <1>9, <2>1, <2>2
<1>10. ASSUME w[2] <= f, NEW m \in Leads, v = << f, f + m >>
       PROVE  (b < f + S <=> a <= f) /\ (a > f => a = x)
  <2>1. m \in Nat /\ m >= 2 * S /\ v[1] = f /\ v[2] = f + m
    BY <1>2, <1>10 DEF Leads
  <2>2. a > f => a = x
    BY <1>5, <1>7, <1>10
  <2>3. a <= f => b < f + S
    BY <1>2, <1>7, <1>8, <2>1
  <2>4. b < f + S => x <= f
    BY <1>2, <1>8, <2>1
  <2>5. x <= f => a <= f
    BY <1>5, <1>7, <1>10
  <2> QED BY <2>2, <2>3, <2>4, <2>5
<1>11. CASE w[2] <= f /\ \E m \in Leads : v = << f, f + m >>
  <2>1. (b < f + S <=> a <= f) /\ (a > f => a = x)
    BY <1>10, <1>11
  <2> QED BY <1>1, <1>2, <1>3, <1>4, <1>7, <1>8, <2>1
<1> QED BY <1>6, <1>9, <1>11

\* What p holds at the place i is the n-th event of h, put off if it has to be.
HeldAs(p, i, h, n) ==
  LET e == Rescheduled(p)[i]
  IN  /\ e.ID = h /\ e.num = n /\ DoList[p][i].ID = h /\ DoList[p][i].num = n
      /\ h \in Players /\ n \in 1 .. Got(p, h) /\ n \in DOMAIN sent[h]
      /\ e.Frame = PutOff(sent[h][n].Frame, window[p]) /\ e.Frame >= frame[p]
      /\ e.Frame \in Nat
      /\ e = [sent[h][n] EXCEPT !.Frame = e.Frame]

LEMMA HeldIs ==
  ASSUME Basic, Counts, NEW p \in Players, phase[p] # "left", Copies(p), NEW i \in DOMAIN DoList[p],
         Rescheduled(p)[i].ID \in humans[p] \/ DoList[p][i].ID \in humans[p]
  PROVE  \E h \in humans[p] : \E n : HeldAs(p, i, h, n)
<1>1. PICK d \in GoodEvents : d = DoList[p][i]
  <2>1. DoList[p] \in Seq(GoodEvents)
    BY PlayerTypes
  <2> QED BY <2>1
<1>2. PICK e : e = Rescheduled(p)[i] /\ e = [d EXCEPT !.Frame = PutOff(d.Frame, window[p])]
  BY <1>1, DueIs
<1>3. e.ID = d.ID /\ e.num = d.num /\ e.Frame = PutOff(d.Frame, window[p])
  BY <1>2 DEF GoodEvents, Event
<1>4. PICK h \in humans[p] : h = d.ID
  BY <1>1, <1>2, <1>3
<1>5. PICK n : n = d.num
  OBVIOUS
<1>6. Copy(p, d)
  BY <1>1, <1>4 DEF Copies
<1>7. /\ n \in 1 .. Got(p, h) /\ d = [sent[h][n] EXCEPT !.Frame = d.Frame]
      /\ PutOff(d.Frame, window[p]) = PutOff(sent[h][n].Frame, window[p])
      /\ PutOff(d.Frame, window[p]) >= frame[p]
  BY <1>4, <1>5, <1>6 DEF Copy
<1>8. h \in Players /\ Got(p, h) \in 0 .. Len(sent[h]) /\ DOMAIN sent[h] = 1 .. Len(sent[h]) /\ Len(sent[h]) \in Nat
  BY GotIs
<1>9. n \in DOMAIN sent[h]
  BY <1>7, <1>8
<1>10. PICK g \in GoodEvents : g = sent[h][n]
  <2>1. sent[h] \in Seq(GoodEvents)
    BY <1>8, PlayerTypes
  <2> QED BY <1>9, <2>1
<1>11. d = [g EXCEPT !.Frame = d.Frame]
  BY <1>7, <1>10
<1>12. e = [g EXCEPT !.Frame = e.Frame]
  BY <1>2, <1>3, <1>10, <1>11 DEF GoodEvents, Event
<1>13. e.Frame \in Nat
  <2>1. d.Frame \in Nat
    BY DEF GoodEvents, Event
  <2> QED BY <1>3, <2>1, PlayerTypes, PutOffIs
<1>14. HeldAs(p, i, h, n)
  <2>1. e.ID = h /\ e.num = n /\ DoList[p][i].ID = h /\ DoList[p][i].num = n
    BY <1>1, <1>3, <1>4, <1>5
  <2>2. e.Frame = PutOff(sent[h][n].Frame, window[p]) /\ e.Frame >= frame[p]
    BY <1>3, <1>7
  <2>3. e = [sent[h][n] EXCEPT !.Frame = e.Frame]
    BY <1>10, <1>12
  <2>4. e = Rescheduled(p)[i]
    BY <1>2
  <2>5. h \in Players /\ n \in 1 .. Got(p, h) /\ n \in DOMAIN sent[h]
    BY <1>7, <1>8, <1>9
  <2> QED BY <1>13, <2>1, <2>2, <2>3, <2>4, <2>5 DEF HeldAs
<1> QED BY <1>14

\* What has come in time is executed in time.
LEMMA NeverLate ==
  ASSUME Basic, Counts, NEW p \in Players, phase[p] # "left", Copies(p)
  PROVE  ~ TooLate(p)
<1> SUFFICES ASSUME NEW i \in DOMAIN Due(p), Due(p)[i].Frame < frame[p] PROVE FALSE
  BY DEF TooLate
<1>1. PICK j \in DOMAIN DoList[p] : Due(p)[i] = Rescheduled(p)[j] /\ Due(p)[i].ID \in humans[p]
  BY DueIs
<1>2. PICK h, n : h \in humans[p] /\ HeldAs(p, j, h, n)
  BY <1>1, HeldIs
<1>3. Rescheduled(p)[j].Frame >= frame[p] /\ Rescheduled(p)[j].Frame \in Nat /\ frame[p] \in Nat
  BY <1>2, PlayerTypes DEF HeldAs
<1> QED BY <1>1, <1>3

\* p executes the frame it is at, and goes on to st.
Goes(p, st) ==
  /\ phase[p] # "left" /\ frame[p] > 0 /\ ByNow(p) /\ Moves(p, st)
  /\ sent' = sent /\ frame'[p] = frame[p] + FrameSendRate
  /\ \A q \in Players \ {p} : frame'[q] = frame[q]
  /\ DoList'[p] = Those(Rescheduled(p), {e \in Range(Rescheduled(p)) :
                                           \/ e.Frame > frame[p]
                                           \/ e.ID \notin humans[p] /\ e.Frame = frame[p]})
  /\ executed'[p] = Recorded(executed[p], frame[p], Due(p))

LEMMA AdvanceGoes ==
  ASSUME Basic, Past, Counts, Story, NEW p \in Players, Advance(p)
  PROVE  ~ TooLate(p) /\ \E st : Goes(p, st)
<1>1. phase[p] = "wait" /\ Can_Advance(p)
  BY DEF Advance
<1>2. Copies(p)
  BY DEF Story, Kept
<1>3. ~ TooLate(p)
  BY <1>1, <1>2, NeverLate
<1>4. PICK st : Moves(p, st)
  BY <1>3, AdvanceMoves
<1>5. ByNow(p)
  BY <1>1, ByNowIs
<1>6. frame[p] > 0
  BY <1>1 DEF Past, Frames
<1>7. Goes(p, st)
  BY <1>1, <1>3, <1>4, <1>5, <1>6, AdvanceIs DEF Goes
<1> QED BY <1>3, <1>7

LEMMA PlaceIn ==
  ASSUME NEW s, IsInjective(s), NEW i \in DOMAIN s, NEW h, s[i] = h
  PROVE  (CHOOSE k \in DOMAIN s : s[k] = h) = i
BY DEF IsInjective

\* The state p goes on to.
LEMMA GoesTo ==
  ASSUME Basic, NEW p \in Players, NEW st, Goes(p, st), st.active
  PROVE  /\ phase'[p] = "send" /\ window'[p] = st.window /\ humans'[p] = st.humans
         /\ humans'[p] \subseteq humans[p]
         /\ \A h \in humans'[p] : Got(p, h)' = Got(p, h)
         /\ Steps(p, TimingOf(st)) /\ TimingOf(st).window = st.window
         /\ timing'[p] = Recorded(timing[p], frame[p] + FrameSendRate, TimingOf(st))
<1>1. /\ Moves(p, st) /\ FromState(p, st) /\ SetState(p, st) /\ sent' = sent /\ phase[p] # "left"
  BY DEF Goes, Moves
<1>2. /\ phase'[p] = "send" /\ Steps(p, TimingOf(st))
      /\ timing'[p] = Recorded(timing[p], frame[p] + FrameSendRate, TimingOf(st))
  BY <1>1 DEF Moves
<1>3. /\ window'[p] = st.window /\ humans'[p] = st.humans /\ conns'[p] = st.conns
      /\ their_recv'[p] = st.recvs
  BY <1>1, SetStateIs
<1>4. st.humans \subseteq humans[p]
  BY <1>1 DEF FromState
<1>5. ASSUME NEW h \in st.humans PROVE Got(p, h)' = Got(p, h)
  <2>1. CASE h = p
    BY <1>1, <2>1 DEF Got
  <2>2. CASE h # p
    <3>1. h \in Range(st.conns) /\ IsInjective(st.conns)
      BY <1>1, <1>5, <2>2 DEF FromState
    <3>2. PICK i \in DOMAIN st.conns : st.conns[i] = h
      BY <3>1 DEF Range
    <3>3. PICK j \in DOMAIN conns[p] : conns[p][j] = h /\ st.recvs[i] = their_recv[p][j]
      BY <1>1, <3>2 DEF FromState
    <3>4. Place(p, h) = j
      <4>1. IsInjective(conns[p])
        BY DEF Basic, Joined
      <4> QED BY <3>3, <4>1, PlaceIn DEF Place
    <3>5. Place(p, h)' = i
      <4>1. PICK c : c = st.conns
        OBVIOUS
      <4>2. (CHOOSE k \in DOMAIN c : c[k] = h) = i
        BY <3>1, <3>2, <4>1, PlaceIn
      <4> QED BY <1>3, <4>1, <4>2 DEF Place
    <3> QED BY <1>3, <2>2, <3>3, <3>4, <3>5 DEF Got
  <2> QED BY <2>1, <2>2
<1>6. TimingOf(st).window = st.window
  BY DEF TimingOf, Timing
<1> QED BY <1>2, <1>3, <1>4, <1>5, <1>6

\* at says which place in s each place of Those(s, S) comes from.
Picks(at, s, S) ==
  /\ at \in [DOMAIN Those(s, S) -> DOMAIN s]
  /\ \A m \in DOMAIN Those(s, S) : Those(s, S)[m] = s[at[m]] /\ s[at[m]] \in S
  /\ \A m1, m2 \in DOMAIN Those(s, S) : m1 < m2 <=> at[m1] < at[m2]
  /\ \A i \in DOMAIN s : s[i] \in S => \E m \in DOMAIN Those(s, S) : at[m] = i

LEMMA ThosePick ==
  ASSUME NEW E, NEW s \in Seq(E), NEW S
  PROVE  Those(s, S) \in Seq(E) /\ \E at : Picks(at, s, S)
<1>1. \E at \in [DOMAIN Those(s, S) -> DOMAIN s] :
        /\ \A m \in DOMAIN Those(s, S) : Those(s, S)[m] = s[at[m]] /\ s[at[m]] \in S
        /\ \A m1, m2 \in DOMAIN Those(s, S) : m1 < m2 <=> at[m1] < at[m2]
        /\ \A i \in DOMAIN s : s[i] \in S => \E m \in DOMAIN Those(s, S) : at[m] = i
  BY ThoseKeep, SMTT(60)
<1>2. Those(s, S) \in Seq(E)
  BY ThoseKeep
<1> QED BY <1>1, <1>2 DEF Picks

\* What is left of the DoList when p goes on.
Left(p, i) == Rescheduled(p)[i].Frame > frame[p]
              \/ (Rescheduled(p)[i].ID \notin humans[p] /\ Rescheduled(p)[i].Frame = frame[p])

LEMMA LeftOver ==
  ASSUME Basic, NEW p \in Players, NEW st, Goes(p, st)
  PROVE  \E at \in [DOMAIN DoList'[p] -> DOMAIN DoList[p]] :
           /\ \A m \in DOMAIN DoList'[p] : DoList'[p][m] = Rescheduled(p)[at[m]] /\ Left(p, at[m])
           /\ \A m1, m2 \in DOMAIN DoList'[p] : m1 < m2 <=> at[m1] < at[m2]
           /\ \A i \in DOMAIN DoList[p] : Left(p, i) => \E m \in DOMAIN DoList'[p] : at[m] = i
<1>1. PICK s \in Seq(GoodEvents) : s = Rescheduled(p) /\ DOMAIN s = DOMAIN DoList[p]
  BY DueIs
<1>2. PICK S : S = {e \in Range(s) : \/ e.Frame > frame[p]
                                     \/ e.ID \notin humans[p] /\ e.Frame = frame[p]}
  OBVIOUS
<1>3. \A i \in DOMAIN s : s[i] \in S <=> Left(p, i)
  BY <1>1, <1>2 DEF Left, Range
<1>4. DoList'[p] = Those(s, S)
  BY <1>1, <1>2 DEF Goes
<1>5. PICK at : Picks(at, s, S)
  BY ThosePick
<1> QED BY <1>1, <1>3, <1>4, <1>5 DEF Picks

\* Of an event that is to be executed later.
LEMMA LaterIs ==
  ASSUME Basic, Past, Counts, NEW p \in Players, NEW st, Goes(p, st), st.active, Copies(p),
         NEW h \in Players, NEW n \in DOMAIN sent[h], NEW x, x = sent[h][n].Frame
  PROVE  /\ PutOff(x, window'[p]) < frame'[p] <=> PutOff(x, window[p]) <= frame[p]
         /\ PutOff(x, window[p]) > frame[p] =>
              PutOff(PutOff(x, window[p]), window'[p]) = PutOff(x, window'[p])
         /\ PutOff(x, window[p]) \in Nat /\ PutOff(x, window'[p]) \in Nat
         /\ frame[p] \in Nat /\ frame'[p] \in Nat
<1>1. x \in Nat /\ Multiple(x)
  BY SentFrames
<1>2. PICK y : y = TimingOf(st) /\ Steps(p, y) /\ y.window = window'[p]
  BY GoesTo
<1>3. frame'[p] = frame[p] + FrameSendRate /\ phase[p] # "left"
  BY DEF Goes
<1>4. frame[p] \in Nat /\ frame'[p] \in Nat
  BY <1>3, PlayerTypes, RatePositive
<1> QED BY <1>1, <1>2, <1>3, <1>4, StepPut

LEMMA CopiesGoes ==
  ASSUME Basic, Past, Counts, NEW p \in Players, NEW st, Goes(p, st), st.active, Copies(p)
  PROVE  Copies(p)'
<1>1. PICK at \in [DOMAIN DoList'[p] -> DOMAIN DoList[p]] :
        \A m \in DOMAIN DoList'[p] : DoList'[p][m] = Rescheduled(p)[at[m]] /\ Left(p, at[m])
  BY LeftOver
<1>2. /\ humans'[p] \subseteq humans[p] /\ sent' = sent /\ phase[p] # "left"
      /\ \A h \in humans'[p] : Got(p, h)' = Got(p, h)
  BY GoesTo DEF Goes
<1>3. SUFFICES ASSUME NEW m \in DOMAIN DoList'[p], NEW e, e = DoList'[p][m], e.ID \in humans'[p]
               PROVE  Copy(p, e)'
  BY DEF Copies
<1>4. PICK i \in DOMAIN DoList[p] : i = at[m]
  BY <1>1
<1>5. e = Rescheduled(p)[i] /\ Left(p, i) /\ e.ID \in humans[p]
  BY <1>1, <1>2, <1>3, <1>4
<1>6. PICK h, n : h \in humans[p] /\ HeldAs(p, i, h, n)
  BY <1>2, <1>5, HeldIs
<1>7. PICK x : x = sent[h][n].Frame
  OBVIOUS
<1>8. /\ e.ID = h /\ e.num = n /\ h \in Players /\ n \in 1 .. Got(p, h) /\ n \in DOMAIN sent[h]
      /\ e.Frame = PutOff(x, window[p]) /\ e = [sent[h][n] EXCEPT !.Frame = e.Frame]
  BY <1>5, <1>6, <1>7 DEF HeldAs
<1>9. PutOff(x, window[p]) > frame[p]
  BY <1>5, <1>8 DEF Left
<1>10. /\ PutOff(x, window'[p]) < frame'[p] <=> PutOff(x, window[p]) <= frame[p]
       /\ PutOff(e.Frame, window'[p]) = PutOff(x, window'[p])
       /\ PutOff(x, window[p]) \in Nat /\ PutOff(x, window'[p]) \in Nat
       /\ frame[p] \in Nat /\ frame'[p] \in Nat
  BY <1>7, <1>8, <1>9, LaterIs
<1>11. PutOff(e.Frame, window'[p]) >= frame'[p]
  BY <1>9, <1>10
<1>12. Got(p, h)' = Got(p, h)
  BY <1>2, <1>3, <1>8
<1> QED BY <1>2, <1>7, <1>8, <1>10, <1>11, <1>12 DEF Copy

LEMMA CompleteGoes ==
  ASSUME Basic, Past, Counts, NEW p \in Players, NEW st, Goes(p, st), st.active, Copies(p), Complete(p)
  PROVE  Complete(p)'
<1>1. PICK at \in [DOMAIN DoList'[p] -> DOMAIN DoList[p]] :
        /\ \A m \in DOMAIN DoList'[p] : DoList'[p][m] = Rescheduled(p)[at[m]]
        /\ \A i \in DOMAIN DoList[p] : Left(p, i) => \E m \in DOMAIN DoList'[p] : at[m] = i
  BY LeftOver
<1>2. /\ humans'[p] \subseteq humans[p] /\ sent' = sent /\ phase[p] # "left"
      /\ \A h \in humans'[p] : Got(p, h)' = Got(p, h)
  BY GoesTo DEF Goes
<1>3. SUFFICES ASSUME NEW h \in humans'[p], NEW n \in 1 .. Got(p, h),
                      PutOff(sent[h][n].Frame, window'[p]) >= frame'[p]
               PROVE  Holds(p, h, n)'
  BY <1>2 DEF Complete
<1>4. h \in Players /\ h \in humans[p] /\ n \in DOMAIN sent[h]
  <2>1. h \in humans[p] /\ Got(p, h) \in 0 .. Len(sent[h]) /\ h \in Players /\ DOMAIN sent[h] = 1 .. Len(sent[h]) /\ Len(sent[h]) \in Nat
    BY <1>2, GotIs
  <2> QED BY <2>1
<1>5. PICK x : x = sent[h][n].Frame
  OBVIOUS
<1>6. PutOff(x, window[p]) > frame[p] /\ PutOff(x, window[p]) \in Nat /\ frame[p] \in Nat
  <2>1. /\ PutOff(x, window'[p]) < frame'[p] <=> PutOff(x, window[p]) <= frame[p]
        /\ PutOff(x, window[p]) \in Nat /\ PutOff(x, window'[p]) \in Nat
        /\ frame[p] \in Nat /\ frame'[p] \in Nat
    BY <1>4, <1>5, LaterIs
  <2>2. PutOff(x, window'[p]) >= frame'[p]
    BY <1>3, <1>5
  <2> QED BY <2>1, <2>2
<1>7. PICK i \in DOMAIN DoList[p] : DoList[p][i].ID = h /\ DoList[p][i].num = n
  <2>1. PutOff(x, window[p]) >= frame[p]
    BY <1>6
  <2> QED BY <1>2, <1>4, <1>5, <2>1 DEF Complete, Holds
<1>8. PICK h1, n1 : h1 \in humans[p] /\ HeldAs(p, i, h1, n1)
  BY <1>2, <1>4, <1>7, HeldIs
<1>9. HeldAs(p, i, h, n)
  BY <1>7, <1>8 DEF HeldAs
<1>10. Left(p, i)
  BY <1>5, <1>6, <1>9 DEF HeldAs, Left
<1>11. PICK m \in DOMAIN DoList'[p] : at[m] = i
  BY <1>1, <1>10
<1>12. DoList'[p][m].ID = h /\ DoList'[p][m].num = n
  BY <1>1, <1>9, <1>11 DEF HeldAs
<1> QED BY <1>12 DEF Holds

LEMMA InOrderGoes ==
  ASSUME Basic, Past, Counts, NEW p \in Players, NEW st, Goes(p, st), st.active, Copies(p), InOrder(p)
  PROVE  InOrder(p)'
<1>1. PICK at \in [DOMAIN DoList'[p] -> DOMAIN DoList[p]] :
        /\ \A m \in DOMAIN DoList'[p] : DoList'[p][m] = Rescheduled(p)[at[m]]
        /\ \A m1, m2 \in DOMAIN DoList'[p] : m1 < m2 <=> at[m1] < at[m2]
  BY LeftOver
<1>2. humans'[p] \subseteq humans[p] /\ phase[p] # "left"
  BY GoesTo DEF Goes
<1>3. SUFFICES ASSUME NEW m1 \in DOMAIN DoList'[p], NEW m2 \in DOMAIN DoList'[p], m1 < m2,
                      DoList'[p][m1].ID = DoList'[p][m2].ID, DoList'[p][m1].ID \in humans'[p]
               PROVE  DoList'[p][m1].num < DoList'[p][m2].num
  BY DEF InOrder
<1>4. PICK i \in DOMAIN DoList[p] : i = at[m1]
  BY <1>1
<1>5. PICK j \in DOMAIN DoList[p] : j = at[m2]
  BY <1>1
<1>6. i < j /\ DoList'[p][m1] = Rescheduled(p)[i] /\ DoList'[p][m2] = Rescheduled(p)[j]
  BY <1>1, <1>3, <1>4, <1>5
<1>7. PICK h, n : h \in humans[p] /\ HeldAs(p, i, h, n)
  BY <1>2, <1>3, <1>6, HeldIs
<1>8. PICK h2, n2 : h2 \in humans[p] /\ HeldAs(p, j, h2, n2)
  BY <1>2, <1>3, <1>6, HeldIs
<1>9. /\ DoList[p][i].ID = DoList[p][j].ID /\ DoList[p][i].ID \in humans[p]
      /\ DoList'[p][m1].num = DoList[p][i].num /\ DoList'[p][m2].num = DoList[p][j].num
  BY <1>3, <1>6, <1>7, <1>8 DEF HeldAs
<1> QED BY <1>2, <1>6, <1>9 DEF InOrder

LEMMA InTimeGoes ==
  ASSUME Basic, Past, NEW p \in Players, NEW st, Goes(p, st), st.active, InTime(p)
  PROVE  InTime(p)'
<1>1. PICK f \in Nat : f = frame[p] /\ Multiple(f)
  BY PlayerTypes
<1>2. PICK S \in Nat : S = FrameSendRate /\ S > 0
  BY RatePositive
<1>3. PICK y : /\ y = TimingOf(st) /\ Steps(p, y) /\ y.window = window'[p]
               /\ timing'[p] = Recorded(timing[p], f + S, y)
  BY <1>1, <1>2, GoesTo
<1>4. Frames(p) /\ KeepsClear(p)
  BY DEF Past
<1>5. Grows(p, f + S, y)
  <2>1. f + S \notin DOMAIN timing[p]
    <3>1. f + S \in DOMAIN timing[p] => f + S \in 0 .. frame[p]
      BY <1>4, TimingIs
    <3> QED BY <1>1, <1>2, <3>1
  <2> QED BY <1>3, <2>1, PastGrows
<1>6. /\ humans'[p] \subseteq humans[p] /\ sent' = sent /\ phase[p] # "left" /\ ByNow(p)
      /\ frame'[p] = f + S /\ humans'[p] \subseteq Players
      /\ \A h \in humans'[p] : Got(p, h)' = Got(p, h)
      /\ \A h \in humans'[p] \ {p} : frame'[h] = frame[h]
  <2>1. humans'[p] \subseteq humans[p] /\ \A h \in humans'[p] : Got(p, h)' = Got(p, h)
    BY GoesTo
  <2>2. humans'[p] \subseteq Players
    BY <2>1, PlayerTypes
  <2> QED BY <1>1, <1>2, <2>1, <2>2 DEF Goes
<1>7. f \in DOMAIN timing[p] /\ Lead(p, f) = MaxAhead[p] /\ Window(p, f) = window[p]
  <2>1. f \in 0 .. frame[p]
    BY <1>1
  <2> QED BY <1>1, <1>4, <1>6, <2>1 DEF Frames
<1>8. SUFFICES ASSUME NEW h \in humans'[p] \ {p}, NEW g \in DOMAIN timing'[p], NEW next, next = f + S,
                      Meant(p, next, g)' < next
               PROVE  /\ g < frame[h]
                      /\ \A n \in DOMAIN sent[h] : sent[h][n].at = g => n <= Got(p, h)
  BY <1>6 DEF InTime
<1>9. Window(p, next)' = window'[p] /\ y.MaxAhead \in Nat
  <2>1. Window(p, next)' = y.window
    BY <1>5, <1>8 DEF Grows
  <2>2. y.MaxAhead \in Nat
    BY <1>3 DEF Steps, Timings, Leads
  <2> QED BY <1>3, <2>1, <2>2
<1>10. y.window \in Nat \X Nat
  BY <1>3 DEF Steps, Timings, Frames0
<1>11. g \in DOMAIN timing[p]
  <2>1. g \in DOMAIN timing[p] \/ g = next
    BY <1>5, <1>8 DEF Grows
  <2>2. CASE g = next
    <3>1. Lead(p, g)' = y.MaxAhead
      BY <1>5, <1>8, <2>2 DEF Grows
    <3>2. PICK x \in Nat : x = next + y.MaxAhead
      BY <1>2, <1>8, <1>9
    <3>3. Meant(p, next, g)' = PutOff(x, y.window)
      BY <1>3, <1>9, <2>2, <3>1, <3>2 DEF Meant
    <3>4. PutOff(x, y.window) \in Nat /\ PutOff(x, y.window) >= x
      BY <1>10, PutOffIs
    <3> QED BY <1>2, <1>8, <1>9, <3>2, <3>3, <3>4
  <2> QED BY <2>1, <2>2
<1>12. g \in Nat /\ Multiple(g) /\ g <= f /\ Lead(p, g) \in Nat /\ Multiple(Lead(p, g))
  <2>1. g \in 0 .. frame[p] /\ Multiple(g) /\ Lead(p, g) \in Leads
    BY <1>4, <1>11, TimingIs
  <2> QED BY <1>1, <2>1 DEF Leads
<1>13. PICK x \in Nat : x = g + Lead(p, g) /\ Multiple(x)
  BY <1>12, MultipleSum
<1>14. Lead(p, g)' = Lead(p, g)
  BY <1>5, <1>11 DEF Grows
<1>15. PutOff(x, y.window) < f + S
  BY <1>3, <1>8, <1>9, <1>13, <1>14 DEF Meant
<1>16. PutOff(x, window[p]) <= f /\ PutOff(x, window[p]) \in Nat
  BY <1>1, <1>2, <1>3, <1>6, <1>13, <1>15, StepPut
<1>17. Meant(p, f, g) = PutOff(x, window[p])
  BY <1>7, <1>13 DEF Meant
<1>18. CASE Meant(p, f, g) < f
  BY <1>1, <1>6, <1>8, <1>11, <1>18 DEF InTime
<1>19. CASE ~ (Meant(p, f, g) < f)
  <2>1. Meant(p, f, g) >= g + Lead(p, f)
    BY <1>4, <1>7, <1>11, <1>12, <1>19 DEF KeepsClear
  <2>2. MaxAhead[p] \in Nat
    BY PlayerTypes DEF Leads
  <2>3. g + MaxAhead[p] <= f
    BY <1>7, <1>12, <1>16, <1>17, <2>1, <2>2
  <2> QED BY <1>1, <1>6, <1>8, <1>12, <2>3 DEF ByNow
<1> QED BY <1>18, <1>19

\* The histories when p goes on, whether it leaves or not.
LEMMA GoesHistory ==
  ASSUME Basic, Past, NEW p \in Players, NEW st, Goes(p, st)
  PROVE  /\ frame[p] \in Nat /\ frame[p] > 0 /\ frame[p] \in DOMAIN timing[p] /\ frame[p] \notin DOMAIN executed[p]
         /\ Lead(p, frame[p]) = MaxAhead[p] /\ Window(p, frame[p]) = window[p]
         /\ timing[p][frame[p]].MaxAhead = MaxAhead[p] /\ timing[p][frame[p]].window = window[p]
         /\ \A g : g \in DOMAIN executed'[p] <=> g \in DOMAIN executed[p] \/ g = frame[p]
         /\ executed'[p][frame[p]] = Due(p)
         /\ \A g \in DOMAIN executed[p] : executed'[p][g] = executed[p][g]
         /\ \A g \in DOMAIN timing[p] : g \in DOMAIN timing'[p] /\ timing'[p][g] = timing[p][g]
         /\ \A g : g \in DOMAIN timing'[p] => g \in DOMAIN timing[p] \/ (st.active /\ g = frame[p] + FrameSendRate)
         /\ st.active => timing'[p][frame[p] + FrameSendRate] = TimingOf(st)
<1>1. PICK f \in Nat : f = frame[p] /\ Multiple(f)
  BY PlayerTypes
<1>2. PICK S \in Nat : S = FrameSendRate /\ S > 0
  BY RatePositive
<1>3. Frames(p) /\ phase[p] # "left" /\ f > 0 /\ executed'[p] = Recorded(executed[p], f, Due(p)) /\ Moves(p, st)
  BY <1>1 DEF Past, Goes
<1>4. f \in DOMAIN timing[p] /\ Lead(p, f) = MaxAhead[p] /\ Window(p, f) = window[p]
  <2>1. f \in 0 .. frame[p]
    BY <1>1
  <2> QED BY <1>1, <1>3, <2>1 DEF Frames
<1>5. f \notin DOMAIN executed[p]
  <2>1. f \in DOMAIN executed[p] => f < frame[p]
    BY <1>1, <1>3, FramesAre
  <2> QED BY <1>1, <2>1
<1>6. /\ \A g : g \in DOMAIN executed'[p] <=> g \in DOMAIN executed[p] \/ g = f
      /\ executed'[p][f] = Due(p)
      /\ \A g \in DOMAIN executed[p] : executed'[p][g] = executed[p][g]
  BY <1>3, <1>5, RecordedIs
<1>7. f + S \notin DOMAIN timing[p]
  <2>1. f + S \in DOMAIN timing[p] => f + S \in 0 .. frame[p]
    BY <1>3, TimingIs
  <2> QED BY <1>1, <1>2, <2>1
<1>8. CASE st.active
  <2>1. timing'[p] = Recorded(timing[p], f + S, TimingOf(st))
    BY <1>1, <1>2, <1>3, <1>8 DEF Moves
  <2>2. Grows(p, f + S, TimingOf(st))
    BY <1>7, <2>1, PastGrows
  <2> QED BY <1>1, <1>2, <1>3, <1>4, <1>5, <1>6, <1>8, <2>2 DEF Grows, Lead, Window
<1>9. CASE ~ st.active
  <2>1. timing'[p] = timing[p]
    BY <1>3, <1>9 DEF Moves
  <2> QED BY <1>1, <1>2, <1>3, <1>4, <1>5, <1>6, <1>9, <2>1 DEF Lead, Window
<1> QED BY <1>8, <1>9

LEMMA KeptGoes ==
  ASSUME Basic, Past, Counts, NEW p \in Players, NEW st, Goes(p, st), Kept(p)
  PROVE  Kept(p)' /\ phase'[p] # "late"
<1>1. CASE st.active
  <2>1. InTime(p) /\ Copies(p) /\ Complete(p) /\ InOrder(p)
    BY DEF Kept
  <2>2. InTime(p)' /\ Copies(p)' /\ Complete(p)' /\ InOrder(p)'
    BY <1>1, <2>1, InTimeGoes, CopiesGoes, CompleteGoes, InOrderGoes
  <2>3. frame'[p] = frame[p] + FrameSendRate
    BY DEF Goes
  <2>4. timing'[p][frame[p] + FrameSendRate] = TimingOf(st)
    BY <1>1, GoesHistory
  <2>5. humans'[p] = st.humans /\ phase'[p] = "send"
    BY <1>1, GoesTo
  <2>6. TimingOf(st).humans = st.humans
    BY DEF TimingOf, Timing
  <2>7. Agrees(p)'
    BY <2>3, <2>4, <2>5, <2>6 DEF Agrees
  <2> QED BY <2>2, <2>5, <2>7 DEF Kept
<1>2. CASE ~ st.active
  <2>1. phase'[p] = "left"
    BY <1>2 DEF Goes, Moves
  <2> QED BY <2>1 DEF Kept, InTime, Copies, Complete, InOrder, Agrees
<1> QED BY <1>1, <1>2

LEMMA CloseGoes ==
  ASSUME Basic, Past, NEW p \in Players, NEW st, Goes(p, st), Agrees(p), Close(p), Onward
  PROVE  Close(p)'
<1> SUFFICES ASSUME NEW g \in DOMAIN executed'[p], NEW h \in timing'[p][g].humans \ {p}
             PROVE  g < frame'[h] + timing'[p][g].MaxAhead
  BY DEF Close, Lead
<1>1. Frames(p) /\ phase[p] # "left" /\ ByNow(p)
  BY DEF Past, Goes
<1>2. CASE g \in DOMAIN executed[p]
  <2>1. g \in DOMAIN timing[p] /\ g \in Nat /\ Lead(p, g) \in Nat /\ timing[p][g].humans \subseteq Players
    BY <1>1, <1>2, TimingIs
  <2>2. timing'[p][g] = timing[p][g]
    BY <2>1, GoesHistory
  <2>3. g < frame[h] + Lead(p, g) /\ h \in Players
    BY <1>2, <2>1, <2>2 DEF Close
  <2> QED BY <2>1, <2>2, <2>3 DEF Onward, Lead
<1>3. CASE g = frame[p]
  <2>1. timing'[p][g] = timing[p][g] /\ timing[p][g].MaxAhead = MaxAhead[p]
    BY <1>3, GoesHistory
  <2>2. h \in humans[p] \ {p}
    BY <1>1, <1>3, <2>1 DEF Agrees
  <2>3. frame[p] < frame[h] + MaxAhead[p] /\ h \in Players
    BY <1>1, <2>2, PlayerTypes DEF ByNow
  <2>4. frame'[h] = frame[h]
    BY <2>2, <2>3 DEF Goes
  <2> QED BY <1>3, <2>1, <2>3, <2>4
<1> QED BY <1>2, <1>3, GoesHistory

LEMMA FollowsGoes ==
  ASSUME Basic, Past, NEW p \in Players, NEW st, Goes(p, st), Agrees(p), Follows(p)
  PROVE  Follows(p)'
<1>1. PICK f \in Nat : f = frame[p] /\ f > 0 /\ Multiple(f)
  BY PlayerTypes, GoesHistory
<1>2. PICK S \in Nat : S = FrameSendRate /\ S > 0
  BY RatePositive
<1>3. Frames(p) /\ phase[p] # "left" /\ Moves(p, st)
  BY DEF Past, Goes
<1>4. 0 \in DOMAIN timing[p]
  <2>1. 0 \in 0 .. frame[p]
    BY <1>1
  <2> QED BY <1>3, <2>1, MultipleRate DEF Frames
<1>5. timing'[p][0] = Timing(StartMaxAhead, << 0, 0 >>, Players) /\ timing'[p][0] = timing[p][0]
  BY <1>4, GoesHistory DEF Follows
<1>6. ASSUME S \in DOMAIN timing'[p] PROVE timing'[p][S] = timing'[p][0]
  <2>1. S \in DOMAIN timing[p]
    <3>1. S # f + S
      BY <1>1, <1>2
    <3> QED BY <1>1, <1>2, <1>6, <3>1, GoesHistory
  <2>2. timing'[p][S] = timing[p][S]
    BY <2>1, GoesHistory
  <2> QED BY <1>2, <1>5, <2>1, <2>2 DEF Follows
<1>7. ASSUME NEW g \in DOMAIN executed'[p], NEW next, next = g + S, next \in DOMAIN timing'[p]
      PROVE  Comes(timing'[p][g], executed'[p][g], timing'[p][next])
  <2>1. CASE g \in DOMAIN executed[p]
    <3>1. g \in DOMAIN timing[p] /\ g \in Nat /\ Multiple(g) /\ g < f
      <4>1. g \in DOMAIN timing[p] /\ Multiple(g) /\ g \in 0 .. frame[p]
        BY <1>3, <2>1, TimingIs
      <4>2. g < frame[p]
        BY <1>1, <1>3, <2>1, <4>1, FramesAre
      <4> QED BY <1>1, <4>1, <4>2
    <3>2. next # f + S
      BY <1>1, <1>2, <1>7, <3>1
    <3>3. next \in DOMAIN timing[p]
      BY <1>1, <1>2, <1>7, <3>2, GoesHistory
    <3>4. timing'[p][g] = timing[p][g] /\ timing'[p][next] = timing[p][next] /\ executed'[p][g] = executed[p][g]
      BY <2>1, <3>1, <3>3, GoesHistory
    <3> QED BY <1>2, <1>7, <2>1, <3>3, <3>4 DEF Follows
  <2>2. CASE g = f
    <3>1. next = f + S /\ next \notin DOMAIN timing[p]
      <4>1. next \in DOMAIN timing[p] => next \in 0 .. frame[p]
        BY <1>3, TimingIs
      <4> QED BY <1>1, <1>2, <1>7, <2>2, <4>1
    <3>2. st.active
      BY <1>7, <3>1, GoesHistory
    <3>3. timing'[p][next] = TimingOf(st) /\ executed'[p][g] = Due(p) /\ timing'[p][g] = timing[p][g]
      BY <1>1, <1>2, <2>2, <3>1, <3>2, GoesHistory
    <3>4. timing[p][g] = Timing(MaxAhead[p], window[p], humans[p])
      <4>1. timing[p][g] \in Timings
        <5>1. g \in DOMAIN timing[p]
          BY <1>1, <2>2, GoesHistory
        <5> QED BY <1>3, <5>1, TimingIs
      <4>2. timing[p][g].humans = humans[p]
        BY <1>1, <1>3, <2>2 DEF Agrees
      <4>3. timing[p][g].MaxAhead = MaxAhead[p] /\ timing[p][g].window = window[p]
        BY <1>1, <2>2, GoesHistory
      <4> QED BY <4>1, <4>2, <4>3 DEF Timings, Timing
    <3>5. PICK t : /\ t[0] = Timing(MaxAhead[p], window[p], humans[p])
                   /\ t[Len(Due(p))] = TimingOf(st)
                   /\ \A i \in 1 .. Len(Due(p)) : t[i] = After(t[i - 1], Due(p)[i])
      BY <1>3, <3>2 DEF Moves
    <3>6. Comes(timing[p][g], Due(p), TimingOf(st))
      BY <3>4, <3>5 DEF Comes
    <3> QED BY <3>3, <3>6
  <2> QED BY <1>1, <2>1, <2>2, GoesHistory
<1>8. FrameSendRate \in DOMAIN timing'[p] => timing'[p][FrameSendRate] = timing'[p][0]
  BY <1>2, <1>6
<1>9. \A g \in DOMAIN executed'[p] : g + FrameSendRate \in DOMAIN timing'[p] =>
        Comes(timing'[p][g], executed'[p][g], timing'[p][g + FrameSendRate])
  BY <1>2, <1>7
<1> QED BY <1>5, <1>8, <1>9 DEF Follows, Comes

\* What is due at this frame p has.
LEMMA HasDue ==
  ASSUME Basic, Past, Counts, Story, NEW p \in Players, phase[p] # "left", ByNow(p),
         NEW h \in humans[p], NEW n \in DOMAIN sent[h],
         PutOff(sent[h][n].Frame, window[p]) = frame[p]
  PROVE  n \in 1 .. Got(p, h)
<1>1. /\ h \in Players /\ Got(p, h) \in 0 .. Len(sent[h]) /\ DOMAIN sent[h] = 1 .. Len(sent[h])
      /\ Len(sent[h]) \in Nat
  BY GotIs
<1>2. CASE h = p
  BY <1>1, <1>2 DEF Got
<1>3. CASE h # p
  <2>1. PICK f \in Nat : f = frame[p] /\ Multiple(f)
    BY PlayerTypes
  <2>2. PICK a : a = sent[h][n].at
    OBVIOUS
  <2>3. PICK x \in Nat : x = sent[h][n].Frame
    BY <1>1, SentFrames
  <2>4. /\ a \in DOMAIN timing[h] /\ a \in Nat /\ Multiple(a) /\ x = a + Lead(h, a)
        /\ x >= a + 2 * FrameSendRate
    BY <1>1, <2>2, <2>3, SentFrames
  <2>5. PutOff(x, window[p]) >= x
    BY PlayerTypes, PutOffIs
  <2>6. a < f
    BY <2>1, <2>3, <2>4, <2>5, RatePositive
  <2>7. Frames(p) /\ Frames(h) /\ KeepsClear(p)
    BY <1>1 DEF Past
  <2>8. a \in DOMAIN timing[p]
    BY <2>1, <2>4, <2>6, <2>7, FramesAre
  <2>9. timing[p][a] = timing[h][a]
    <3>1. \A r \in Players : Did(r)
      BY DEF Story
    <3> QED BY <1>1, <2>4, <2>8, <3>1, TimingsAgree
  <2>10. f \in DOMAIN timing[p] /\ Lead(p, f) = MaxAhead[p] /\ Window(p, f) = window[p]
    <3>1. f \in 0 .. frame[p]
      BY <2>1
    <3> QED BY <2>1, <2>7, <3>1 DEF Frames
  <2>11. Meant(p, f, a) = PutOff(x, window[p])
    BY <2>4, <2>9, <2>10 DEF Meant, Lead
  <2>12. Meant(p, f, a) < f \/ Meant(p, f, a) >= a + Lead(p, f)
    BY <2>4, <2>6, <2>7, <2>8, <2>10 DEF KeepsClear
  <2>13. a + MaxAhead[p] <= f
    <3>1. Meant(p, f, a) = f
      BY <2>1, <2>3, <2>11
    <3>2. MaxAhead[p] \in Nat
      BY PlayerTypes DEF Leads
    <3> QED BY <2>1, <2>4, <2>10, <2>12, <3>1, <3>2
  <2>14. n <= Got(p, h)
    BY <1>3, <2>1, <2>2, <2>4, <2>13 DEF ByNow
  <2> QED BY <1>1, <2>14
<1> QED BY <1>2, <1>3

LEMMA DueSorted ==
  ASSUME Basic, Counts, NEW p \in Players, phase[p] # "left", Copies(p), InOrder(p), NEW h \in Players
  PROVE  LET due == Those(Rescheduled(p), DueOf(p, h))
         IN  due \in Seq(GoodEvents) /\ Sorted(due)
<1>1. PICK s \in Seq(GoodEvents) : s = Rescheduled(p) /\ DOMAIN s = DOMAIN DoList[p]
  BY DueIs
<1>2. PICK D : D = DueOf(p, h)
  OBVIOUS
<1>3. Those(s, D) \in Seq(GoodEvents)
  BY ThosePick
<1>4. PICK at : Picks(at, s, D)
  BY ThosePick
<1>5. ASSUME NEW m1 \in DOMAIN Those(s, D), NEW m2 \in DOMAIN Those(s, D), m1 < m2
      PROVE  Those(s, D)[m1].num < Those(s, D)[m2].num
  <2>1. PICK i \in DOMAIN DoList[p] : i = at[m1] /\ Those(s, D)[m1] = s[i] /\ s[i] \in D
    BY <1>1, <1>4 DEF Picks
  <2>2. PICK j \in DOMAIN DoList[p] : j = at[m2] /\ Those(s, D)[m2] = s[j] /\ s[j] \in D
    BY <1>1, <1>4 DEF Picks
  <2>3. i < j
    BY <1>4, <1>5, <2>1, <2>2 DEF Picks
  <2>4. s[i].ID = h /\ s[j].ID = h /\ h \in humans[p]
    BY <1>2, <2>1, <2>2 DEF DueOf
  <2>5. PICK h1, n1 : h1 \in humans[p] /\ HeldAs(p, i, h1, n1)
    BY <1>1, <2>4, HeldIs
  <2>6. PICK h2, n2 : h2 \in humans[p] /\ HeldAs(p, j, h2, n2)
    BY <1>1, <2>4, HeldIs
  <2>7. /\ DoList[p][i].ID = DoList[p][j].ID /\ DoList[p][i].ID \in humans[p]
        /\ s[i].num = DoList[p][i].num /\ s[j].num = DoList[p][j].num
    BY <1>1, <2>4, <2>5, <2>6 DEF HeldAs
  <2> QED BY <2>1, <2>2, <2>3, <2>7 DEF InOrder
<1>6. Sorted(Those(s, D))
  BY <1>5 DEF Sorted
<1> QED BY <1>1, <1>2, <1>3, <1>6

LEMMA DueWanted ==
  ASSUME Basic, Past, Counts, Story, NEW p \in Players, phase[p] # "left", ByNow(p), NEW h \in humans[p]
  PROVE  Range(Those(Rescheduled(p), DueOf(p, h))) = Wanted(h, frame[p], window[p])
<1>1. PICK s \in Seq(GoodEvents) : s = Rescheduled(p) /\ DOMAIN s = DOMAIN DoList[p]
  BY DueIs
<1>2. PICK D : D = DueOf(p, h)
  OBVIOUS
<1>3. PICK at : Picks(at, s, D)
  BY ThosePick
<1>4. PICK f \in Nat : f = frame[p]
  BY PlayerTypes
<1>5. PICK w : w = window[p]
  OBVIOUS
<1>6. Copies(p) /\ Complete(p) /\ h \in Players
  BY PlayerTypes DEF Story, Kept
<1>7. ASSUME NEW e \in Range(Those(s, D)) PROVE e \in Wanted(h, f, w)
  <2>1. PICK m \in DOMAIN Those(s, D) : e = Those(s, D)[m]
    BY DEF Range
  <2>2. PICK i \in DOMAIN DoList[p] : i = at[m] /\ e = s[i] /\ e \in D
    BY <1>1, <1>3, <2>1 DEF Picks
  <2>3. e.ID = h /\ e.Frame <= f
    BY <1>2, <1>4, <2>2 DEF DueOf
  <2>4. PICK h1, n : h1 \in humans[p] /\ HeldAs(p, i, h1, n)
    BY <1>1, <1>6, <2>2, <2>3, HeldIs
  <2>5. /\ h1 = h /\ n \in DOMAIN sent[h] /\ e.Frame = PutOff(sent[h][n].Frame, w)
        /\ e.Frame >= f /\ e.Frame \in Nat /\ e = [sent[h][n] EXCEPT !.Frame = e.Frame]
    BY <1>1, <1>4, <1>5, <2>2, <2>3, <2>4 DEF HeldAs
  <2>6. e.Frame = f
    BY <2>3, <2>5
  <2> QED BY <2>5, <2>6 DEF Wanted
<1>8. ASSUME NEW e \in Wanted(h, f, w) PROVE e \in Range(Those(s, D))
  <2>1. PICK n \in DOMAIN sent[h] : PutOff(sent[h][n].Frame, w) = f /\ e = [sent[h][n] EXCEPT !.Frame = f]
    BY DEF Wanted
  <2>2. n \in 1 .. Got(p, h)
    BY <1>4, <1>5, <2>1, HasDue
  <2>3. PutOff(sent[h][n].Frame, window[p]) >= frame[p]
    BY <1>4, <1>5, <2>1
  <2>4. PICK i \in DOMAIN DoList[p] : DoList[p][i].ID = h /\ DoList[p][i].num = n
    BY <1>6, <2>2, <2>3 DEF Complete, Holds
  <2>5. PICK h1, n1 : h1 \in humans[p] /\ HeldAs(p, i, h1, n1)
    BY <1>6, <2>4, HeldIs
  <2>6. h1 = h /\ n1 = n
    BY <2>4, <2>5 DEF HeldAs
  <2>7. HeldAs(p, i, h, n)
    BY <2>5, <2>6
  <2>8. s[i].ID = h /\ s[i].Frame = f /\ s[i] = [sent[h][n] EXCEPT !.Frame = s[i].Frame]
    BY <1>1, <1>5, <2>1, <2>7 DEF HeldAs
  <2>9. s[i] = e
    BY <2>1, <2>8
  <2>10. s[i] \in D
    BY <1>1, <1>2, <1>4, <2>8 DEF DueOf, Range
  <2>11. PICK m \in DOMAIN Those(s, D) : at[m] = i
    BY <1>1, <1>3, <2>10 DEF Picks
  <2>12. Those(s, D)[m] = e
    BY <1>3, <2>9, <2>11 DEF Picks
  <2> QED BY <2>12 DEF Range
<1> QED BY <1>1, <1>2, <1>4, <1>5, <1>7, <1>8

LEMMA DueNothing ==
  ASSUME Basic, NEW p \in Players, NEW h \in Players, h \notin humans[p]
  PROVE  Range(Those(Rescheduled(p), DueOf(p, h))) = {}
<1>1. PICK s \in Seq(GoodEvents) : s = Rescheduled(p)
  BY DueIs
<1>2. PICK D : D = DueOf(p, h)
  OBVIOUS
<1>3. PICK at : Picks(at, s, D)
  BY ThosePick
<1>4. D = {}
  BY <1>2 DEF DueOf
<1>5. DOMAIN Those(s, D) = {}
  BY <1>3, <1>4 DEF Picks
<1> QED BY <1>1, <1>2, <1>5 DEF Range

LEMMA DoneGoes ==
  ASSUME Basic, Past, Counts, Story, NEW p \in Players, NEW st, Goes(p, st)
  PROVE  DoneRight(p)'
<1>1. PICK f : f = frame[p]
  OBVIOUS
<1>2. PICK w : w = window[p]
  OBVIOUS
<1>3. /\ Frames(p) /\ phase[p] # "left" /\ ByNow(p) /\ sent' = sent /\ Copies(p) /\ InOrder(p)
      /\ timing[p][f].humans = humans[p]
  BY <1>1 DEF Past, Goes, Story, Kept, Agrees
<1>4. SUFFICES ASSUME NEW g \in DOMAIN executed'[p] PROVE \E seqs : Served(p, g, seqs)'
  BY DEF DoneRight
<1>5. CASE g \in DOMAIN executed[p]
  <2>1. g \in DOMAIN timing[p]
    BY <1>3, <1>5, TimingIs
  <2>2. timing'[p][g] = timing[p][g] /\ executed'[p][g] = executed[p][g]
    BY <1>5, <2>1, GoesHistory
  <2>3. StillWanted(p)
    BY <1>3, TimingIs, SameWanted
  <2>4. PICK seqs : Served(p, g, seqs)
    BY <1>5 DEF Story, Did, DoneRight
  <2>5. Served(p, g, seqs)'
    BY <1>5, <2>2, <2>3, <2>4, ServedStays
  <2> QED BY <2>5
<1>6. CASE g = f
  <2>1. PICK seqs : seqs = [h \in Players |-> Those(Rescheduled(p), DueOf(p, h))]
    OBVIOUS
  <2>2. executed'[p][f] = FlattenSeq(seqs)
    BY <1>1, <2>1, GoesHistory DEF Due
  <2>3. timing'[p][f].humans = humans[p] /\ Window(p, f)' = w
    BY <1>1, <1>2, <1>3, GoesHistory DEF Window
  <2>4. ASSUME NEW h \in Players
        PROVE  /\ seqs[h] \in Seq(GoodEvents) /\ Sorted(seqs[h])
               /\ Range(seqs[h]) = IF h \in humans[p] THEN Wanted(h, f, w)' ELSE {}
    <3>1. seqs[h] = Those(Rescheduled(p), DueOf(p, h))
      BY <2>1
    <3>2. seqs[h] \in Seq(GoodEvents) /\ Sorted(seqs[h])
      BY <1>3, <3>1, DueSorted
    <3>3. Wanted(h, f, w)' = Wanted(h, f, w)
      BY <1>3 DEF Wanted
    <3>4. h \in humans[p] => Range(seqs[h]) = Wanted(h, f, w)
      BY <1>1, <1>2, <1>3, <3>1, DueWanted
    <3>5. h \notin humans[p] => Range(seqs[h]) = {}
      BY <3>1, DueNothing
    <3> QED BY <3>2, <3>3, <3>4, <3>5
  <2>5. seqs \in [Players -> Seq(GoodEvents)]
    BY <2>1, <2>4
  <2>6. \A h \in Players : /\ Sorted(seqs[h])
                           /\ Range(seqs[h]) = IF h \in timing'[p][f].humans
                                               THEN Wanted(h, f, Window(p, f))' ELSE {}
    BY <2>3, <2>4
  <2>7. Served(p, f, seqs)'
    BY <2>2, <2>5, <2>6 DEF Served
  <2> QED BY <1>6, <2>7
<1> QED BY <1>1, <1>5, <1>6, GoesHistory

LEMMA StoryAdvance ==
  ASSUME Basic, Past, Counts, Story, NEW p \in Players, Advance(p) PROVE Story'
<1>1. ~ TooLate(p)
  BY AdvanceGoes
<1>2. PICK st : Goes(p, st)
  BY AdvanceGoes
<1>3. FromState(p, st) /\ SetState(p, st)
  BY <1>2 DEF Goes, Moves
<1>4. /\ sent' = sent /\ frame' \in [Players -> Nat] /\ frame'[p] = frame[p] + FrameSendRate
      /\ \A q \in Players \ {p} : /\ frame'[q] = frame[q] /\ DoList'[q] = DoList[q] /\ phase'[q] = phase[q]
                                  /\ executed'[q] = executed[q] /\ timing'[q] = timing[q]
  BY <1>1, AdvanceIs
<1>5. Onward /\ \A h \in Players : Onto(h)
  <2>1. ASSUME NEW h \in Players PROVE frame'[h] \in Nat /\ frame[h] \in Nat /\ frame[h] <= frame'[h]
    <3>1. frame'[h] \in Nat /\ frame[h] \in Nat
      BY <1>4, PlayerTypes
    <3> QED BY <1>4, <3>1, RatePositive
  <2> QED BY <1>4, <2>1, OntoSame DEF Onward
<1>6. SUFFICES ASSUME NEW q \in Players PROVE phase'[q] # "late" /\ Kept(q)' /\ Did(q)'
  BY DEF Story
<1>7. phase[q] # "late" /\ Frames(q) /\ Kept(q) /\ Did(q)
  BY DEF Past, Story
<1>8. CASE q = p
  <2>1. Kept(p)' /\ phase'[p] # "late"
    BY <1>2, <1>7, <1>8, KeptGoes
  <2>2. Agrees(p) /\ Close(p) /\ Follows(p)
    BY <1>7, <1>8 DEF Kept, Did
  <2>3. Close(p)' /\ Follows(p)' /\ DoneRight(p)'
    BY <1>2, <1>5, <2>2, CloseGoes, FollowsGoes, DoneGoes
  <2> QED BY <1>8, <2>1, <2>3 DEF Did
<1>9. CASE q # p
  <2>1. window'[q] = window[q] /\ humans'[q] = humans[q] /\ conns'[q] = conns[q] /\ their_recv'[q] = their_recv[q]
    BY <1>3, <1>9, SetStateIs
  <2>2. Kept(q)'
    BY <1>4, <1>5, <1>7, <1>9, <2>1, KeptOther
  <2>3. StillWanted(q)
    BY <1>4, <1>7, TimingIs, SameWanted
  <2>4. Did(q)'
    BY <1>4, <1>5, <1>7, <1>9, <2>3, DidOther
  <2> QED BY <1>4, <1>7, <1>9, <2>2, <2>4
<1> QED BY <1>8, <1>9

-----------------------------------------------------------------------------
LEMMA FitBefore == ASSUME Basic, [Next]_vars, CountsFit' PROVE CountsFit
<1> SUFFICES ASSUME NEW q \in Players PROVE Len(sent[q]) < CountMod
  BY DEF CountsFit
<1>1. Len(sent'[q]) < CountMod
  BY DEF CountsFit
<1>2. Len(sent[q]) <= Len(sent'[q]) /\ Len(sent[q]) \in Nat
  BY SentGrows
<1>3. sent'[q] \in Seq(GoodEvents)
  BY BasicNext, PlayerTypes DEF Basic, Types
<1>4. Len(sent'[q]) \in Nat /\ CountMod \in Nat
  BY <1>3, LockstepAssumption
<1> QED BY <1>1, <1>2, <1>4

\* Without timeouts the only way to leave the game is the EXIT event.
LEMMA NobodyClosed ==
  ASSUME Unresponsive = {}, NEW p \in Players PROVE ~ Handle_Timeout(p) /\ ~ GiveUp(p)
BY DEF Handle_Timeout, TimedOut, GiveUp

LEMMA StoryNext ==
  ASSUME Unresponsive = {}, Basic, Past, CountsFit => Counts, [Next]_vars, CountsFit => Story
  PROVE  (CountsFit => Story)'
<1>1. SUFFICES ASSUME CountsFit' PROVE Story'
  OBVIOUS
<1>2. CountsFit /\ Counts /\ Story
  BY <1>1, FitBefore
<1>3. CASE UNCHANGED vars
  <2>1. UNCHANGED << phase, frame, window, humans, conns, their_recv, DoList, sent, executed, timing >>
    BY <1>3 DEF vars, local, peers, history
  <2>2. \A p \in Players : phase[p] # "late"
    BY <1>2 DEF Story
  <2> QED BY <1>2, <2>1, <2>2, StorySame
<1>4. ASSUME NEW p \in Players, Send_FrameSync(p) \/ Send_Packets(p) \/ AllReady(p) \/ Advance(p)
      PROVE  Story'
  BY <1>2, <1>4, StoryFrameSync, StorySend, StoryAllReady, StoryAdvance
<1>5. ASSUME NEW p \in Players, NEW q \in Players, ReceiveCommands(p, q) \/ ReceiveInfo(p, q)
      PROVE  Story'
  BY <1>2, <1>5, StoryReceiveCommands, StoryReceiveInfo
<1>6. CASE Next
  BY <1>4, <1>5, <1>6, NobodyClosed DEF Next
<1> QED BY <1>3, <1>6

LEMMA StoryAlways ==
  ASSUME Unresponsive = {} PROVE Spec \/ StartedSpec => [](CountsFit => Story)
<1>1. Init => (CountsFit => Story)
  <2>1. SUFFICES ASSUME Init PROVE Story
    OBVIOUS
  <2> QED BY <2>1, StoryInit
<1>2. Started => (CountsFit => Story)
  <2>1. SUFFICES ASSUME Started PROVE Story
    OBVIOUS
  <2> QED BY <2>1, StoryInit
<1>3. Basic /\ Past /\ (CountsFit => Counts) /\ (CountsFit => Story) /\ [Next]_vars => (CountsFit => Story)'
  BY StoryNext
<1> QED BY <1>1, <1>2, <1>3, BasicAlways, PastAlways, CountsAlways, PTL DEF Spec, StartedSpec

(* "This in turn ensures that a packet's execution frame # won't have been  *)
(* passed by the time that packet is received" (queue.cc, above             *)
(* Queue_AI_Multiplayer): as long as no connection times out and no count   *)
(* wraps, nobody stops with Packet-Received-Too-Late, whatever the TIMING   *)
(* events do to MaxAhead and whoever leaves meanwhile.                      *)
THEOREM NothingIsTooLate ==
  ASSUME Unresponsive = {} PROVE Spec \/ StartedSpec => [](CountsFit => NeverTooLate)
<1>1. Basic /\ Past /\ (CountsFit => Story) => (CountsFit => NeverTooLate)
  BY StoryMeans
<1> QED BY <1>1, BasicAlways, PastAlways, StoryAlways, PTL

(* At a frame two players have reached they agree on MaxAhead, the period   *)
(* of vulnerability and who is still human (the TIMING and EXIT events have *)
(* had the same effect on both), as long as no connection times out and no  *)
(* count wraps.                                                             *)
THEOREM TimingIsTheSame ==
  ASSUME Unresponsive = {} PROVE Spec \/ StartedSpec => [](CountsFit => SameTiming)
<1>1. Basic /\ Past /\ (CountsFit => Story) => (CountsFit => SameTiming)
  BY StoryMeans
<1> QED BY <1>1, BasicAlways, PastAlways, StoryAlways, PTL

(* Everyone executes the same events on the same frames in the same order,  *)
(* which is what keeps the games of the players in step (Execute_DoList):   *)
(* as long as no connection times out and no count wraps, for any number of *)
(* players, send rate and MaxAhead, however packets are lost and delayed.   *)
THEOREM HistoryIsTheSame ==
  ASSUME Unresponsive = {} PROVE Spec \/ StartedSpec => [](CountsFit => SameHistory)
<1>1. Basic /\ Past /\ (CountsFit => Story) => (CountsFit => SameHistory)
  BY StoryMeans
<1> QED BY <1>1, BasicAlways, PastAlways, StoryAlways, PTL
=============================================================================
