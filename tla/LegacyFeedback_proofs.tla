------------------------ MODULE LegacyFeedback_proofs ------------------------
(***************************************************************************)
(* Proofs about LegacyFeedback, for any number of findings, feedbacks, fix *)
(* sessions, requests and fix threads.                                     *)
(*                                                                         *)
(* The file has no lock, so nothing can be said of what its writers will   *)
(* put there, only of what they hold: a write that undoes no change leaves *)
(* all elements but one as they are, and that one as its writer has        *)
(* changed what it loaded.                                                 *)
(***************************************************************************)
EXTENDS LegacyFeedback, TLAPS

-----------------------------------------------------------------------------
(* The inductive invariant.                                                *)

Values == FindingThread \cup Item \cup Session
Writer == [pc: Pcs, about: Elements \cup {Nothing}, base: File, mine: Values \cup {Nothing},
           then: Pcs \cup {"put"}, tries: Nat]

\* What does not exist is not processed.
Sound(g) == g \in File /\ \A e \in Elements : g[e].status = "absent" => ~g[e].processing

Saving == {"changed", "reloaded"}

\* Where each writer can be, and what about.
place(w, r) ==
  /\ w \in Clients => /\ r.pc \in {"idle"} \cup Saving
                      /\ r.pc # "idle" => r.then \in {"put", "idle"}
  /\ w = Reviewer => /\ r.pc \in {"idle", "turn", "refresh"} \cup Saving
                     /\ r.pc # "idle" => r.about \in Findings
                     /\ r.pc \in Saving => r.then = "refresh"
  /\ w = Listener => /\ r.pc \in {"idle", "turn"} \cup Saving
                     /\ r.pc # "idle" => r.about \in Items
                     /\ r.pc \in Saving => r.then = "idle"
  /\ w \in Fixers => /\ r.pc \in {"idle", "guide", "execute", "apply"} \cup Saving
                     /\ r.pc # "idle" => r.about \in Sessions
                     /\ r.pc \in Saving => r.then \in {"idle", "execute", "apply"}

\* What a writer has changed: it is processed no longer unless someone goes on
\* with it,
change(r) ==
  r.pc # "idle" =>
    /\ r.about \in Elements
    /\ r.about \in Findings => r.mine \in FindingThread
    /\ r.about \in Items => r.mine \in Item
    /\ r.about \in Sessions => r.mine \in Session
    /\ r.mine.status # "absent"
    /\ r.pc \in Saving /\ r.then \in {"idle", "refresh"} => ~r.mine.processing

\* a request says nothing new of a finding, and a closed session stays closed.
respect(w, r) ==
  /\ w \in Clients /\ r.pc \in Saving /\ r.about \in Findings =>
       /\ r.mine.status = r.base[r.about].status
       /\ r.mine.minor = r.base[r.about].minor
  /\ r.pc # "idle" /\ r.about \in Sessions =>
       /\ r.pc \in Saving /\ r.then \in {"execute", "apply"} => r.mine.status = "fixing"
       /\ r.base[r.about].status = "completed" => r.pc \in Saving /\ r.mine.status = "completed"

writerInv(w, r) == r \in Writer /\ Sound(r.base) /\ place(w, r) /\ change(r) /\ respect(w, r)

\* A thread that will write e.
engaged(w, e) == about(w) = e /\ ~at(w, "idle") /\ ~at(w, "refresh")

served(e) ==
  e \notin lost \cup refused \cup stranded /\ file[e].processing =>
    jobs[e] > 0 \/ \E w \in Threads : engaged(w, e)

Inv ==
  /\ Sound(file) /\ jobs \in [Elements -> Nat]
  /\ writer \in [Writers -> Writer] /\ \A w \in Writers : writerInv(w, writer[w])
  /\ lost \subseteq Elements /\ refused \subseteq Elements /\ stranded \subseteq Elements
  /\ status \in {"success", "failed"} /\ heard \in {"passed", "rejected"}
  /\ \A e \in Elements : served(e)
  /\ RecordFollowsFile
  /\ PassIsHeard /\ (told => heard = "passed")

-----------------------------------------------------------------------------
(* Elements and files.                                                     *)

(* The file of a review without feedback is sound.                         *)
LEMMA NewFileSound == Sound(NewFile)
<1>1. ASSUME NEW e \in Elements
      PROVE  /\ e \in Findings => NewFile[e] \in FindingThread
             /\ e \in Items => NewFile[e] \in Item
             /\ e \in Sessions => NewFile[e] \in Session
             /\ NewFile[e].processing = FALSE
  <2>1. CASE e \in Findings
    <3>1. e \notin Items /\ e \notin Sessions
      BY <2>1, FeedbackAssumption
    <3>2. NewFile[e] = [status |-> "open", minor |-> FALSE, processing |-> FALSE, said |-> 0]
      BY <2>1, <3>1 DEF NewFile
    <3> QED BY <3>1, <3>2 DEF FindingThread
  <2>2. CASE e \in Items
    <3>1. e \notin Findings /\ e \notin Sessions
      BY <2>2, FeedbackAssumption
    <3>2. NewFile[e] = [status |-> "absent", processing |-> FALSE, said |-> 0]
      BY <2>2, <3>1 DEF NewFile
    <3> QED BY <3>1, <3>2 DEF Item
  <2>3. CASE e \in Sessions
    <3>1. e \notin Findings /\ e \notin Items
      BY <2>3, FeedbackAssumption
    <3>2. NewFile[e] = [status |-> "absent", round |-> 0, processing |-> FALSE, said |-> 0]
      BY <2>3, <3>1 DEF NewFile
    <3> QED BY <3>1, <3>2 DEF Session, Stages
  <2> QED BY <2>1, <2>2, <2>3 DEF Elements
<1>2. NewFile \in [Elements -> Values]
  <2>1. \A e \in Elements : NewFile[e] \in Values
    BY <1>1 DEF Elements, Values
  <2>2. NewFile = [e \in Elements |-> NewFile[e]]
    BY DEF NewFile
  <2> QED BY <2>1, <2>2
<1> QED BY <1>1, <1>2 DEF Sound, File, Values, Elements

(* The value of a sound file at an element is of its kind.                 *)
LEMMA ValueOfKind ==
  ASSUME NEW g, Sound(g), NEW e \in Elements
  PROVE  /\ g[e] \in Values
         /\ e \in Findings => g[e] \in FindingThread
         /\ e \in Items => g[e] \in Item
         /\ e \in Sessions => g[e] \in Session
         /\ g[e].status = "absent" => ~g[e].processing
BY DEF Sound, File, Values

(* Taking some elements from one file and the others from another.         *)
LEMMA MixedSound ==
  ASSUME NEW g, Sound(g), NEW h, Sound(h), NEW S
  PROVE  Sound([d \in Elements |-> IF d \in S THEN g[d] ELSE h[d]])
<1> DEFINE m == [d \in Elements |-> IF d \in S THEN g[d] ELSE h[d]]
<1>1. ASSUME NEW e \in Elements
      PROVE  /\ m[e] \in Values
             /\ e \in Findings => m[e] \in FindingThread
             /\ e \in Items => m[e] \in Item
             /\ e \in Sessions => m[e] \in Session
             /\ m[e].status = "absent" => ~m[e].processing
  BY ValueOfKind
<1>2. m \in [Elements -> Values]
  BY <1>1
<1> HIDE DEF m
<1>3. Sound(m)
  BY <1>1, <1>2 DEF Sound, File, Values, Elements
<1> QED BY <1>3 DEF m

(* Changing one element to a value of its kind.                            *)
LEMMA ChangedSound ==
  ASSUME NEW g, Sound(g), NEW e \in Elements, NEW v,
         e \in Findings => v \in FindingThread, e \in Items => v \in Item,
         e \in Sessions => v \in Session, v.status # "absent"
  PROVE  /\ Sound([g EXCEPT ![e] = v]) /\ [g EXCEPT ![e] = v][e] = v
         /\ \A d \in Elements \ {e} : [g EXCEPT ![e] = v][d] = g[d]
<1> DEFINE m == [g EXCEPT ![e] = v]
<1>1. g \in [Elements -> Values] /\ v \in Values
  BY DEF Sound, File, Values, Elements
<1>2. m \in [Elements -> Values] /\ m[e] = v /\ \A d \in Elements \ {e} : m[d] = g[d]
  BY <1>1
<1> HIDE DEF m
<1>3. ASSUME NEW d \in Elements
      PROVE  /\ d \in Findings => m[d] \in FindingThread
             /\ d \in Items => m[d] \in Item
             /\ d \in Sessions => m[d] \in Session
             /\ m[d].status = "absent" => ~m[d].processing
  <2>1. CASE d = e
    BY <1>2, <2>1
  <2>2. CASE d # e
    BY <1>2, <2>2, ValueOfKind
  <2> QED BY <2>1, <2>2
<1>4. Sound(m)
  BY <1>2, <1>3 DEF Sound, File, Values, Elements
<1> QED BY <1>2, <1>4 DEF m

(* Every element is in its list.                                           *)
LEMMA InItsList == ASSUME NEW e \in Elements PROVE e \in list(e)
BY DEF list, Elements

(* A finding, feedback or session whose processing has ended.              *)
LEMMA Settled ==
  /\ \A v \in FindingThread : /\ settled(v) \in FindingThread /\ settled(v).processing = FALSE
                              /\ settled(v).status = v.status /\ settled(v).minor = v.minor
  /\ \A v \in Item : /\ settled(v) \in Item /\ settled(v).processing = FALSE
                     /\ settled(v).status = v.status
  /\ \A v \in Session : /\ settled(v) \in Session /\ settled(v).processing = FALSE
                        /\ settled(v).status = v.status
BY DEF settled, FindingThread, Item, Session

(* The record depends on the status and the severity of the findings.      *)
LEMMA SameEffective ==
  ASSUME NEW g, NEW h, \A f \in Findings : g[f].status = h[f].status /\ g[f].minor = h[f].minor
  PROVE  effective(g) = effective(h)
<1>1. blocking(g) = blocking(h)
  BY DEF blocking
<1> QED BY <1>1 DEF effective

-----------------------------------------------------------------------------
(* What a step does to a writer.                                           *)

(* What a writer holds after it has loaded a list.                         *)
LEMMA LoadedFacts ==
  ASSUME Inv, NEW w \in Writers, NEW e \in Elements, NEW v \in Values, NEW pc \in Pcs,
         NEW then \in Pcs \cup {"put"}, loaded(w, e, v, pc, then)
  PROVE  /\ writer' \in [Writers -> Writer] /\ \A q \in Writers \ {w} : writer'[q] = writer[q]
         /\ writer'[w].pc = pc /\ writer'[w].about = e /\ writer'[w].mine = v /\ writer'[w].then = then
         /\ Sound(writer'[w].base) /\ writer'[w].base[e] = file[e]
<1> DEFINE m == [d \in Elements |-> IF d \in list(e) THEN file[d] ELSE NewFile[d]]
<1>1. Sound(m) /\ m[e] = file[e]
  BY MixedSound, NewFileSound, InItsList DEF Inv
<1>2. m \in File /\ NewFile \in File /\ writer \in [Writers -> Writer]
  BY <1>1, NewFileSound DEF Sound, Inv
<1>3. writer' = [writer EXCEPT ![w] = [Idle EXCEPT !.pc = pc, !.about = e, !.mine = v, !.then = then, !.base = m]]
  BY DEF loaded, becomes
<1> HIDE DEF m
<1> DEFINE r == [Idle EXCEPT !.pc = pc, !.about = e, !.mine = v, !.then = then, !.base = m]
<1>4. /\ r \in Writer /\ r.pc = pc /\ r.about = e /\ r.mine = v /\ r.then = then /\ r.base = m
  BY <1>2 DEF Writer, Idle
<1>5. writer' = [writer EXCEPT ![w] = r]
  BY <1>3
<1> HIDE DEF r
<1> QED BY <1>1, <1>2, <1>4, <1>5

(* What a thread holds after it has changed its element.                   *)
LEMMA WorksFacts ==
  ASSUME Inv, NEW w \in Writers, NEW v \in Values, NEW pc \in Pcs, NEW then \in Pcs \cup {"put"},
         works(w, v, pc, then)
  PROVE  /\ writer' \in [Writers -> Writer] /\ \A q \in Writers \ {w} : writer'[q] = writer[q]
         /\ writer'[w].pc = pc /\ writer'[w].about = writer[w].about /\ writer'[w].mine = v
         /\ writer'[w].then = then /\ writer'[w].base = writer[w].base
<1>1. writer \in [Writers -> Writer]
  BY DEF Inv
<1> DEFINE s == [writer[w] EXCEPT !.mine = v, !.pc = pc, !.then = then]
<1>2. writer' = [writer EXCEPT ![w] = s]
  BY <1>1 DEF works
<1>3. /\ s \in Writer /\ s.pc = pc /\ s.mine = v /\ s.then = then
      /\ s.about = writer[w].about /\ s.base = writer[w].base
  BY <1>1 DEF Writer
<1> HIDE DEF s
<1> QED BY <1>1, <1>2, <1>3

(* A step of one writer that leaves the file alone.                        *)
LEMMA QuietStep ==
  ASSUME Inv, NEW w \in Writers,
         writer' \in [Writers -> Writer], \A q \in Writers \ {w} : writer'[q] = writer[q],
         writerInv(w, writer'[w]),
         jobs' \in [Elements -> Nat],
         \A e \in Elements : engaged(w, e) => engaged(w, e)',
         \A e \in Elements : jobs'[e] = jobs[e] \/ (w \in Threads /\ engaged(w, e)'),
         writer'[w].pc # "refresh", writer[w].pc # "refresh",
         file' = file, status' = status, told' = told, heard' = heard, lost' = lost,
         refused' = refused, stranded' = stranded, unheard' = unheard
  PROVE  Inv'
<1>1. \A q \in Writers : writerInv(q, writer'[q])
  BY DEF Inv
<1>2. \A q \in Writers : writerInv(q, writer[q])'
  BY <1>1 DEF writerInv, Writer, Values, File, Sound, place, change, respect
<1>3. ASSUME NEW e \in Elements PROVE served(e)'
  <2>1. served(e)
    BY DEF Inv
  <2>2. \A q \in Threads : engaged(q, e) => engaged(q, e)'
    BY DEF engaged, at, about, Writers
  <2> QED BY <2>1, <2>2 DEF served
<1>4. at(Reviewer, "refresh")' <=> at(Reviewer, "refresh")
  BY DEF at, Writers, Threads
<1>5. RecordFollowsFile'
  BY <1>4 DEF Inv, RecordFollowsFile, effective, blocking
<1>6. PassIsHeard' /\ (told' => heard' = "passed")
  BY DEF Inv, PassIsHeard
<1>7. Sound(file)' /\ status' \in {"success", "failed"} /\ heard' \in {"passed", "rejected"}
  BY DEF Inv, Sound
<1> QED BY <1>2, <1>3, <1>5, <1>6, <1>7 DEF Inv

-----------------------------------------------------------------------------
(* The requests.                                                           *)

(* What a user says changes no status but the one it is said to change.    *)
LEMMA Said ==
  /\ \A v \in FindingThread : said(v) \in FindingThread /\ said(v).status = v.status /\ said(v).minor = v.minor
  /\ \A v \in Item : [said(v) EXCEPT !.status = "waiting"] \in Item
                     /\ [said(v) EXCEPT !.status = "waiting"].status = "waiting"
  /\ \A v \in Session, stage \in Stages : [said(v) EXCEPT !.status = stage] \in Session
                     /\ [said(v) EXCEPT !.status = stage].status = stage
<1> DEFINE more(v) == [v EXCEPT !.said = v.said + 1]
<1>1. \A v : said(v) = [more(v) EXCEPT !.processing = TRUE]
  BY DEF said
<1>2. ASSUME NEW v \in FindingThread
      PROVE  said(v) \in FindingThread /\ said(v).status = v.status /\ said(v).minor = v.minor
  <2>1. v.said + 1 \in Nat
    BY DEF FindingThread
  <2>2. more(v) \in FindingThread /\ more(v).status = v.status /\ more(v).minor = v.minor
    BY <2>1 DEF FindingThread
  <2> HIDE DEF more
  <2> QED BY <1>1, <2>2 DEF FindingThread
<1>3. ASSUME NEW v \in Item
      PROVE  [said(v) EXCEPT !.status = "waiting"] \in Item /\ [said(v) EXCEPT !.status = "waiting"].status = "waiting"
  <2>1. v.said + 1 \in Nat
    BY DEF Item
  <2>2. more(v) \in Item
    BY <2>1 DEF Item
  <2> HIDE DEF more
  <2>3. said(v) \in Item
    BY <1>1, <2>2 DEF Item
  <2> QED BY <2>3 DEF Item
<1>4. ASSUME NEW v \in Session, NEW stage \in Stages
      PROVE  [said(v) EXCEPT !.status = stage] \in Session /\ [said(v) EXCEPT !.status = stage].status = stage
  <2>1. v.said + 1 \in Nat
    BY DEF Session
  <2>2. more(v) \in Session
    BY <2>1 DEF Session
  <2> HIDE DEF more
  <2>3. said(v) \in Session
    BY <1>1, <2>2 DEF Session
  <2> QED BY <2>3 DEF Session
<1> QED BY <1>2, <1>3, <1>4

(* A request that has loaded a list keeps the invariant, if what it says   *)
(* of its element is in order.                                             *)
LEMMA LoadedByAClient ==
  ASSUME Inv, NEW c \in Clients, NEW e \in Elements, NEW v, NEW then \in {"put", "idle"},
         Request(c), loaded(c, e, v, "changed", then),
         e \in Findings => /\ v \in FindingThread /\ then = "put"
                           /\ v.status = file[e].status /\ v.minor = file[e].minor,
         e \in Items => v \in Item /\ then = "put",
         e \in Sessions => v \in Session /\ file[e].status # "completed",
         v.status # "absent", then = "idle" => ~v.processing
  PROVE  Inv'
<1>1. /\ file' = file /\ jobs' = jobs /\ status' = status /\ told' = told /\ heard' = heard
      /\ lost' = lost /\ refused' = refused /\ stranded' = stranded /\ unheard' = unheard
      /\ writer[c].pc = "idle" /\ c \in Writers
  BY DEF Request, history, at, Writers
<1>2. v \in Values
  BY DEF Values, Elements
<1>3. /\ writer' \in [Writers -> Writer] /\ \A q \in Writers \ {c} : writer'[q] = writer[q]
      /\ writer'[c].pc = "changed" /\ writer'[c].about = e /\ writer'[c].mine = v /\ writer'[c].then = then
      /\ Sound(writer'[c].base) /\ writer'[c].base[e] = file[e]
  BY <1>1, <1>2, LoadedFacts DEF Pcs
<1>4. c # Reviewer /\ c # Listener /\ c \notin Fixers /\ c \notin Threads
  BY FeedbackAssumption DEF Threads
<1>5. writerInv(c, writer'[c])
  <2>1. writer'[c] \in Writer
    BY <1>1, <1>3
  <2>2. place(c, writer'[c])
    BY <1>3, <1>4 DEF place, Saving
  <2>3. change(writer'[c])
    BY <1>3 DEF change, Saving
  <2>4. respect(c, writer'[c])
    BY <1>3 DEF respect, Saving
  <2> QED BY <1>3, <2>1, <2>2, <2>3, <2>4 DEF writerInv
<1>6. /\ jobs' \in [Elements -> Nat] /\ \A d \in Elements : ~engaged(c, d)
      /\ \A d \in Elements : jobs'[d] = jobs[d]
  BY <1>1 DEF Inv, engaged, at
<1> QED BY <1>1, <1>3, <1>5, <1>6, QuietStep

(* Every request loads an element and changes it as LoadedByAClient asks.  *)
LEMMA NewRequestKeepsInv ==
  ASSUME Inv, NEW c \in Clients, NewRequest(c)
  PROVE  Inv'
<1>1. Sound(file)
  BY DEF Inv
<1>2. CASE \E f \in Findings : submit_finding_feedback(c, f)
  <2>1. PICK f \in Findings : submit_finding_feedback(c, f)
    BY <1>2
  <2>2. f \in Elements /\ f \notin Items /\ f \notin Sessions /\ file[f] \in FindingThread
    BY <1>1, ValueOfKind, FeedbackAssumption DEF Elements
  <2> DEFINE v == said(file[f])
  <2>3. v \in FindingThread /\ v.status = file[f].status /\ v.minor = file[f].minor /\ v.status # "absent"
    BY <2>2, Said DEF FindingThread
  <2>4. Request(c) /\ loaded(c, f, v, "changed", "put")
    BY <2>1 DEF submit_finding_feedback
  <2> HIDE DEF v
  <2> QED BY <2>2, <2>3, <2>4, LoadedByAClient
<1>3. CASE \E i \in Items : submit_general_feedback(c, i)
  <2>1. PICK i \in Items : submit_general_feedback(c, i)
    BY <1>3
  <2>2. i \in Elements /\ i \notin Findings /\ i \notin Sessions /\ file[i] \in Item
    BY <1>1, ValueOfKind, FeedbackAssumption DEF Elements
  <2> DEFINE v == [said(file[i]) EXCEPT !.status = "waiting"]
  <2>3. v \in Item /\ v.status # "absent"
    BY <2>2, Said
  <2>4. Request(c) /\ loaded(c, i, v, "changed", "put")
    BY <2>1 DEF submit_general_feedback
  <2> HIDE DEF v
  <2> QED BY <2>2, <2>3, <2>4, LoadedByAClient
<1>4. ASSUME NEW s \in Sessions
      PROVE  s \in Elements /\ s \notin Findings /\ s \notin Items /\ file[s] \in Session
  BY <1>1, ValueOfKind, FeedbackAssumption DEF Elements
<1>5. CASE \E s \in Sessions : create_fix_session(c, s)
  <2>1. PICK s \in Sessions : create_fix_session(c, s)
    BY <1>5
  <2> DEFINE v == [said(file[s]) EXCEPT !.status = "confirmation"]
  <2>2. v \in Session /\ v.status # "absent"
    BY <1>4, Said DEF Stages
  <2>3. Request(c) /\ loaded(c, s, v, "changed", "put") /\ file[s].status # "completed"
    BY <2>1 DEF create_fix_session
  <2> HIDE DEF v
  <2> QED BY <1>4, <2>2, <2>3, LoadedByAClient
<1>6. CASE \E s \in Sessions : submit_fix_session_message(c, s)
  <2>1. PICK s \in Sessions : submit_fix_session_message(c, s)
    BY <1>6
  <2>2. Request(c) /\ file[s].status \notin {"absent", "completed"} /\ file[s] \in Session
    BY <1>4, <2>1 DEF submit_fix_session_message, open_session
  <2>3. CASE loaded(c, s, [file[s] EXCEPT !.said = @ + 1, !.status = "completed",
                                          !.processing = FALSE], "changed", "idle")
    <3> DEFINE v == [file[s] EXCEPT !.said = @ + 1, !.status = "completed", !.processing = FALSE]
    <3>1. v \in Session /\ v.status # "absent" /\ ~v.processing
      <4>1. file[s].said + 1 \in Nat /\ file[s] \in Session
        BY <2>2 DEF Session
      <4>2. v = [[file[s] EXCEPT !.said = file[s].said + 1] EXCEPT !.status = "completed", !.processing = FALSE]
        OBVIOUS
      <4> DEFINE u == [file[s] EXCEPT !.said = file[s].said + 1]
      <4>3. u \in Session
        BY <4>1 DEF Session
      <4> HIDE DEF u
      <4>4. v = [u EXCEPT !.status = "completed", !.processing = FALSE]
        BY <4>2 DEF u
      <4> QED BY <4>3, <4>4 DEF Session, Stages
    <3>2. loaded(c, s, v, "changed", "idle")
      BY <2>3
    <3> HIDE DEF v
    <3> QED BY <1>4, <2>2, <3>1, <3>2, LoadedByAClient
  <2>4. CASE loaded(c, s, [said(file[s]) EXCEPT !.status =
                             IF @ \in {"awaiting_user_confirmation", "completed", "failed"}
                             THEN "confirmation" ELSE @], "changed", "put")
    <3> DEFINE stage == IF file[s].status \in {"awaiting_user_confirmation", "completed", "failed"}
                        THEN "confirmation" ELSE file[s].status
               v == [said(file[s]) EXCEPT !.status = stage]
    <3>1. stage \in Stages /\ stage # "absent"
      BY <2>2 DEF Session, Stages
    <3>2. said(file[s]).status = file[s].status
      BY <2>2 DEF said, Session
    <3>3. loaded(c, s, v, "changed", "put")
      BY <2>4, <3>2
    <3> HIDE DEF stage
    <3>4. v \in Session /\ v.status # "absent"
      BY <2>2, <3>1, Said
    <3> HIDE DEF v
    <3> QED BY <1>4, <2>2, <3>3, <3>4, LoadedByAClient
  <2> QED BY <2>1, <2>3, <2>4 DEF submit_fix_session_message
<1> QED BY <1>2, <1>3, <1>5, <1>6 DEF NewRequest

-----------------------------------------------------------------------------
(* Saving.                                                                 *)

(* Loading the other lists changes nothing of the element in hand.         *)
LEMMA ReloadKeepsInv ==
  ASSUME Inv, NEW w \in Writers, Reload(w)
  PROVE  Inv'
<1>1. /\ file' = file /\ jobs' = jobs /\ status' = status /\ told' = told /\ heard' = heard
      /\ lost' = lost /\ refused' = refused /\ stranded' = stranded /\ unheard' = unheard
      /\ writer[w].pc = "changed"
  BY DEF Reload, history, at
<1>2. writerInv(w, writer[w]) /\ writer \in [Writers -> Writer] /\ Sound(file)
  BY DEF Inv
<1> DEFINE e == writer[w].about
           m == [d \in Elements |-> IF d \in list(about(w)) THEN writer[w].base[d] ELSE file[d]]
<1>3. e \in Elements
  BY <1>1, <1>2 DEF writerInv, change
<1>4. Sound(m) /\ m[e] = writer[w].base[e]
  BY <1>2, <1>3, MixedSound, InItsList DEF writerInv, about
<1>5. writer' = [writer EXCEPT ![w].pc = "reloaded", ![w].base = m]
  BY DEF Reload
<1>6. m \in File
  BY <1>4 DEF Sound
<1> HIDE DEF m
<1>7. /\ writer' \in [Writers -> Writer] /\ \A q \in Writers \ {w} : writer'[q] = writer[q]
      /\ writer'[w].pc = "reloaded" /\ writer'[w].about = e /\ writer'[w].mine = writer[w].mine
      /\ writer'[w].then = writer[w].then /\ writer'[w].base = m
  <2> DEFINE s == [writer[w] EXCEPT !.pc = "reloaded", !.base = m]
  <2>1. writer' = [writer EXCEPT ![w] = s]
    BY <1>2, <1>5
  <2>2. /\ s \in Writer /\ s.pc = "reloaded" /\ s.about = e /\ s.mine = writer[w].mine
        /\ s.then = writer[w].then /\ s.base = m
    BY <1>2, <1>6 DEF Writer, Pcs
  <2> HIDE DEF s
  <2> QED BY <1>2, <2>1, <2>2
<1>8. writerInv(w, writer'[w])
  <2>1. place(w, writer'[w])
    BY <1>1, <1>2, <1>7 DEF writerInv, place, Saving
  <2>2. change(writer'[w])
    BY <1>1, <1>2, <1>7 DEF writerInv, change, Saving
  <2>3. respect(w, writer'[w])
    BY <1>1, <1>2, <1>4, <1>7 DEF writerInv, respect, Saving
  <2> QED BY <1>4, <1>7, <2>1, <2>2, <2>3 DEF writerInv
<1>9. /\ jobs' \in [Elements -> Nat] /\ \A d \in Elements : jobs'[d] = jobs[d]
      /\ \A d \in Elements : engaged(w, d) => engaged(w, d)'
  BY <1>1, <1>7 DEF Inv, engaged, at, about
<1> QED BY <1>1, <1>7, <1>8, <1>9, QuietStep

(* What a write leaves of the file.                                        *)
LEMMA Written ==
  ASSUME Inv, NEW w \in Writers, writer[w].pc = "reloaded", _save_feedback_file(w),
         NEW e, e = writer[w].about
  PROVE  /\ e \in Elements /\ Sound(file') /\ lost \subseteq lost' /\ lost' \subseteq Elements
         /\ file'[e] = writer[w].mine
         /\ \A d \in Elements \ lost' : file[d] = writer[w].base[d]
         /\ \A d \in Elements \ lost' : d # e => file'[d] = file[d]
         /\ e \in Sessions \ lost' /\ file[e].status = "completed" => file'[e].status = "completed"
         /\ w \in Clients /\ e \in Findings \ lost' =>
              file'[e].status = file[e].status /\ file'[e].minor = file[e].minor
<1>1. writerInv(w, writer[w]) /\ lost \subseteq Elements
  BY DEF Inv
<1> DEFINE v == writer[w].mine  g == writer[w].base
<1>2. e \in Elements /\ Sound(g) /\ v.status # "absent"
  BY <1>1 DEF writerInv, change
<1>3. /\ e \in Findings => v \in FindingThread
      /\ e \in Items => v \in Item
      /\ e \in Sessions => v \in Session
  BY <1>1 DEF writerInv, change
<1>4. file' = [g EXCEPT ![e] = v] /\ lost' = lost \cup {d \in Elements : file[d] # g[d]}
  BY DEF _save_feedback_file, undone, about
<1> HIDE DEF v, g
<1>5. Sound(file') /\ file'[e] = v /\ \A d \in Elements \ {e} : file'[d] = g[d]
  <2>1. /\ Sound([g EXCEPT ![e] = v]) /\ [g EXCEPT ![e] = v][e] = v
        /\ \A d \in Elements \ {e} : [g EXCEPT ![e] = v][d] = g[d]
    BY <1>2, <1>3, ChangedSound
  <2> QED BY <1>4, <2>1
<1>6. \A d \in Elements \ lost' : file[d] = g[d]
  BY <1>4
<1>7. /\ g[e].status = "completed" /\ e \in Sessions => v.status = "completed"
      /\ w \in Clients /\ e \in Findings => v.status = g[e].status /\ v.minor = g[e].minor
  BY <1>1 DEF writerInv, respect, Saving, v, g
<1>8. lost \subseteq lost' /\ lost' \subseteq Elements
  BY <1>1, <1>4
<1> QED BY <1>2, <1>5, <1>6, <1>7, <1>8, FeedbackAssumption DEF v, g, Elements

(* A writer with nothing in hand satisfies the invariant.                  *)
LEMMA IdleWriter ==
  ASSUME NEW w \in Writers
  PROVE  Idle \in Writer /\ writerInv(w, Idle)
<1>1. Idle \in Writer
  BY NewFileSound DEF Idle, Writer, Pcs, Sound
<1> QED BY <1>1, NewFileSound DEF Idle, writerInv, place, change, respect, Saving

(* A request writes its list; what is not undone keeps what it said.       *)
LEMMA ClientWritesKeepsInv ==
  ASSUME Inv, NEW c \in Clients, ClientWrites(c)
  PROVE  Inv'
<1> DEFINE e == writer[c].about
<1>1. /\ writer[c].pc = "reloaded" /\ _save_feedback_file(c) /\ c \in Writers
      /\ writer' = [writer EXCEPT ![c] = Idle]
      /\ status' = status /\ told' = told /\ heard' = heard
      /\ stranded' = stranded /\ unheard' = unheard
  BY DEF ClientWrites, at, becomes, Writers
<1>2. /\ e \in Elements /\ Sound(file') /\ lost \subseteq lost' /\ lost' \subseteq Elements
      /\ file'[e] = writer[c].mine
      /\ \A d \in Elements \ lost' : d # e => file'[d] = file[d]
      /\ e \in Findings \ lost' => file'[e].status = file[e].status /\ file'[e].minor = file[e].minor
  BY <1>1, Written
<1>3. c \notin Threads /\ c # Reviewer /\ writerInv(c, writer[c]) /\ writer \in [Writers -> Writer]
  BY <1>1, FeedbackAssumption DEF Threads, Inv
<1>4. \A q \in Writers \ {c} : writer'[q] = writer[q]
  BY <1>1, <1>3
<1>5. /\ writer' \in [Writers -> Writer]
      /\ \A q \in Writers : writerInv(q, writer[q])'
  <2>1. writer' \in [Writers -> Writer] /\ writer'[c] = Idle
    BY <1>1, <1>3, IdleWriter
  <2>2. \A q \in Writers : writerInv(q, writer'[q])
    BY <1>4, <2>1, IdleWriter DEF Inv
  <2> QED BY <2>1, <2>2 DEF writerInv, Writer, Values, File, Sound, place, change, respect
<1>6. /\ jobs' \in [Elements -> Nat] /\ refused \subseteq refused' /\ refused' \subseteq Elements
      /\ \A d \in Elements : jobs'[d] = jobs[d] \/ jobs'[d] > 0
      /\ writer[c].then = "put" => jobs'[e] > 0 \/ e \in refused'
  <2>1. jobs \in [Elements -> Nat] /\ refused \subseteq Elements
    BY DEF Inv
  <2>2. CASE writer[c].then = "put" /\ jobs' = [jobs EXCEPT ![e] = @ + 1] /\ UNCHANGED refused
    BY <1>2, <2>1, <2>2
  <2>3. CASE writer[c].then = "put" /\ refused' = refused \cup {e} /\ UNCHANGED jobs
    BY <1>2, <2>1, <2>3
  <2>4. CASE writer[c].then = "idle" /\ UNCHANGED <<jobs, refused>>
    BY <2>1, <2>4
  <2> QED BY <2>2, <2>3, <2>4 DEF ClientWrites, about
<1>7. ASSUME NEW d \in Elements PROVE served(d)'
  <2>1. \A q \in Threads : engaged(q, d)' <=> engaged(q, d)
    BY <1>3, <1>4 DEF engaged, at, about, Writers
  <2>2. CASE d = e
    <3>1. writer[c].then \in {"put", "idle"} /\ (writer[c].then = "idle" => ~writer[c].mine.processing)
      BY <1>1, <1>3 DEF writerInv, place, change, Saving
    <3> QED BY <1>2, <1>6, <2>2, <3>1 DEF served
  <2>3. CASE d # e
    <3>1. served(d)
      BY DEF Inv
    <3> QED BY <1>1, <1>2, <1>6, <2>1, <2>3, <3>1 DEF served
  <2> QED BY <2>2, <2>3
<1>8. RecordFollowsFile'
  <2> SUFFICES ASSUME lost' \cap Findings = {}, stranded' \cap Findings = {}, ~at(Reviewer, "refresh")'
               PROVE  status' = effective(file')
    BY DEF RecordFollowsFile, effective, blocking
  <2>1. status = effective(file)
    BY <1>1, <1>2, <1>3, <1>4 DEF Inv, RecordFollowsFile, at, Writers, Threads
  <2>2. \A f \in Findings : file'[f].status = file[f].status /\ file'[f].minor = file[f].minor
    BY <1>2 DEF Elements
  <2> QED BY <1>1, <2>1, <2>2, SameEffective
<1>9. PassIsHeard' /\ (told' => heard' = "passed")
  BY <1>1 DEF Inv, PassIsHeard
<1>10. /\ Sound(file)' /\ status' \in {"success", "failed"} /\ heard' \in {"passed", "rejected"}
       /\ stranded' \subseteq Elements
  BY <1>1, <1>2 DEF Inv, Sound
<1> QED BY <1>2, <1>5, <1>6, <1>7, <1>8, <1>9, <1>10 DEF Inv

(* A thread writes its list, and goes on if it said so.                    *)
LEMMA ThreadWritesKeepsInv ==
  ASSUME Inv, NEW w \in Threads, ThreadWrites(w)
  PROVE  Inv'
<1> DEFINE e == writer[w].about
<1>1. /\ writer[w].pc = "reloaded" /\ _save_feedback_file(w) /\ w \in Writers
      /\ jobs' = jobs /\ status' = status /\ told' = told /\ heard' = heard
      /\ refused' = refused /\ stranded' = stranded /\ unheard' = unheard
  BY DEF ThreadWrites, at, Writers
<1>2. /\ e \in Elements /\ Sound(file') /\ lost \subseteq lost' /\ lost' \subseteq Elements
      /\ file'[e] = writer[w].mine
      /\ \A d \in Elements \ lost' : d # e => file'[d] = file[d]
  BY <1>1, Written
<1>3. writerInv(w, writer[w]) /\ writer \in [Writers -> Writer] /\ w \notin Clients
  BY <1>1, FeedbackAssumption DEF Threads, Inv
<1>4. /\ writer' \in [Writers -> Writer] /\ \A q \in Writers \ {w} : writer'[q] = writer[q]
      /\ writerInv(w, writer'[w])
      /\ writer[w].then = "idle" => writer'[w] = Idle
      /\ writer[w].then # "idle" => writer'[w].about = e /\ writer'[w].pc = writer[w].then
  <2>1. CASE writer[w].then = "idle"
    <3>1. writer' = [writer EXCEPT ![w] = Idle]
      BY <2>1 DEF ThreadWrites, becomes
    <3> QED BY <1>1, <1>3, <2>1, <3>1, IdleWriter
  <2>2. CASE writer[w].then # "idle"
    <3> DEFINE m == [d \in Elements |-> IF d \in list(about(w)) THEN file'[d] ELSE NewFile[d]]
               r == [writer[w] EXCEPT !.pc = writer[w].then, !.then = "idle", !.base = m]
    <3>1. writer' = [writer EXCEPT ![w] = r]
      BY <2>2 DEF ThreadWrites, becomes
    <3>2. Sound(m) /\ m[e] = writer[w].mine
      BY <1>2, MixedSound, NewFileSound, InItsList DEF about
    <3>3. m \in File /\ writer[w].then \in {"refresh", "execute", "apply"}
      BY <1>1, <1>3, <2>2, <3>2 DEF Sound, writerInv, place, Threads, Saving
    <3> HIDE DEF m
    <3>4. /\ r \in Writer /\ r.pc = writer[w].then /\ r.about = e /\ r.then = "idle" /\ r.base = m
          /\ r.mine = writer[w].mine
      BY <1>1, <1>3, <3>3 DEF Writer, Pcs
    <3> HIDE DEF r
    <3>5. place(w, r)
      BY <1>1, <1>3, <2>2, <3>3, <3>4 DEF writerInv, place, Saving
    <3>6. change(r)
      BY <1>1, <1>3, <3>3, <3>4 DEF writerInv, change, Saving
    <3>7. respect(w, r)
      <4>1. e \in Sessions => e \notin Findings
        BY FeedbackAssumption
      <4>2. e \in Sessions => w \in Fixers
        BY <1>1, <1>3, FeedbackAssumption DEF writerInv, place, Threads
      <4>3. e \in Sessions => writer[w].then \in {"execute", "apply"}
        BY <1>1, <1>3, <2>2, <4>2 DEF writerInv, place, Saving
      <4>4. e \in Sessions => writer[w].mine.status = "fixing"
        BY <1>1, <1>3, <4>3 DEF writerInv, respect, Saving
      <4> QED BY <1>3, <3>2, <3>3, <3>4, <4>4 DEF respect, Saving
    <3>8. /\ writer' \in [Writers -> Writer] /\ \A q \in Writers \ {w} : writer'[q] = writer[q]
          /\ writer'[w] = r
      BY <1>1, <1>3, <3>1, <3>4
    <3> QED BY <2>2, <3>2, <3>4, <3>5, <3>6, <3>7, <3>8 DEF writerInv
  <2> QED BY <2>1, <2>2
<1>5. \A q \in Writers : writerInv(q, writer[q])'
  <2>1. \A q \in Writers : writerInv(q, writer'[q])
    BY <1>4 DEF Inv
  <2> QED BY <2>1 DEF writerInv, Writer, Values, File, Sound, place, change, respect
<1>6. ASSUME NEW d \in Elements PROVE served(d)'
  <2>1. \A q \in Threads \ {w} : engaged(q, d)' <=> engaged(q, d)
    BY <1>4 DEF engaged, at, about, Writers
  <2>2. CASE d = e
    <3>1. writer[w].then \in {"idle", "refresh"} => ~writer[w].mine.processing
      BY <1>1, <1>3 DEF writerInv, change, Saving
    <3>2. writer[w].then \notin {"idle", "refresh"} => engaged(w, d)'
      BY <1>4, <2>2 DEF engaged, at, about
    <3> QED BY <1>2, <2>2, <3>1, <3>2 DEF served
  <2>3. CASE d # e
    <3>1. served(d) /\ ~engaged(w, d)
      BY <2>3 DEF Inv, engaged, about
    <3> QED BY <1>1, <1>2, <2>1, <2>3, <3>1 DEF served
  <2> QED BY <2>2, <2>3
<1>7. RecordFollowsFile'
  <2> SUFFICES ASSUME lost' \cap Findings = {}, stranded' \cap Findings = {}, ~at(Reviewer, "refresh")'
               PROVE  status' = effective(file')
    BY DEF RecordFollowsFile, effective, blocking
  <2>1. w # Reviewer
    BY <1>1, <1>3, <1>4 DEF writerInv, place, Saving, at
  <2>2. e \notin Findings
    BY <1>1, <1>3, <2>1, FeedbackAssumption DEF writerInv, place, Threads
  <2>3. status = effective(file)
    BY <1>1, <1>2, <1>4, <2>1 DEF Inv, RecordFollowsFile, at, Writers, Threads
  <2>4. \A f \in Findings : file'[f].status = file[f].status /\ file'[f].minor = file[f].minor
    BY <1>2, <2>2 DEF Elements
  <2> QED BY <1>1, <2>3, <2>4, SameEffective
<1>8. PassIsHeard' /\ (told' => heard' = "passed")
  BY <1>1 DEF Inv, PassIsHeard
<1>9. /\ Sound(file)' /\ status' \in {"success", "failed"} /\ heard' \in {"passed", "rejected"}
      /\ stranded' \subseteq Elements /\ refused' \subseteq Elements /\ jobs' \in [Elements -> Nat]
  BY <1>1, <1>2 DEF Inv, Sound
<1> QED BY <1>2, <1>4, <1>5, <1>6, <1>7, <1>8, <1>9 DEF Inv

-----------------------------------------------------------------------------
(* The threads.                                                            *)

(* Taking a job about an element that exists.                              *)
LEMMA TakeKeepsInv ==
  ASSUME Inv, NEW w \in Threads, NEW e \in Elements, NEW pc \in {"turn", "guide", "execute", "changed"},
         Take(w, e, pc),
         w = Reviewer => e \in Findings /\ pc = "turn",
         w = Listener => e \in Items /\ pc = "turn",
         w \in Fixers => e \in Sessions /\ pc = begin(file[e])
  PROVE  Inv'
<1>1. /\ writer[w].pc = "idle" /\ jobs[e] > 0 /\ jobs' = [jobs EXCEPT ![e] = @ - 1]
      /\ file' = file /\ status' = status /\ told' = told /\ heard' = heard
      /\ lost' = lost /\ refused' = refused /\ stranded' = stranded /\ unheard' = unheard
      /\ w \in Writers
  BY DEF Take, history, at, Writers
<1>2. Sound(file) /\ writer \in [Writers -> Writer] /\ jobs \in [Elements -> Nat]
  BY DEF Inv
<1>3. /\ jobs' \in [Elements -> Nat] /\ \A d \in Elements \ {e} : jobs'[d] = jobs[d]
      /\ \A d \in Elements : ~engaged(w, d)
  BY <1>1, <1>2 DEF engaged, at
<1>4. CASE file[e].status = "absent"
  <2>1. writer' = writer
    BY <1>4 DEF Take
  <2>2. ASSUME NEW d \in Elements PROVE served(d)'
    <3>1. CASE d = e
      BY <1>1, <1>2, <1>4, <3>1, ValueOfKind DEF served
    <3>2. CASE d # e
      <4>1. served(d)
        BY DEF Inv
      <4> QED BY <1>1, <1>3, <2>1, <3>2, <4>1 DEF served, engaged, at, about
    <3> QED BY <3>1, <3>2
  <2>3. \A q \in Writers : writerInv(q, writer[q])'
    BY <2>1, Zenon DEF Inv
  <2>4. RecordFollowsFile' /\ PassIsHeard' /\ Sound(file)' /\ writer' \in [Writers -> Writer]
    BY <1>1, <1>2, <2>1 DEF Inv, RecordFollowsFile, PassIsHeard, effective, blocking, at, Sound
  <2> QED BY <1>1, <1>3, <2>2, <2>3, <2>4 DEF Inv
<1>5. CASE file[e].status # "absent"
  <2> DEFINE v == IF pc = "changed" THEN settled(file[e]) ELSE file[e]
  <2>1. loaded(w, e, v, pc, "idle")
    BY <1>5 DEF Take
  <2>2. /\ v \in Values /\ v.status = file[e].status /\ (pc = "changed" => ~v.processing)
        /\ e \in Findings => v \in FindingThread
        /\ e \in Items => v \in Item
        /\ e \in Sessions => v \in Session
    BY <1>2, ValueOfKind, Settled DEF Values, Elements
  <2> HIDE DEF v
  <2>3. /\ writer' \in [Writers -> Writer] /\ \A q \in Writers \ {w} : writer'[q] = writer[q]
        /\ writer'[w].pc = pc /\ writer'[w].about = e /\ writer'[w].mine = v /\ writer'[w].then = "idle"
        /\ Sound(writer'[w].base) /\ writer'[w].base[e] = file[e]
    <3>1. pc \in Pcs /\ "idle" \in Pcs \cup {"put"} /\ w \in Writers /\ v \in Values
      BY <1>1, <2>2 DEF Pcs
    <3> QED BY <2>1, <3>1, LoadedFacts
  <2>4. writerInv(w, writer'[w])
    <3>1. place(w, writer'[w])
      <4>2. w \in Threads /\ w \notin Clients
        BY FeedbackAssumption DEF Threads
      <4>3. pc # "reloaded" /\ (pc = "turn" => w \notin Fixers)
        BY DEF begin
      <4> QED BY <2>3, <4>2, <4>3, FeedbackAssumption DEF place, Saving
    <3>2. change(writer'[w])
      BY <1>5, <2>2, <2>3 DEF change, Saving
    <3>3. respect(w, writer'[w])
      <4>1. e \in Sessions => w \in Fixers /\ pc = begin(file[e])
        BY FeedbackAssumption DEF Threads
      <4>2. w \notin Clients
        BY FeedbackAssumption DEF Threads
      <4> QED BY <2>2, <2>3, <4>1, <4>2 DEF respect, Saving, begin
    <3> QED BY <1>1, <2>3, <3>1, <3>2, <3>3 DEF writerInv
  <2>5. engaged(w, e)' /\ writer'[w].pc # "refresh" /\ writer[w].pc # "refresh"
    BY <1>1, <2>3 DEF engaged, at, about
  <2>6. \A d \in Elements : jobs'[d] = jobs[d] \/ (w \in Threads /\ engaged(w, d)')
    BY <1>3, <2>5
  <2> QED BY <1>1, <1>3, <2>3, <2>4, <2>5, <2>6, QuietStep
<1> QED BY <1>4, <1>5

(* Each thread takes the jobs of its own queue.                            *)
LEMMA TakeJobKeepsInv ==
  ASSUME Inv, NEW w \in Threads, TakeJob(w)
  PROVE  Inv'
<1>1. CASE w = Reviewer /\ \E f \in Findings : Take(w, f, "turn")
  BY <1>1, TakeKeepsInv, FeedbackAssumption DEF Elements
<1>2. CASE w = Listener /\ \E i \in Items : Take(w, i, "turn")
  BY <1>2, TakeKeepsInv, FeedbackAssumption DEF Elements
<1>3. CASE w \in Fixers /\ \E x \in Sessions : Take(w, x, begin(file[x]))
  <2>1. PICK x \in Sessions : Take(w, x, begin(file[x]))
    BY <1>3
  <2>2. begin(file[x]) \in {"turn", "guide", "execute", "changed"}
    BY DEF begin
  <2> QED BY <1>3, <2>1, <2>2, TakeKeepsInv, FeedbackAssumption DEF Elements
<1> QED BY <1>1, <1>2, <1>3 DEF TakeJob

(* A thread works on its element in memory.                                *)
LEMMA WorksKeepsInv ==
  ASSUME Inv, NEW w \in Threads, NEW v, NEW then \in {"idle", "refresh", "execute", "apply"},
         works(w, v, "changed", then), writer[w].pc \in {"turn", "guide", "execute", "apply"},
         w = Reviewer => v \in FindingThread /\ then = "refresh",
         w = Listener => v \in Item /\ then = "idle",
         w \in Fixers => v \in Session /\ then \in {"idle", "execute", "apply"},
         v.status # "absent",
         then \in {"idle", "refresh"} => ~v.processing,
         then \in {"execute", "apply"} => v.status = "fixing"
  PROVE  Inv'
<1>1. /\ file' = file /\ jobs' = jobs /\ status' = status /\ told' = told /\ heard' = heard
      /\ lost' = lost /\ refused' = refused /\ stranded' = stranded /\ unheard' = unheard
      /\ w \in Writers
  BY DEF works, history, Writers
<1>2. writerInv(w, writer[w]) /\ writer[w].about \in Elements
  BY <1>1 DEF Inv, writerInv, change
<1>3. v \in Values
  BY DEF Values, Threads
<1>4. /\ writer' \in [Writers -> Writer] /\ \A q \in Writers \ {w} : writer'[q] = writer[q]
      /\ writer'[w].pc = "changed" /\ writer'[w].about = writer[w].about /\ writer'[w].mine = v
      /\ writer'[w].then = then /\ writer'[w].base = writer[w].base
  BY <1>1, <1>3, WorksFacts DEF Pcs
<1>5. /\ w = Reviewer => writer[w].about \in Findings
      /\ w = Listener => writer[w].about \in Items
      /\ w \in Fixers => writer[w].about \in Sessions
      /\ w \notin Clients /\ (w = Reviewer \/ w = Listener \/ w \in Fixers)
  BY <1>2, FeedbackAssumption DEF writerInv, place, Threads
<1>6. writerInv(w, writer'[w])
  <2>1. place(w, writer'[w])
    BY <1>4, <1>5, FeedbackAssumption DEF place, Saving
  <2>2. change(writer'[w])
    BY <1>2, <1>4, <1>5, FeedbackAssumption DEF change, Saving
  <2>3. respect(w, writer'[w])
    BY <1>2, <1>4, <1>5 DEF writerInv, respect, Saving
  <2> QED BY <1>1, <1>2, <1>4, <2>1, <2>2, <2>3 DEF writerInv
<1>7. /\ \A d \in Elements : engaged(w, d) => engaged(w, d)'
      /\ jobs' \in [Elements -> Nat] /\ \A d \in Elements : jobs'[d] = jobs[d]
  BY <1>1, <1>4 DEF Inv, engaged, at, about
<1>8. writer'[w].pc # "refresh" /\ writer[w].pc # "refresh"
  BY <1>4
<1> QED BY <1>1, <1>4, <1>6, <1>7, <1>8, QuietStep
(* What a thread holds is of the kind it works on.                         *)
LEMMA Holds ==
  ASSUME Inv, NEW w \in Threads, writer[w].pc # "idle"
  PROVE  /\ w = Reviewer => writer[w].mine \in FindingThread
         /\ w = Listener => writer[w].mine \in Item
         /\ w \in Fixers => writer[w].mine \in Session
         /\ writer[w].mine.status # "absent"
<1>1. writerInv(w, writer[w])
  BY DEF Inv, Writers
<1> QED BY <1>1 DEF writerInv, place, change

(* Whatever the model answers to a comment, the processing ends.           *)
LEMMA FeedbackJobKeepsInv ==
  ASSUME Inv, _process_feedback_job
  PROVE  Inv'
<1> DEFINE v == settled(writer[Reviewer].mine)
<1>1. Reviewer \in Threads /\ writer[Reviewer].pc = "turn"
  BY DEF Threads, _process_feedback_job, at
<1>2. v \in FindingThread /\ v.processing = FALSE
  BY <1>1, Holds, Settled
<1>3. PICK u \in FindingThread : works(Reviewer, u, "changed", "refresh") /\ u.processing = FALSE
  <2>1. CASE works(Reviewer, v, "changed", "refresh")
    BY <1>2, <2>1
  <2>2. CASE works(Reviewer, [v EXCEPT !.status = "open"], "changed", "refresh")
    <3>1. [v EXCEPT !.status = "open"] \in FindingThread /\ [v EXCEPT !.status = "open"].processing = FALSE
      BY <1>2 DEF FindingThread
    <3> QED BY <2>2, <3>1
  <2>3. CASE works(Reviewer, [v EXCEPT !.status = "resolved"], "changed", "refresh")
    <3>1. [v EXCEPT !.status = "resolved"] \in FindingThread /\ [v EXCEPT !.status = "resolved"].processing = FALSE
      BY <1>2 DEF FindingThread
    <3> QED BY <2>3, <3>1
  <2>4. ASSUME NEW minor \in BOOLEAN,
               works(Reviewer, [v EXCEPT !.status = "open", !.minor = minor], "changed", "refresh")
        PROVE  \E u \in FindingThread : works(Reviewer, u, "changed", "refresh") /\ u.processing = FALSE
    <3> DEFINE u == [v EXCEPT !.status = "open", !.minor = minor]
    <3>1. u \in FindingThread /\ u.processing = FALSE
      BY <1>2 DEF FindingThread
    <3> QED BY <2>4, <3>1
  <2> HIDE DEF v
  <2> QED BY <2>1, <2>2, <2>3, <2>4 DEF _process_feedback_job, v
<1>4. Reviewer # Listener /\ Reviewer \notin Fixers /\ u.status # "absent"
  BY FeedbackAssumption DEF FindingThread
<1> QED BY <1>1, <1>3, <1>4, WorksKeepsInv

(* Whatever the model answers to a missed issue, the processing ends.      *)
LEMMA GeneralFeedbackJobKeepsInv ==
  ASSUME Inv, _process_general_feedback_job
  PROVE  Inv'
<1> DEFINE v == settled(writer[Listener].mine)
<1>1. Listener \in Threads /\ writer[Listener].pc = "turn"
  BY DEF Threads, _process_general_feedback_job, at
<1>2. v \in Item /\ v.processing = FALSE
  BY <1>1, Holds, Settled
<1>3. PICK verdict \in {"confirmed", "refused"} :
        works(Listener, [v EXCEPT !.status = verdict], "changed", "idle")
  BY DEF _process_general_feedback_job
<1> DEFINE u == [v EXCEPT !.status = verdict]
<1>4. u \in Item /\ u.status # "absent" /\ ~u.processing
  BY <1>2 DEF Item
<1>5. Reviewer # Listener /\ Listener \notin Fixers
  BY FeedbackAssumption
<1>6. works(Listener, u, "changed", "idle")
  BY <1>3
<1> HIDE DEF u
<1> QED BY <1>1, <1>4, <1>5, <1>6, WorksKeepsInv

(* A fix thread ends its processing at some stage, or goes on with it.     *)
LEMMA StageKeepsInv ==
  ASSUME Inv, NEW x \in Fixers, writer[x].pc \in {"guide", "execute", "apply"},
         NEW v \in Session, v.status # "absent",
         NEW then \in {"idle", "execute", "apply"}, works(x, v, "changed", then),
         then = "idle" => ~v.processing, then # "idle" => v.status = "fixing"
  PROVE  Inv'
<1>1. x \in Threads /\ x # Reviewer /\ x # Listener
  BY FeedbackAssumption DEF Threads
<1> QED BY <1>1, WorksKeepsInv

(* A failed session is processed no longer.                                *)
LEMMA FailsKeepsInv ==
  ASSUME Inv, NEW x \in Fixers, writer[x].pc \in {"guide", "execute", "apply"}, fails(x)
  PROVE  Inv'
<1> DEFINE v == [settled(writer[x].mine) EXCEPT !.status = "failed"]
<1>1. settled(writer[x].mine) \in Session /\ settled(writer[x].mine).processing = FALSE
  BY Holds, Settled DEF Threads
<1>2. v \in Session /\ v.status # "absent" /\ ~v.processing
  BY <1>1 DEF Session, Stages
<1>3. works(x, v, "changed", "idle")
  BY DEF fails
<1> HIDE DEF v
<1> QED BY <1>2, <1>3, StageKeepsInv

(* The conversation ends the processing or leads to the fix.               *)
LEMMA FixJobKeepsInv ==
  ASSUME Inv, NEW x \in Fixers, _process_fix_job(x)
  PROVE  Inv'
<1> DEFINE v == writer[x].mine
<1>1. writer[x].pc = "guide" /\ v \in Session /\ v.status # "absent"
  BY Holds DEF _process_fix_job, at, Threads
<1>2. CASE fails(x)
  BY <1>1, <1>2, FailsKeepsInv
<1>3. CASE works(x, [v EXCEPT !.status = "fixing"], "changed", "execute")
  <2> DEFINE u == [v EXCEPT !.status = "fixing"]
  <2>1. u \in Session /\ u.status = "fixing"
    BY <1>1 DEF Session, Stages
  <2>2. works(x, u, "changed", "execute")
    BY <1>3
  <2> HIDE DEF u
  <2> QED BY <1>1, <2>1, <2>2, StageKeepsInv
<1>4. CASE works(x, settled(v), "changed", "idle")
  <2>1. settled(v) \in Session /\ settled(v).processing = FALSE /\ settled(v).status # "absent"
    BY <1>1, Settled
  <2> QED BY <1>1, <1>4, <2>1, StageKeepsInv
<1> QED BY <1>2, <1>3, <1>4 DEF _process_fix_job

(* The round that begins is counted in what is saved before it.            *)
LEMMA ExecuteKeepsInv ==
  ASSUME Inv, NEW x \in Fixers, _execute_fix_session(x)
  PROVE  Inv'
<1> DEFINE v == [writer[x].mine EXCEPT !.processing = TRUE, !.status = "fixing",
                                       !.round = next_round(@)]
           u == [settled(v) EXCEPT !.status = "failed"]
<1>1. writer[x].pc = "execute" /\ writer[x].mine \in Session
  BY Holds DEF _execute_fix_session, at, Threads
<1>2. v \in Session /\ v.status = "fixing"
  <2>1. next_round(writer[x].mine.round) \in Nat
    BY <1>1 DEF next_round, Session
  <2> DEFINE n == next_round(writer[x].mine.round)
             counted == [writer[x].mine EXCEPT !.round = n]
  <2>2. counted \in Session
    BY <1>1, <2>1 DEF Session
  <2>3. v = [counted EXCEPT !.processing = TRUE, !.status = "fixing"]
    BY <1>1 DEF Session
  <2> HIDE DEF counted, v
  <2> QED BY <2>2, <2>3 DEF Session, Stages
<1>3. fails(x) \/ works(x, v, "changed", "apply") \/ works(x, u, "changed", "idle")
  BY DEF _execute_fix_session
<1> HIDE DEF v
<1>4. u \in Session /\ u.status # "absent" /\ ~u.processing
  <2>1. settled(v) \in Session /\ settled(v).processing = FALSE
    BY <1>2, Settled
  <2> QED BY <2>1 DEF Session, Stages
<1> HIDE DEF u
<1> QED BY <1>1, <1>2, <1>3, <1>4, FailsKeepsInv, StageKeepsInv

(* A round of the fix ends the processing or another one follows.          *)
LEMMA FixRoundKeepsInv ==
  ASSUME Inv, NEW x \in Fixers, FixRound(x)
  PROVE  Inv'
<1> DEFINE v == settled(writer[x].mine)
           u == [v EXCEPT !.status = "awaiting_user_confirmation"]
<1>1. writer[x].pc = "apply" /\ v \in Session /\ v.processing = FALSE
  BY Holds, Settled DEF FixRound, at, Threads
<1>2. CASE fails(x)
  BY <1>1, <1>2, FailsKeepsInv
<1>3. CASE works(x, u, "changed", "idle")
  <2>1. u \in Session /\ u.status # "absent" /\ ~u.processing
    BY <1>1 DEF Session, Stages
  <2> HIDE DEF u
  <2> QED BY <1>1, <1>3, <2>1, StageKeepsInv
<1>4. CASE /\ writer' = [writer EXCEPT ![x].tries = @ + 1]
           /\ UNCHANGED <<file, jobs, status, told, heard, requests, crashes, history>>
  <2>1. /\ file' = file /\ jobs' = jobs /\ status' = status /\ told' = told /\ heard' = heard
        /\ lost' = lost /\ refused' = refused /\ stranded' = stranded /\ unheard' = unheard
        /\ x \in Writers /\ x \in Threads
    BY <1>4 DEF history, Writers, Threads
  <2>2. writer \in [Writers -> Writer] /\ writerInv(x, writer[x])
    BY <2>1 DEF Inv
  <2>3. writer[x].tries + 1 \in Nat /\ writer' = [writer EXCEPT ![x].tries = writer[x].tries + 1]
    BY <1>4, <2>1, <2>2 DEF Writer
  <2>4. /\ writer' \in [Writers -> Writer] /\ \A q \in Writers \ {x} : writer'[q] = writer[q]
        /\ writer'[x].pc = "apply" /\ writer'[x].about = writer[x].about
        /\ writer'[x].mine = writer[x].mine /\ writer'[x].then = writer[x].then
        /\ writer'[x].base = writer[x].base
    <3> DEFINE n == writer[x].tries + 1
    <3>1. n \in Nat /\ writer' = [writer EXCEPT ![x].tries = n]
      BY <2>3
    <3> HIDE DEF n
    <3> QED BY <1>1, <2>1, <2>2, <3>1 DEF Writer
  <2>5. writerInv(x, writer'[x])
    <3>1. place(x, writer'[x]) /\ change(writer'[x]) /\ respect(x, writer'[x])
      BY <1>1, <2>2, <2>4 DEF writerInv, place, change, respect
    <3> QED BY <2>1, <2>2, <2>4, <3>1 DEF writerInv
  <2>6. /\ \A d \in Elements : engaged(x, d) => engaged(x, d)'
        /\ jobs' \in [Elements -> Nat] /\ \A d \in Elements : jobs'[d] = jobs[d]
    BY <1>1, <2>1, <2>4 DEF Inv, engaged, at, about
  <2> QED BY <1>1, <2>1, <2>4, <2>5, <2>6, QuietStep
<1> QED BY <1>2, <1>3, <1>4 DEF FixRound

-----------------------------------------------------------------------------
(* The record, and restarts.                                               *)

(* The record follows the file, and CI hears of a pass unless it cannot.   *)
LEMMA RefreshKeepsInv ==
  ASSUME Inv, _refresh_record_after_feedback
  PROVE  Inv'
<1>1. /\ writer[Reviewer].pc = "refresh" /\ writer' = [writer EXCEPT ![Reviewer] = Idle]
      /\ file' = file /\ jobs' = jobs
      /\ lost' = lost /\ refused' = refused /\ stranded' = stranded
      /\ Reviewer \in Writers /\ status' = effective(file)
  BY DEF _refresh_record_after_feedback, refreshed, at, becomes, Writers, Threads
<1>2. writer \in [Writers -> Writer]
  BY DEF Inv
<1>3. /\ writer' \in [Writers -> Writer] /\ writer'[Reviewer] = Idle
      /\ \A q \in Writers \ {Reviewer} : writer'[q] = writer[q]
  BY <1>1, <1>2, IdleWriter
<1>4. \A q \in Writers : writerInv(q, writer[q])'
  <2>1. \A q \in Writers : writerInv(q, writer'[q])
    BY <1>3, IdleWriter DEF Inv
  <2> QED BY <2>1 DEF writerInv, Writer, Values, File, Sound, place, change, respect
<1>5. ASSUME NEW d \in Elements PROVE served(d)'
  <2>1. served(d)
    BY DEF Inv
  <2>2. \A q \in Threads : engaged(q, d)' <=> engaged(q, d)
    BY <1>1, <1>3 DEF engaged, at, about, Writers, Idle
  <2> QED BY <1>1, <2>1, <2>2 DEF served
<1>6. RecordFollowsFile'
  BY <1>1 DEF RecordFollowsFile, effective, blocking
<1>7. status \in {"success", "failed"} /\ heard \in {"passed", "rejected"} /\ PassIsHeard
      /\ (told => heard = "passed")
  BY DEF Inv
<1>8. /\ PassIsHeard' /\ (told' => heard' = "passed") /\ heard' \in {"passed", "rejected"}
      /\ status' \in {"success", "failed"}
  <2>1. CASE status = "failed" /\ effective(file) = "success"
    <3>1. _send_callback_if_needed
      BY <2>1 DEF _refresh_record_after_feedback, refreshed
    <3>2. CASE told /\ UNCHANGED <<told, heard, unheard>>
      BY <1>1, <1>7, <2>1, <3>2 DEF PassIsHeard
    <3>3. CASE told' = TRUE /\ heard' = "passed" /\ UNCHANGED unheard
      BY <1>1, <2>1, <3>3 DEF PassIsHeard
    <3>4. CASE unheard' = TRUE /\ heard' \in {heard, "passed"} /\ UNCHANGED told
      BY <1>1, <1>7, <2>1, <3>4 DEF PassIsHeard
    <3> QED BY <3>1, <3>2, <3>3, <3>4 DEF _send_callback_if_needed
  <2>2. CASE ~(status = "failed" /\ effective(file) = "success")
    <3>1. told' = told /\ heard' = heard /\ unheard' = unheard
      BY <2>2 DEF _refresh_record_after_feedback, refreshed
    <3> QED BY <1>1, <1>7, <2>2, <3>1 DEF PassIsHeard, effective
  <2> QED BY <2>1, <2>2
<1>9. Sound(file)' /\ jobs' \in [Elements -> Nat]
  BY <1>1 DEF Inv, Sound
<1> QED BY <1>1, <1>3, <1>4, <1>5, <1>6, <1>8, <1>9 DEF Inv

(* A restart empties the queues; what waited there waits for good.         *)
LEMMA CrashKeepsInv ==
  ASSUME Inv, Crash
  PROVE  Inv'
<1>1. /\ writer' = [w \in Writers |-> Idle] /\ jobs' = [e \in Elements |-> 0]
      /\ file' = file /\ status' = status /\ told' = told /\ heard' = heard
      /\ lost' = lost /\ refused' = refused /\ unheard' = unheard
  BY DEF Crash
<1>2. /\ \A e \in Elements : file[e].processing => e \in stranded'
      /\ stranded \subseteq stranded'
      /\ writer[Reviewer].pc # "idle" => writer[Reviewer].about \in stranded'
  BY DEF Crash, at, about, Threads
<1>3. ASSUME NEW w \in Threads, writer[w].pc # "idle"
      PROVE  writer[w].about \in Elements
  BY <1>3 DEF Inv, Writers, writerInv, change
<1>4. stranded' \subseteq Elements
  BY <1>3 DEF Crash, at, about, Inv
<1>5. /\ writer' \in [Writers -> Writer]
      /\ \A q \in Writers : writerInv(q, writer[q])'
  <2>1. \A q \in Writers : writer'[q] = Idle /\ writerInv(q, writer'[q])
    BY <1>1, IdleWriter
  <2>2. writer' \in [Writers -> Writer]
    BY <1>1, IdleWriter
  <2> QED BY <2>1, <2>2 DEF writerInv, Writer, Values, File, Sound, place, change, respect
<1>6. \A e \in Elements : served(e)'
  BY <1>1, <1>2 DEF served
<1>7. RecordFollowsFile'
  <2> SUFFICES ASSUME lost' \cap Findings = {}, stranded' \cap Findings = {}
               PROVE  status' = effective(file')
    BY DEF RecordFollowsFile, effective, blocking
  <2>1. writer[Reviewer].pc # "idle" => writer[Reviewer].about \in Findings
    BY DEF Inv, Writers, Threads, writerInv, place
  <2>2. writer[Reviewer].pc = "idle" /\ stranded \cap Findings = {}
    BY <1>2, <2>1
  <2> QED BY <1>1, <2>2 DEF Inv, RecordFollowsFile, at
<1>8. PassIsHeard' /\ (told' => heard' = "passed")
  BY <1>1 DEF Inv, PassIsHeard
<1>9. /\ Sound(file)' /\ jobs' \in [Elements -> Nat] /\ lost' \subseteq Elements /\ refused' \subseteq Elements
      /\ status' \in {"success", "failed"} /\ heard' \in {"passed", "rejected"}
  BY <1>1 DEF Inv, Sound
<1> QED BY <1>4, <1>5, <1>6, <1>7, <1>8, <1>9 DEF Inv

-----------------------------------------------------------------------------
(* The theorems.                                                           *)

(* The initial state satisfies the inductive invariant.                    *)
LEMMA InitInv == Init => Inv
<1> SUFFICES ASSUME Init PROVE Inv
  OBVIOUS
<1>1. Sound(file) /\ file = NewFile
  BY NewFileSound DEF Init
<1>2. writer \in [Writers -> Writer] /\ \A w \in Writers : writerInv(w, writer[w])
  BY IdleWriter DEF Init
<1>3. ASSUME NEW e \in Elements PROVE served(e)
  <2>1. NewFile[e].processing = FALSE
    BY FeedbackAssumption DEF NewFile, Elements
  <2> QED BY <1>1, <2>1 DEF served
<1>4. status = effective(file)
  <2>1. PICK f \in Findings : TRUE
    BY FeedbackAssumption
  <2>2. f \in Elements /\ f \notin Items /\ f \notin Sessions
    BY FeedbackAssumption DEF Elements
  <2>3. NewFile[f] = [status |-> "open", minor |-> FALSE, processing |-> FALSE, said |-> 0]
    BY <2>2 DEF NewFile
  <2>4. file[f].status = "open" /\ file[f].minor = FALSE
    BY <1>1, <2>3
  <2>5. effective(file) = "failed"
    BY <2>4 DEF effective, blocking
  <2> QED BY <2>5 DEF Init
<1> QED BY <1>1, <1>2, <1>3, <1>4 DEF Init, Inv, RecordFollowsFile, PassIsHeard

(* A step that changes nothing keeps the invariant.                        *)
LEMMA StutterKeepsInv ==
  ASSUME Inv, UNCHANGED vars
  PROVE  Inv'
<1>1. /\ file' = file /\ jobs' = jobs /\ writer' = writer /\ status' = status
      /\ told' = told /\ heard' = heard
      /\ lost' = lost /\ refused' = refused /\ stranded' = stranded /\ unheard' = unheard
  BY DEF vars, history
<1>2. \A q \in Writers : writerInv(q, writer[q])'
  BY <1>1, Zenon DEF Inv
<1>3. \A e \in Elements : served(e)'
  BY <1>1 DEF Inv, served, engaged, at, about
<1>4. RecordFollowsFile' /\ PassIsHeard' /\ Sound(file)' /\ writer' \in [Writers -> Writer]
  BY <1>1 DEF Inv, RecordFollowsFile, PassIsHeard, effective, blocking, at, Sound
<1> QED BY <1>1, <1>2, <1>3, <1>4 DEF Inv

(* Every step keeps the invariant.                                         *)
LEMMA InvKept == Inv /\ [Next]_vars => Inv'
<1> SUFFICES ASSUME Inv, [Next]_vars PROVE Inv'
  OBVIOUS
<1>1. ASSUME NEW w \in Writers, Save(w) PROVE Inv'
  <2>1. CASE Reload(w)
    BY <2>1, ReloadKeepsInv
  <2>2. CASE ClientWrites(w)
    BY <2>2, ClientWritesKeepsInv DEF ClientWrites
  <2>3. CASE ThreadWrites(w)
    BY <2>3, ThreadWritesKeepsInv DEF ThreadWrites
  <2> QED BY <1>1, <2>1, <2>2, <2>3 DEF Save
<1>2. ASSUME NEW w \in Threads, Work(w) PROVE Inv'
  <2>1. CASE TakeJob(w)
    BY <2>1, TakeJobKeepsInv
  <2>2. CASE Save(w)
    BY <1>1, <2>2 DEF Writers
  <2>3. CASE _process_feedback_job \/ _refresh_record_after_feedback \/ _process_general_feedback_job
    BY <2>3, FeedbackJobKeepsInv, RefreshKeepsInv, GeneralFeedbackJobKeepsInv
  <2>4. CASE w \in Fixers /\ (_process_fix_job(w) \/ _execute_fix_session(w) \/ FixRound(w))
    BY <2>4, FixJobKeepsInv, ExecuteKeepsInv, FixRoundKeepsInv
  <2> QED BY <1>2, <2>1, <2>2, <2>3, <2>4 DEF Work
<1>3. CASE \E c \in Clients : NewRequest(c) \/ Save(c)
  BY <1>1, <1>3, NewRequestKeepsInv DEF Writers
<1>4. CASE Crash
  BY <1>4, CrashKeepsInv
<1>5. CASE UNCHANGED vars
  BY <1>5, StutterKeepsInv
<1> QED BY <1>2, <1>3, <1>4, <1>5 DEF Next

(* The inductive invariant holds in every reachable state.                 *)
THEOREM InvCorrect == Spec => []Inv
BY InitInv, InvKept, PTL DEF Spec

(* Every list keeps values of its own kind, however the writes of clients  *)
(* and threads overtake each other.                                        *)
THEOREM TypeCorrect == Spec => []TypeOK
<1>1. Inv => TypeOK
  <2> SUFFICES ASSUME Inv PROVE TypeOK
    OBVIOUS
  <2>1. \A w \in Writers : writer[w].pc \in Pcs /\ writer[w].base \in File
    BY DEF Inv, writerInv, Writer
  <2>2. /\ file \in File /\ jobs \in [Elements -> Nat]
        /\ status \in {"success", "failed"} /\ heard \in {"passed", "rejected"}
        /\ lost \cup refused \cup stranded \subseteq Elements
    BY DEF Inv, Sound
  <2> QED BY <2>1, <2>2 DEF TypeOK
<1> QED BY <1>1, InvCorrect, PTL

(* What is being processed is in a queue or with a thread, if no stale     *)
(* write, full queue or restart came between.                              *)
THEOREM PendingCorrect == Spec => []PendingIsServed
<1>1. Inv => PendingIsServed
  BY DEF Inv, served, engaged, working, PendingIsServed
<1> QED BY <1>1, InvCorrect, PTL

(* The record says what the file says: only the feedback thread changes    *)
(* what a finding is, and it refreshes the record before its next job.     *)
THEOREM RecordCorrect == Spec => []RecordFollowsFile
<1>1. Inv => RecordFollowsFile
  BY DEF Inv
<1> QED BY <1>1, InvCorrect, PTL

(* CI has heard of a pass whose callback did not fail.                     *)
THEOREM PassCorrect == Spec => []PassIsHeard
<1>1. Inv => PassIsHeard
  BY DEF Inv
<1> QED BY <1>1, InvCorrect, PTL

(* A closed session is opened again only by a write that undoes the close. *)
THEOREM ClosedCorrect == Spec => ClosedStaysClosed
<1> DEFINE Closed == \A s \in Sessions : file[s].status = "completed" /\ s \notin lost'
                                           => file'[s].status = "completed"
<1>1. ASSUME Inv, NEW w \in Writers, writer[w].pc = "reloaded", _save_feedback_file(w)
      PROVE  Closed
  <2> SUFFICES ASSUME NEW s \in Sessions, file[s].status = "completed", s \notin lost'
               PROVE  file'[s].status = "completed"
    OBVIOUS
  <2>1. s \in Elements
    BY DEF Elements
  <2>2. CASE s = writer[w].about
    BY <1>1, <2>1, <2>2, Written
  <2>3. CASE s # writer[w].about
    <3>1. file'[s] = file[s]
      BY <1>1, <2>1, <2>3, Written
    <3> QED BY <3>1
  <2> QED BY <2>2, <2>3
<1>2. ASSUME Inv, NEW w \in Writers, Save(w) PROVE Closed
  <2>1. CASE Reload(w)
    BY <2>1 DEF Reload
  <2>2. CASE ClientWrites(w) \/ ThreadWrites(w)
    BY <1>1, <1>2, <2>2 DEF ClientWrites, ThreadWrites, at
  <2> QED BY <1>2, <2>1, <2>2 DEF Save
<1>3. ASSUME NEW c \in Clients, NewRequest(c) PROVE file' = file
  BY <1>3 DEF NewRequest, submit_finding_feedback, submit_general_feedback, create_fix_session,
       submit_fix_session_message, Request
<1>4. ASSUME Inv, NEW w \in Threads, Work(w) PROVE Closed
  <2>1. CASE Save(w)
    BY <1>2, <1>4, <2>1 DEF Writers
  <2>2. CASE TakeJob(w)
    <3>1. file' = file
      BY <2>2 DEF TakeJob, Take
    <3> QED BY <3>1
  <2>3. CASE _refresh_record_after_feedback
    BY <2>3 DEF _refresh_record_after_feedback
  <2>4. CASE _process_feedback_job \/ _process_general_feedback_job
    <3>1. file' = file
      BY <2>4 DEF _process_feedback_job, _process_general_feedback_job, works
    <3> QED BY <3>1
  <2>5. CASE _process_fix_job(w) \/ _execute_fix_session(w) \/ FixRound(w)
    <3>1. file' = file
      BY <2>5 DEF _process_fix_job, _execute_fix_session, FixRound, fails, works
    <3> QED BY <3>1
  <2> QED BY <1>4, <2>1, <2>2, <2>3, <2>4, <2>5 DEF Work
<1>5. Inv /\ [Next]_vars => Closed
  <2> SUFFICES ASSUME Inv, [Next]_vars PROVE Closed
    OBVIOUS
  <2>1. CASE \E c \in Clients : NewRequest(c) \/ Save(c)
    <3>1. PICK c \in Clients : NewRequest(c) \/ Save(c)
      BY <2>1
    <3>2. CASE NewRequest(c)
      BY <1>3, <3>2
    <3>3. CASE Save(c)
      BY <1>2, <3>3 DEF Writers
    <3> QED BY <3>1, <3>2, <3>3
  <2>2. CASE \E w \in Threads : Work(w)
    BY <1>4, <2>2
  <2>3. CASE Crash \/ UNCHANGED vars
    <3>1. file' = file
      BY <2>3 DEF Crash, vars
    <3> QED BY <3>1
  <2> QED BY <2>1, <2>2, <2>3 DEF Next
<1>6. Closed => (\A s \in Sessions : file[s].status = "completed" /\ s \notin lost'
                                       => file'[s].status = "completed")
  OBVIOUS
<1> HIDE DEF Closed
<1> QED BY <1>5, <1>6, InvCorrect, PTL DEF Spec, ClosedStaysClosed
=============================================================================
