------------------------- MODULE Playground_proofs --------------------------
(***************************************************************************)
(* Proofs about Playground, for any number of generations, tries and tool  *)
(* rounds: the types, that no stream is left open, that a message shows    *)
(* text of its own generation only, that no message waits for nothing, and *)
(* that the interface is busy while a generation works.                    *)
(***************************************************************************)
EXTENDS Playground, TLAPS

(* A try of the current generation that is not over: something will come back for it, or its stream has   *)
(* closed and nobody was told.                                                                          *)
Live(n) == act[n].gen = gen /\ act[n].at \in InFlight \union {"closed"}

Busy == \E n \in Tries : Live(n)

(* The states of a try whose source is the controller's. *)
Streams == {"open", "closed"}

(* No try is ahead of the generation; tries are used in order. *)
Numbered ==
    /\ mounted => gen <= MaxGen
    /\ \A n \in Tries : act[n].gen <= gen /\ (tries < n => act[n].at = "none")

(* One try of a generation is live at a time, and the stream controller or abortControllerRef is its. *)
LiveOK(n) ==
    /\ mounted
    /\ \A m \in Tries : Live(m) => m = n
    /\ act[n].at \in {"headers"} \union Streams => owner = n
    /\ act[n].at \in {"fetch", "tools"} => controller = n
    /\ ~forced => act[n].round <= MaxToolRounds
    /\ act[n].at = "tools" => ~forced /\ act[n].round < MaxToolRounds

OneLive == \A n \in Tries : Live(n) => LiveOK(n)

(* The controller's source is the one stream, open or closed, and is of the current generation; isStreaming *)
(* says so.                                                                                               *)
OneStream ==
    /\ source # None => owner = source /\ act[source].at \in Streams /\ streaming
    /\ \A n \in Tries : act[n].at \in Streams => source = n
    /\ owner # None => act[owner].gen = gen /\ owner <= tries

(* Text waits for the flush of the controller's source only, and every text is of a try that was made. *)
Waiting ==
    /\ mounted => \A n \in pending : n = source
    /\ ~mounted => ~timer
    /\ \A n \in msg.text : n <= tries

(* The message is of the generation that is not over, and waits for it. *)
Shown ==
    /\ Busy => msg.gen = gen
    /\ mounted /\ msg.status \in Pending => Busy
    /\ Busy /\ ~quiet => requesting

IInv == TypeOK /\ Numbered /\ OneLive /\ OneStream /\ Waiting /\ OwnText /\ Shown

Core == Numbered /\ OneLive /\ OneStream

Acts == [at : InFlight \union {"none", "closed"}, gen : 0..MaxGen + 1, round : 0..MaxToolRounds + 1]

Messages == [status : Pending \union {"none", "complete", "error"}, text : SUBSET Tries, gen : 0..MaxGen]

(* The types of what a round changes, and of the rest. *)
RoundTypes ==
    /\ tries \in 0..MaxTries /\ act \in [Tries -> Acts]
    /\ owner \in Tries \union {None} /\ source \in Tries \union {None} /\ controller \in Tries \union {None}
    /\ streaming \in BOOLEAN

RefTypes ==
    /\ requesting \in BOOLEAN /\ transcript \in BOOLEAN /\ roundTools \in BOOLEAN
    /\ produced \in BOOLEAN /\ forced \in BOOLEAN /\ retried \in BOOLEAN /\ roundText \subseteq Tries

ShownTypes ==
    /\ timer \in BOOLEAN /\ quiet \in BOOLEAN /\ pending \subseteq Tries
    /\ msg \in [status : Pending \union {"none", "complete", "error"}, text : SUBSET Tries, gen : 0..MaxGen]

-----------------------------------------------------------------------------
(* The type invariant in its parts. *)
LEMMA TypeParts ==
    TypeOK <=> /\ RoundTypes /\ RefTypes /\ ShownTypes
               /\ gen \in 0..MaxGen + 1 /\ mounted \in BOOLEAN
BY DEF TypeOK, RoundTypes, RefTypes, ShownTypes, Acts

(* What a live try may rely on. *)
LEMMA LiveFacts ==
    ASSUME IInv, NEW n \in Tries, Live(n)
    PROVE  /\ mounted /\ n <= tries /\ n \in 1..MaxTries /\ tries \in Nat /\ Busy
           /\ \A m \in Tries : Live(m) => m = n
           /\ source \in {None, n}
           /\ act[n].at \notin Streams => source = None /\ pending = {}
           /\ act[n].at \in Streams => source = n /\ owner = n
           /\ gen \in 0..MaxGen /\ act[n].gen = gen /\ act[n].round \in 0..MaxToolRounds + 1
           /\ msg.gen = gen
<1>1. /\ tries \in Nat /\ n \in 1..MaxTries /\ gen \in Nat /\ source \in Tries \union {None}
      /\ act[n] \in Acts /\ act[n].at # "none"
  BY PlaygroundAssumption DEF IInv, TypeOK, Live, InFlight, Tries, Acts
<1>2. mounted /\ (\A m \in Tries : Live(m) => m = n) /\ LiveOK(n) /\ Busy
  BY DEF IInv, OneLive, LiveOK, Busy, Live
<1>3. n <= tries
  BY <1>1 DEF IInv, Numbered, Tries
<1>4. source # None => Live(source) /\ act[source].at \in Streams /\ owner = source
  BY <1>1 DEF IInv, OneStream, Live, InFlight, Streams
<1>5. source \in {None, n}
  BY <1>1, <1>2, <1>4
<1>6. act[n].at \notin Streams => source = None
  BY <1>4, <1>5
<1>7. source = None => pending = {}
  <2>1. \A m \in pending : m = source /\ m \in Tries
    BY <1>2 DEF IInv, Waiting, TypeOK
  <2> QED  BY <2>1 DEF None, Tries
<1>8. act[n].at \in Streams => source = n /\ owner = n
  BY <1>2 DEF IInv, OneStream, LiveOK
<1>9. gen \in 0..MaxGen /\ msg.gen = gen
  BY <1>1, <1>2, PlaygroundAssumption DEF IInv, Numbered, Shown
<1> QED  BY <1>1, <1>2, <1>3, <1>5, <1>6, <1>7, <1>8, <1>9 DEF Live, Acts

(* A round follows the live try n. *)
LEMMA StartFacts ==
    ASSUME IInv, NEW n \in Tries, Live(n), NEW r \in 0..MaxToolRounds + 1, StartRound(n, act[n].gen, r),
           gen' = gen, mounted' = mounted, ~forced' => r <= MaxToolRounds
    PROVE  /\ RoundTypes' /\ Core' /\ Busy' /\ source' = None
           /\ tries' = tries + 1 /\ \A m \in Tries : m <= tries => act'[m].gen = act[m].gen
<1>0. PICK new : new = tries + 1
  OBVIOUS
<1>1. PICK mode \in Modes :
        /\ new \in Tries /\ tries' = new
        /\ IF mode = "stream"
           THEN /\ act' = [Ended(n) EXCEPT ![new] = [at |-> "headers", gen |-> act[n].gen, round |-> r]]
                /\ owner' = new /\ source' = None /\ streaming' = FALSE
                /\ controller' = IF controller = n THEN None ELSE controller
           ELSE /\ act' = [act EXCEPT ![n].at = "none", ![new] = [at |-> "fetch", gen |-> act[n].gen, round |-> r]]
                /\ StreamOver(n) /\ UNCHANGED owner
                /\ controller' = new
  BY <1>0 DEF StartRound
<1>2. /\ mounted /\ n <= tries /\ n \in 1..MaxTries /\ tries \in Nat
      /\ \A m \in Tries : Live(m) => m = n
      /\ source \in {None, n} /\ gen \in 0..MaxGen /\ act[n].gen = gen
  BY LiveFacts
<1>3. /\ act \in [Tries -> Acts] /\ owner \in Tries \union {None} /\ controller \in Tries \union {None}
      /\ tries \in 0..MaxTries /\ streaming \in BOOLEAN
  BY TypeParts DEF IInv, RoundTypes
<1>4. n # new /\ new \in Tries /\ new # None /\ n # None /\ new \in Nat
  BY <1>0, <1>1, <1>2 DEF Tries, None
<1> DEFINE a == IF mode = "stream" THEN "headers" ELSE "fetch"
<1>5. /\ \A m \in Tries : m # new /\ m # n => act'[m] = act[m]
      /\ act'[n] = [act[n] EXCEPT !.at = "none"]
      /\ act'[new] = [at |-> a, gen |-> gen, round |-> r]
      /\ act' \in [Tries -> Acts]
  <2>1. [act[n] EXCEPT !.at = "none"] \in Acts /\ [at |-> a, gen |-> gen, round |-> r] \in Acts
    BY <1>2, <1>3, PlaygroundAssumption DEF Acts, InFlight
  <2>2. CASE mode = "stream"
    <3>1. \A m \in Tries : Ended(n)[m] = IF m = n THEN [act[m] EXCEPT !.at = "none"] ELSE act[m]
      BY <1>2, <1>4 DEF Ended, None, Tries
    <3>2. Ended(n) \in [Tries -> Acts]
      <4>1. \A m \in Tries : Ended(n)[m] \in Acts
        BY <1>3, <2>1, <3>1
      <4> QED  BY <4>1 DEF Ended
    <3>3. act' = [Ended(n) EXCEPT ![new] = [at |-> a, gen |-> gen, round |-> r]]
      BY <1>1, <1>2, <2>2
    <3> HIDE DEF a
    <3> QED  BY <1>4, <2>1, <3>1, <3>2, <3>3
  <2>3. CASE mode # "stream"
    BY <1>1, <1>2, <1>3, <1>4, <2>1, <2>3
  <2> QED  BY <2>2, <2>3
<1>6. /\ act'[n].at = "none" /\ act'[n].gen = gen
      /\ act'[new].at = a /\ act'[new].gen = gen /\ act'[new].round = r /\ a \in {"headers", "fetch"}
  BY <1>2, <1>3, <1>5 DEF Acts
<1>7. source' = None /\ (a = "headers" => owner' = new) /\ (a = "fetch" => controller' = new /\ owner' = owner)
  BY <1>1, <1>2 DEF StreamOver
<1>8. owner' \in {new, owner} /\ controller' \in {new, controller, None} /\ streaming' \in BOOLEAN
  BY <1>1, <1>3 DEF StreamOver
<1>9. tries' = new /\ new \in Tries
  BY <1>1
<1> HIDE DEF a
<1>10. RoundTypes'
  BY <1>3, <1>5, <1>7, <1>8, <1>9 DEF RoundTypes, Tries
<1>11. \A m \in Tries : Live(m)' <=> m = new
  BY <1>2, <1>4, <1>5, <1>6 DEF Live, InFlight
<1>12. Numbered'
  <2>1. ASSUME NEW m \in Tries PROVE act'[m].gen <= gen' /\ (tries' < m => act'[m].at = "none")
    <3>1. act[m].gen <= gen /\ (tries < m => act[m].at = "none") /\ m \in Nat
      BY DEF IInv, Numbered, Tries
    <3>2. CASE m = new
      BY <1>0, <1>2, <1>4, <1>6, <1>9, <3>2
    <3>3. CASE m = n
      BY <1>0, <1>2, <1>4, <1>6, <3>3
    <3>4. CASE m # new /\ m # n
      BY <1>0, <1>2, <1>5, <1>9, <3>1, <3>4
    <3> QED  BY <3>2, <3>3, <3>4
  <2> QED  BY <1>2, <2>1 DEF Numbered
<1>13. OneLive'
  <2>1. LiveOK(new)'
    <3>1. mounted' /\ \A m \in Tries : Live(m)' => m = new
      BY <1>2, <1>11
    <3>2. /\ act'[new].at \in {"headers"} \union Streams => owner' = new
          /\ act'[new].at \in {"fetch", "tools"} => controller' = new
          /\ ~forced' => act'[new].round <= MaxToolRounds
          /\ act'[new].at # "tools"
      BY <1>6, <1>7 DEF Streams
    <3> QED  BY <3>1, <3>2 DEF LiveOK
  <2> QED  BY <1>4, <1>11, <2>1 DEF OneLive
<1>14. OneStream'
  <2>1. \A m \in Tries : act'[m].at \notin Streams
    <3>1. \A m \in Tries : act[m].at \in Streams => m = n
      BY <1>2, <1>4 DEF IInv, OneStream, None, Tries
    <3> QED  BY <1>5, <1>6, <3>1 DEF Streams
  <2>2. owner' # None => act'[owner'].gen = gen' /\ owner' <= tries'
    <3>1. CASE owner' = new
      BY <1>2, <1>4, <1>6, <1>9, <3>1
    <3>2. CASE owner' # new /\ owner # None
      <4>1. owner' = owner /\ owner \in Tries /\ act[owner].gen = gen /\ owner <= tries
        BY <1>3, <1>8, <3>2 DEF IInv, OneStream
      <4>2. act'[owner].gen = gen
        BY <1>5, <1>6, <3>2, <4>1
      <4> QED  BY <1>0, <1>2, <1>9, <4>1, <4>2 DEF Tries
    <3>3. CASE owner' # new /\ owner = None
      BY <1>8, <3>3
    <3> QED  BY <3>1, <3>2, <3>3
  <2> QED  BY <1>7, <2>1, <2>2 DEF OneStream
<1>15. Busy'
  BY <1>4, <1>11 DEF Busy, Live
<1>16. \A m \in Tries : m <= tries => act'[m].gen = act[m].gen
  <2> SUFFICES ASSUME NEW m \in Tries, m <= tries PROVE act'[m].gen = act[m].gen
    OBVIOUS
  <2>1. m # new
    BY <1>0, <1>2 DEF Tries
  <2> QED  BY <1>2, <1>5, <1>6, <2>1
<1> QED  BY <1>7, <1>9, <1>10, <1>12, <1>13, <1>14, <1>15, <1>16, <1>0 DEF Core

(* The live try n waits for something else. *)
LEMMA MoveFacts ==
    ASSUME IInv, NEW n \in Tries, Live(n), NEW a \in Streams \union {"tools"}, act' = [act EXCEPT ![n].at = a],
           gen' = gen, mounted' = mounted, tries' = tries, owner' = owner, forced' = forced, streaming' \in BOOLEAN,
           a \in Streams => owner = n /\ source' = n /\ streaming' /\ controller' = controller,
           a = "tools" => source' = None /\ controller' = n /\ ~forced /\ act[n].round < MaxToolRounds
    PROVE  /\ RoundTypes' /\ Core' /\ Busy'
           /\ \A m \in Tries : act'[m].gen = act[m].gen
<1>1. /\ mounted /\ n <= tries /\ n \in 1..MaxTries /\ tries \in Nat
      /\ \A m \in Tries : Live(m) => m = n
      /\ source \in {None, n} /\ act[n].gen = gen /\ act[n].round \in Nat
  BY LiveFacts, PlaygroundAssumption
<1>2. /\ act \in [Tries -> Acts] /\ owner \in Tries \union {None} /\ controller \in Tries \union {None}
      /\ tries \in 0..MaxTries
  BY TypeParts DEF IInv, RoundTypes
<1>3. n # None
  BY <1>1 DEF None
<1>4. /\ \A m \in Tries : m # n => act'[m] = act[m]
      /\ act'[n] = [act[n] EXCEPT !.at = a]
      /\ act' \in [Tries -> Acts]
  <2>1. [act[n] EXCEPT !.at = a] \in Acts
    BY <1>2 DEF Acts, InFlight, Streams
  <2> QED  BY <1>2, <2>1
<1>5. act'[n].at = a /\ act'[n].gen = act[n].gen /\ act'[n].round = act[n].round
  BY <1>2, <1>4 DEF Acts
<1>6. RoundTypes'
  BY <1>2, <1>4, <1>3 DEF RoundTypes, Streams
<1>7. \A m \in Tries : Live(m)' <=> m = n
  BY <1>1, <1>4, <1>5 DEF Live, InFlight, Streams
<1>8. \A m \in Tries : act'[m].gen = act[m].gen
  BY <1>4, <1>5
<1>9. Numbered'
  <2>1. ASSUME NEW m \in Tries PROVE act'[m].gen <= gen' /\ (tries' < m => act'[m].at = "none")
    <3>1. act[m].gen <= gen /\ (tries < m => act[m].at = "none")
      BY DEF IInv, Numbered
    <3>2. CASE m = n
      BY <1>1, <1>5, <3>1, <3>2
    <3>3. CASE m # n
      BY <1>4, <3>1, <3>3
    <3> QED  BY <3>2, <3>3
  <2> QED  BY <2>1 DEF Numbered, IInv
<1>10. OneLive'
  <2>1. LiveOK(n)'
    <3>1. ~forced => act[n].round <= MaxToolRounds
      BY DEF IInv, OneLive, LiveOK
    <3> QED  BY <1>1, <1>5, <1>7, <3>1 DEF LiveOK, Streams
  <2> QED  BY <1>7, <2>1 DEF OneLive
<1>11. OneStream'
  <2>1. \A m \in Tries : act[m].at \in Streams => m = n
    BY <1>1, <1>3 DEF IInv, OneStream, None, Tries
  <2>2. \A m \in Tries : act'[m].at \in Streams => source' = m
    BY <1>4, <1>5, <2>1 DEF Streams
  <2>3. source' # None => owner' = source' /\ act'[source'].at \in Streams /\ streaming'
    BY <1>5 DEF Streams
  <2>4. owner' # None => act'[owner'].gen = gen' /\ owner' <= tries'
    BY <1>2, <1>8 DEF IInv, OneStream
  <2> QED  BY <2>2, <2>3, <2>4 DEF OneStream
<1>12. Busy'
  BY <1>7 DEF Busy, Live
<1> QED  BY <1>6, <1>8, <1>9, <1>10, <1>11, <1>12 DEF Core

(* The live try n ends, and none follows. *)
LEMMA NoRoundFacts ==
    ASSUME IInv, NEW n \in Tries, Live(n), NoRound(n), gen' = gen, mounted' = mounted
    PROVE  /\ RoundTypes' /\ Core' /\ ~Busy' /\ source' = None /\ tries' = tries
           /\ \A m \in Tries : act'[m].gen = act[m].gen
<1>1. /\ mounted /\ n <= tries /\ n \in 1..MaxTries /\ tries \in Nat
      /\ \A m \in Tries : Live(m) => m = n
      /\ source \in {None, n} /\ act[n].gen = gen
  BY LiveFacts
<1>2. /\ act \in [Tries -> Acts] /\ owner \in Tries \union {None} /\ controller \in Tries \union {None}
      /\ tries \in 0..MaxTries /\ streaming \in BOOLEAN
  BY TypeParts DEF IInv, RoundTypes
<1>3. /\ act' = [act EXCEPT ![n].at = "none"] /\ source' = None /\ streaming' \in BOOLEAN
      /\ controller' \in {None, controller} /\ tries' = tries /\ owner' = owner
  BY <1>1, <1>2 DEF NoRound, StreamOver
<1>4. /\ \A m \in Tries : m # n => act'[m] = act[m]
      /\ act'[n] = [act[n] EXCEPT !.at = "none"]
      /\ act' \in [Tries -> Acts]
  <2>1. [act[n] EXCEPT !.at = "none"] \in Acts
    BY <1>2 DEF Acts
  <2> QED  BY <1>2, <1>3, <2>1
<1>5. act'[n].at = "none" /\ act'[n].gen = act[n].gen
  BY <1>2, <1>4 DEF Acts
<1>6. RoundTypes'
  BY <1>2, <1>3, <1>4 DEF RoundTypes
<1>7. \A m \in Tries : ~Live(m)'
  BY <1>1, <1>4, <1>5 DEF Live, InFlight
<1>8. \A m \in Tries : act'[m].gen = act[m].gen
  BY <1>4, <1>5
<1>9. Numbered'
  <2>1. ASSUME NEW m \in Tries PROVE act'[m].gen <= gen' /\ (tries' < m => act'[m].at = "none")
    BY <1>3, <1>4, <1>5 DEF IInv, Numbered
  <2> QED  BY <2>1 DEF Numbered, IInv
<1>10. OneLive'
  BY <1>7 DEF OneLive
<1>11. OneStream'
  <2>1. \A m \in Tries : act[m].at \in Streams => m = n
    BY <1>1 DEF IInv, OneStream, None, Tries
  <2>2. \A m \in Tries : act'[m].at \notin Streams
    BY <1>4, <1>5, <2>1 DEF Streams
  <2>3. owner' # None => act'[owner'].gen = gen' /\ owner' <= tries'
    BY <1>2, <1>3, <1>8 DEF IInv, OneStream
  <2> QED  BY <1>3, <2>2, <2>3 DEF OneStream
<1>12. ~Busy'
  BY <1>7 DEF Busy, Live
<1> QED  BY <1>3, <1>6, <1>8, <1>9, <1>10, <1>11, <1>12 DEF Core

(* A try that is no longer the generation's ends. *)
LEMMA DropKeeps ==
    ASSUME IInv, NEW n \in Tries, ~Live(n), act[n].at \notin Streams, act' = [act EXCEPT ![n].at = "none"],
           UNCHANGED <<gen, tries, stream, requesting, controller, refs, pending, timer, msg, quiet, mounted>>
    PROVE  IInv'
<1>1. /\ act \in [Tries -> Acts] /\ owner \in Tries \union {None} /\ source \in Tries \union {None}
      /\ msg.text \subseteq Tries
  BY DEF IInv, TypeOK, Acts
<1>2. /\ \A m \in Tries : m # n => act'[m] = act[m]
      /\ act'[n] = [act[n] EXCEPT !.at = "none"]
      /\ act' \in [Tries -> Acts]
  <2>1. [act[n] EXCEPT !.at = "none"] \in Acts
    BY <1>1 DEF Acts
  <2> QED  BY <1>1, <2>1
<1>3. act'[n].at = "none" /\ act'[n].gen = act[n].gen
  BY <1>1, <1>2 DEF Acts
<1>4. \A m \in Tries : (Live(m)' <=> Live(m)) /\ act'[m].gen = act[m].gen
                        /\ (act'[m].at \in Streams <=> act[m].at \in Streams)
  BY <1>2, <1>3 DEF Live, InFlight, Streams
<1>5. \A m \in Tries : Live(m) => act'[m] = act[m]
  BY <1>2
<1>6. TypeOK'
  <2>1. RoundTypes' /\ RefTypes' /\ ShownTypes'
    BY <1>2, TypeParts DEF IInv, RoundTypes, RefTypes, ShownTypes, stream, refs
  <2>2. gen' \in 0..MaxGen + 1 /\ mounted' \in BOOLEAN
    BY DEF IInv, TypeOK
  <2>3. (RoundTypes /\ RefTypes /\ ShownTypes /\ gen \in 0..MaxGen + 1 /\ mounted \in BOOLEAN => TypeOK)'
    BY TypeParts, PTL
  <2> QED  BY <2>1, <2>2, <2>3
<1>7. Numbered'
  BY <1>2, <1>3 DEF IInv, Numbered
<1>8. OneLive'
  <2> SUFFICES ASSUME NEW m \in Tries, Live(m)' PROVE LiveOK(m)'
    BY DEF OneLive
  <2>1. Live(m) /\ LiveOK(m) /\ act'[m] = act[m]
    BY <1>4, <1>5 DEF IInv, OneLive
  <2> QED  BY <1>4, <2>1 DEF LiveOK, refs, stream
<1>9. OneStream'
  BY <1>1, <1>4 DEF IInv, OneStream, stream
<1>10. Busy' <=> Busy
  BY <1>4 DEF Busy, Live
<1>11. Waiting' /\ OwnText'
  BY <1>1, <1>4 DEF IInv, Waiting, OwnText, stream
<1>12. Shown'
  BY <1>10 DEF IInv, Shown
<1> QED  BY <1>6, <1>7, <1>8, <1>9, <1>11, <1>12 DEF IInv

(* Nothing of the rounds changes. *)
LEMMA SameRound ==
    ASSUME IInv, UNCHANGED <<gen, act, tries, stream, controller, forced, mounted>>
    PROVE  /\ RoundTypes' /\ Core' /\ (Busy' <=> Busy)
           /\ \A m \in Tries : act'[m].gen = act[m].gen
<1>1. RoundTypes'
  BY TypeParts DEF IInv, RoundTypes, stream
<1>2. Core'
  BY DEF IInv, Core, Numbered, OneLive, OneStream, LiveOK, Live, stream
<1>3. Busy' <=> Busy
  BY DEF Busy, Live
<1> QED  BY <1>1, <1>2, <1>3

(* The text that waits is of the generation of the message. *)
LEMMA PendingFacts ==
    ASSUME IInv, mounted
    PROVE  /\ \A m \in pending : m \in Tries /\ m <= tries /\ act[m].gen = msg.gen
           /\ pending # {} => Busy
<1> SUFFICES ASSUME NEW m \in pending
             PROVE  m \in Tries /\ m <= tries /\ act[m].gen = msg.gen /\ Busy
  OBVIOUS
<1>1. m \in Tries /\ m = source
  BY DEF IInv, Waiting, TypeOK
<1>2. source # None
  BY <1>1 DEF None, Tries
<1>3. Live(m)
  BY <1>1, <1>2 DEF IInv, OneStream, Live, InFlight, Streams
<1> QED  BY <1>1, <1>3, LiveFacts

(* What WithText makes of the message. *)
LEMMA WithTextFacts ==
    ASSUME TypeOK, NEW text \in SUBSET Tries
    PROVE  /\ WithText(msg, text) \in Messages
           /\ WithText(msg, text).gen = msg.gen
           /\ WithText(msg, text).text \subseteq msg.text \union text
           /\ WithText(msg, text).status \in Pending => msg.status \in Pending \/ text # {}
<1>1. msg \in Messages
  BY DEF TypeOK, Messages
<1>2. CASE text = {} \/ msg.status = "error"
  BY <1>1, <1>2 DEF WithText, Messages
<1>3. CASE ~(text = {} \/ msg.status = "error")
  <2>1. WithText(msg, text) = [msg EXCEPT !.status = "streaming", !.text = msg.text \union text]
    BY <1>3 DEF WithText
  <2>2. msg.text \union text \in SUBSET Tries /\ "streaming" \in Pending \union {"none", "complete", "error"}
    BY <1>1 DEF Messages, Pending
  <2> QED  BY <1>1, <1>3, <2>1, <2>2 DEF Messages
<1> QED  BY <1>2, <1>3

(* Completing a message changes its status only. *)
LEMMA CompletedFacts ==
    ASSUME NEW m \in Messages
    PROVE  Completed(m) \in Messages /\ Completed(m).gen = m.gen /\ Completed(m).text = m.text
           /\ Completed(m).status \notin Pending
<1>1. CASE m.status \in {"complete", "error"}
  BY <1>1 DEF Completed, Messages, Pending
<1>2. CASE m.status \notin {"complete", "error"}
  <2>1. Completed(m) = [m EXCEPT !.status = "complete"]
    BY <1>2 DEF Completed
  <2> QED  BY <2>1 DEF Messages, Pending
<1> QED  BY <1>1, <1>2

(* The message after a flush: of the same generation, with its text. *)
LEMMA FlushedFacts ==
    ASSUME IInv, mounted
    PROVE  /\ Flushed \in Messages /\ Flushed.gen = msg.gen
           /\ \A m \in Flushed.text : m <= tries /\ act[m].gen = msg.gen
           /\ Flushed.status \in Pending => Busy
<1>1. pending \in SUBSET Tries /\ TypeOK
  BY DEF IInv, TypeOK
<1>2. /\ Flushed \in Messages /\ Flushed.gen = msg.gen /\ Flushed.text \subseteq msg.text \union pending
      /\ Flushed.status \in Pending => msg.status \in Pending \/ pending # {}
  BY <1>1, WithTextFacts DEF Flushed
<1>3. (\A m \in pending : m <= tries /\ act[m].gen = msg.gen) /\ (pending # {} => Busy)
  BY PendingFacts
<1>4. \A m \in msg.text : m <= tries /\ act[m].gen = msg.gen
  BY DEF IInv, Waiting, OwnText
<1>5. msg.status \in Pending => Busy
  BY DEF IInv, Shown
<1> QED  BY <1>2, <1>3, <1>4, <1>5

(* The invariant after a step of the same generation, from its parts. *)
LEMMA Assemble ==
    ASSUME IInv, mounted, mounted' = mounted, gen' = gen,
           RoundTypes', RefTypes', Core', tries' \in {tries, tries + 1},
           \A m \in Tries : m <= tries => act'[m].gen = act[m].gen,
           msg' \in Messages, msg'.gen = msg.gen,
           \A m \in msg'.text : m <= tries /\ act[m].gen = msg.gen,
           pending' \subseteq Tries, \A m \in pending' : m = source',
           timer' \in BOOLEAN, quiet' \in BOOLEAN,
           Busy, Busy' \/ msg'.status \notin Pending,
           Busy' /\ ~quiet' => requesting'
    PROVE  IInv'
<1>1. TypeOK'
  <2>1. ShownTypes'
    BY DEF ShownTypes, Messages
  <2>2. gen' \in 0..MaxGen + 1 /\ mounted' \in BOOLEAN
    BY DEF IInv, TypeOK
  <2>3. (RoundTypes /\ RefTypes /\ ShownTypes /\ gen \in 0..MaxGen + 1 /\ mounted \in BOOLEAN => TypeOK)'
    BY TypeParts, PTL
  <2> QED  BY <2>1, <2>2, <2>3
<1>2. tries \in Nat /\ tries <= tries' /\ msg'.text \subseteq Tries
  BY DEF IInv, TypeOK, Messages
<1>3. Waiting'
  <2>1. ASSUME NEW m \in msg'.text PROVE m <= tries'
    BY <1>2, <2>1 DEF Tries
  <2> QED  BY <2>1 DEF Waiting
<1>4. OwnText'
  <2>1. ASSUME NEW m \in msg'.text PROVE act'[m].gen = msg'.gen
    BY <1>2, <2>1
  <2> QED  BY <2>1 DEF OwnText
<1>5. Shown'
  <2>1. msg.gen = gen
    BY DEF IInv, Shown
  <2> QED  BY <2>1 DEF Shown
<1> QED  BY <1>1, <1>3, <1>4, <1>5 DEF IInv, Core

(* What Stop, the next message and the cleanup leave of the tries. *)
LEMMA EndedFacts ==
    ASSUME IInv
    PROVE  /\ Ended(source) \in [Tries -> Acts]
           /\ \A m \in Tries : /\ Ended(source)[m].gen = act[m].gen
                               /\ Ended(source)[m].at \in {act[m].at, "none"} \ Streams
<1>1. act \in [Tries -> Acts]
  BY DEF IInv, TypeOK, Acts
<1>2. ASSUME NEW m \in Tries
      PROVE  /\ Ended(source)[m] \in Acts /\ Ended(source)[m].gen = act[m].gen
             /\ Ended(source)[m].at \in {act[m].at, "none"} \ Streams
  <2>1. act[m] \in Acts /\ (act[m].at \in Streams => source = m)
    BY <1>1 DEF IInv, OneStream
  <2>2. CASE m = source
    <3>1. Ended(source)[m] = [act[m] EXCEPT !.at = "none"]
      BY <2>2 DEF Ended
    <3> QED  BY <2>1, <3>1 DEF Acts, Streams
  <2>3. CASE m # source
    BY <2>1, <2>3 DEF Ended, Streams
  <2> QED  BY <2>2, <2>3
<1> QED  BY <1>2 DEF Ended

(* The next generation starts with nothing under way. *)
LEMMA StopFacts ==
    ASSUME IInv, mounted, gen' = gen + 1, mounted' => gen < MaxGen, act' = Ended(source),
           owner' = None, source' = None, controller' = None, tries' = tries, streaming' \in BOOLEAN
    PROVE  /\ RoundTypes' /\ Core' /\ ~Busy' /\ gen' \in 0..MaxGen + 1
           /\ \A m \in Tries : act'[m].gen = act[m].gen
<1>1. /\ act' \in [Tries -> Acts]
      /\ \A m \in Tries : act'[m].gen = act[m].gen /\ act'[m].at \in {act[m].at, "none"} \ Streams
  BY EndedFacts
<1>2. /\ gen \in 0..MaxGen /\ tries \in 0..MaxTries /\ MaxGen \in Nat
      /\ \A m \in Tries : act[m].gen <= gen /\ act[m].gen \in Nat /\ (tries < m => act[m].at = "none")
  BY PlaygroundAssumption DEF IInv, TypeOK, Numbered
<1>3. gen' \in 0..MaxGen + 1 /\ (mounted' => gen' <= MaxGen)
  BY <1>2
<1>4. \A m \in Tries : ~Live(m)'
  BY <1>1, <1>2 DEF Live
<1>5. RoundTypes'
  BY <1>1, <1>2 DEF RoundTypes
<1>6. Numbered'
  BY <1>1, <1>2, <1>3 DEF Numbered
<1>7. OneLive' /\ OneStream' /\ ~Busy'
  BY <1>1, <1>4 DEF OneLive, OneStream, Busy, Live
<1> QED  BY <1>1, <1>3, <1>5, <1>6, <1>7 DEF Core

(* The next round keeps the invariant. *)
LEMMA RoundKeeps ==
    ASSUME IInv, NEW n \in Tries, Live(n), NEW r \in 0..MaxToolRounds + 1, StartRound(n, act[n].gen, r),
           gen' = gen, mounted' = mounted, ~forced' => r <= MaxToolRounds, RefTypes',
           msg' \in {msg, Flushed}, pending' = {}, timer' \in BOOLEAN, quiet' \in BOOLEAN, ~quiet' => requesting'
    PROVE  IInv'
<1>1. mounted /\ Busy
  BY LiveFacts
<1>2. /\ RoundTypes' /\ Core' /\ Busy' /\ tries' = tries + 1
      /\ \A m \in Tries : m <= tries => act'[m].gen = act[m].gen
  BY StartFacts
<1>3. msg' \in Messages /\ msg'.gen = msg.gen /\ \A m \in msg'.text : m <= tries /\ act[m].gen = msg.gen
  <2>1. CASE msg' = msg
    BY <2>1 DEF IInv, TypeOK, Messages, Waiting, OwnText
  <2>2. CASE msg' = Flushed
    BY <1>1, <2>2, FlushedFacts
  <2> QED  BY <2>1, <2>2
<1> QED  BY <1>1, <1>2, <1>3, Assemble

(* The retry keeps it. *)
LEMMA RetryKeeps ==
    ASSUME IInv, NEW n \in Tries, Live(n), Retry(n), gen' = gen, mounted' = mounted, requesting' \in BOOLEAN,
           msg' \in {msg, Flushed}, pending' = {}, timer' \in BOOLEAN, quiet' \in BOOLEAN, ~quiet' => requesting'
    PROVE  IInv'
<1>1. RefTypes'
  BY DEF IInv, TypeOK, RefTypes, Retry
<1>2. act[n].round \in 0..MaxToolRounds + 1 /\ (~forced' => act[n].round <= MaxToolRounds)
  BY LiveFacts DEF IInv, OneLive, LiveOK, Retry
<1>3. StartRound(n, act[n].gen, act[n].round)
  BY DEF Retry
<1> QED  BY <1>1, <1>2, <1>3, RoundKeeps

(* The forced answer keeps it. *)
LEMMA ForceKeeps ==
    ASSUME IInv, NEW n \in Tries, Live(n), NEW text, ForceAnswer(n, text), ~forced, gen' = gen, mounted' = mounted,
           requesting' = requesting, quiet' = quiet, msg' \in {msg, Flushed}, pending' = {}, timer' \in BOOLEAN
    PROVE  IInv'
<1>1. RefTypes' /\ forced' /\ quiet' \in BOOLEAN
  BY DEF IInv, TypeOK, RefTypes, ForceAnswer
<1>2. act[n].round + 1 \in 0..MaxToolRounds + 1
  BY LiveFacts, PlaygroundAssumption DEF IInv, OneLive, LiveOK
<1>3. StartRound(n, act[n].gen, act[n].round + 1)
  BY DEF ForceAnswer
<1>4. ~quiet' => requesting'
  BY LiveFacts DEF IInv, Shown
<1> QED  BY <1>1, <1>2, <1>3, <1>4, RoundKeeps

(* The end of the generation keeps it. *)
LEMMA EndKeeps ==
    ASSUME IInv, NEW n \in Tries, Live(n), NoRound(n), gen' = gen, mounted' = mounted, RefTypes',
           msg' \in Messages, msg'.gen = msg.gen, msg'.status \notin Pending,
           \A m \in msg'.text : m <= tries /\ act[m].gen = msg.gen,
           pending' = {}, timer' \in BOOLEAN, quiet' \in BOOLEAN
    PROVE  IInv'
<1>1. mounted /\ Busy
  BY LiveFacts
<1>2. /\ RoundTypes' /\ Core' /\ ~Busy' /\ tries' = tries
      /\ \A m \in Tries : act'[m].gen = act[m].gen
  BY NoRoundFacts
<1> QED  BY <1>1, <1>2, Assemble

(* The message with an error, and the one with the answer. *)
LEMMA LastMessage ==
    ASSUME IInv, NEW n \in Tries, Live(n), NEW status \in {"complete", "error"}, NEW text \in {{}, {n}},
           msg' = [msg EXCEPT !.status = status, !.text = text]
    PROVE  /\ msg' \in Messages /\ msg'.gen = msg.gen /\ msg'.status \notin Pending
           /\ \A m \in msg'.text : m <= tries /\ act[m].gen = msg.gen
<1>1. msg \in Messages /\ n <= tries /\ act[n].gen = msg.gen
  BY LiveFacts DEF IInv, TypeOK, Messages
<1>2. text \in SUBSET Tries /\ status \in Pending \union {"none", "complete", "error"}
  OBVIOUS
<1>3. msg' \in Messages /\ msg'.gen = msg.gen /\ msg'.status = status /\ msg'.text = text
  BY <1>1, <1>2 DEF Messages
<1> QED  BY <1>1, <1>3 DEF Pending

(* The tools of the round keep it. *)
LEMMA ToolsKeep ==
    ASSUME IInv, NEW n \in Tries, Live(n), RunTools(n), source' = None, owner' = owner, streaming' \in BOOLEAN,
           ~forced, act[n].round < MaxToolRounds, gen' = gen, mounted' = mounted,
           requesting' = requesting, quiet' = quiet, produced' \in BOOLEAN,
           msg' \in Messages, msg'.gen = msg.gen, \A m \in msg'.text : m <= tries /\ act[m].gen = msg.gen,
           pending' = {}, timer' \in BOOLEAN
    PROVE  IInv'
<1>1. mounted /\ Busy
  BY LiveFacts
<1>2. /\ act' = [act EXCEPT ![n].at = "tools"] /\ controller' = n /\ tries' = tries /\ forced' = forced
      /\ RefTypes' /\ quiet' \in BOOLEAN
  BY DEF RunTools, IInv, TypeOK, RefTypes
<1>3. /\ RoundTypes' /\ Core' /\ Busy'
      /\ \A m \in Tries : act'[m].gen = act[m].gen
  BY <1>2, MoveFacts DEF Streams
<1>4. ~quiet' => requesting'
  BY <1>1 DEF IInv, Shown
<1> QED  BY <1>1, <1>2, <1>3, <1>4, Assemble
-----------------------------------------------------------------------------
(* The invariant holds initially. *)
LEMMA InitInv == Init => IInv
<1> SUFFICES ASSUME Init PROVE IInv
  OBVIOUS
<1>1. \A n \in Tries : act[n] = Idle /\ n \in Nat
  BY DEF Init, Tries
<1>2. Idle \in Acts
  BY PlaygroundAssumption DEF Idle, Acts
<1>3. NoMessage \in Messages /\ NoMessage.text = {} /\ NoMessage.status \notin Pending
  BY PlaygroundAssumption DEF NoMessage, Messages, Pending
<1>4. TypeOK
  <2>1. act \in [Tries -> Acts] /\ msg \in Messages
    BY <1>2, <1>3 DEF Init
  <2>2. gen \in 0..MaxGen + 1 /\ tries \in 0..MaxTries
    BY PlaygroundAssumption DEF Init
  <2> QED  BY <2>1, <2>2 DEF Init, TypeOK, Acts, Messages
<1>5. Numbered
  BY <1>1, PlaygroundAssumption DEF Init, Numbered, Idle
<1>6. OneLive /\ ~Busy
  BY <1>1 DEF OneLive, Live, Busy, Idle, InFlight
<1>7. OneStream
  BY <1>1 DEF OneStream, Init, Idle, Streams
<1>8. Waiting /\ OwnText
  BY <1>3 DEF Waiting, OwnText, Init
<1>9. Shown
  BY <1>3, <1>6 DEF Shown, Init
<1> QED  BY <1>4, <1>5, <1>6, <1>7, <1>8, <1>9 DEF IInv

(* A new message. *)
LEMMA SendKeeps == IInv /\ Send => IInv'
<1> SUFFICES ASSUME IInv, Send PROVE IInv'
  OBVIOUS
<1>1. PICK new : new = tries + 1
  OBVIOUS
<1>2. PICK a \in {"headers", "fetch"} :
        /\ new \in Tries /\ tries' = new
        /\ act' = [Ended(source) EXCEPT ![new] = [at |-> a, gen |-> gen + 1, round |-> 0]]
        /\ source' = None /\ streaming' = FALSE
        /\ owner' = IF a = "headers" THEN new ELSE None
        /\ controller' = IF a = "headers" THEN None ELSE new
  BY <1>1 DEF Send
<1>3. /\ mounted /\ mounted' = mounted /\ gen < MaxGen /\ gen' = gen + 1
      /\ transcript' /\ requesting' /\ roundText' = {} /\ pending' = {}
      /\ ~roundTools' /\ ~produced' /\ ~forced' /\ ~retried' /\ ~quiet' /\ ~timer'
      /\ msg' = [status |-> "loading", text |-> {}, gen |-> gen + 1]
      /\ RefTypes' /\ timer' \in BOOLEAN /\ quiet' \in BOOLEAN
  BY DEF Send, Flush, RefTypes
<1>4. gen \in Nat /\ gen + 1 \in 0..MaxGen /\ gen + 1 \in 0..MaxGen + 1 /\ MaxGen \in Nat /\ mounted' \in BOOLEAN
  BY <1>3, PlaygroundAssumption DEF IInv, TypeOK
<1>5. /\ Ended(source) \in [Tries -> Acts]
      /\ \A m \in Tries : /\ Ended(source)[m].gen = act[m].gen
                          /\ Ended(source)[m].at \in {act[m].at, "none"} \ Streams
  BY EndedFacts
<1>6. [at |-> a, gen |-> gen + 1, round |-> 0] \in Acts
  BY <1>4, PlaygroundAssumption DEF Acts, InFlight
<1>7. /\ act' \in [Tries -> Acts]
      /\ \A m \in Tries : m # new => act'[m] = Ended(source)[m]
      /\ act'[new] = [at |-> a, gen |-> gen + 1, round |-> 0]
  BY <1>2, <1>5, <1>6
<1>8. /\ \A m \in Tries : m # new => act'[m].gen = act[m].gen /\ act'[m].at \in {act[m].at, "none"} \ Streams
      /\ act'[new].at = a /\ act'[new].gen = gen + 1 /\ act'[new].round = 0
  BY <1>5, <1>7
<1>9. \A m \in Tries : act[m].gen <= gen /\ act[m].gen \in Nat /\ (tries < m => act[m].at = "none") /\ m \in Nat
  BY PlaygroundAssumption DEF IInv, Numbered, TypeOK, Tries
<1>10. \A m \in Tries : Live(m)' <=> m = new
  BY <1>2, <1>3, <1>4, <1>8, <1>9 DEF Live, InFlight
<1>11. Busy'
  BY <1>2, <1>10 DEF Busy, Live
<1>12. new # None /\ new \in 0..MaxTries /\ new \in Nat /\ tries \in Nat
  BY <1>2 DEF Tries, None, IInv, TypeOK
<1>13. TypeOK'
  <2>1. RoundTypes'
    BY <1>2, <1>7, <1>12 DEF RoundTypes
  <2>2. ShownTypes'
    BY <1>3, <1>4 DEF ShownTypes, Pending
  <2>3. (RoundTypes /\ RefTypes /\ ShownTypes /\ gen \in 0..MaxGen + 1 /\ mounted \in BOOLEAN => TypeOK)'
    BY TypeParts, PTL
  <2> QED  BY <1>3, <1>4, <2>1, <2>2, <2>3
<1>14. Numbered'
  <2>1. ASSUME NEW m \in Tries PROVE act'[m].gen <= gen' /\ (tries' < m => act'[m].at = "none")
    <3>1. CASE m = new
      BY <1>2, <1>3, <1>4, <1>8, <1>12, <3>1
    <3>2. CASE m # new
      BY <1>1, <1>2, <1>3, <1>4, <1>8, <1>9, <1>12, <3>2
    <3> QED  BY <3>1, <3>2
  <2> QED  BY <1>3, <1>4, <2>1 DEF Numbered
<1>15. OneLive'
  <2>1. LiveOK(new)'
    <3>1. mounted' /\ \A m \in Tries : Live(m)' => m = new
      BY <1>3, <1>10
    <3>2. /\ act'[new].at \in {"headers"} \union Streams => owner' = new
          /\ act'[new].at \in {"fetch", "tools"} => controller' = new
          /\ act'[new].round <= MaxToolRounds
          /\ act'[new].at # "tools"
      BY <1>2, <1>8, PlaygroundAssumption DEF Streams
    <3> QED  BY <3>1, <3>2 DEF LiveOK
  <2> QED  BY <1>10, <2>1 DEF OneLive
<1>16. OneStream'
  <2>1. \A m \in Tries : act'[m].at \notin Streams
    BY <1>8 DEF Streams
  <2>2. owner' # None => act'[owner'].gen = gen' /\ owner' <= tries'
    BY <1>2, <1>3, <1>8, <1>12
  <2> QED  BY <1>2, <2>1, <2>2 DEF OneStream
<1>17. Waiting' /\ OwnText'
  BY <1>3 DEF Waiting, OwnText
<1>18. Shown'
  BY <1>3, <1>11 DEF Shown
<1> QED  BY <1>13, <1>14, <1>15, <1>16, <1>17, <1>18 DEF IInv

(* Stop and a new chat. *)
LEMMA StopGenerationKeeps ==
    ASSUME IInv, mounted, gen < MaxGen, NEW clear \in BOOLEAN, StopGeneration(clear)
    PROVE  IInv'
<1>1. /\ gen' = gen + 1 /\ pending' = {} /\ timer' = FALSE /\ act' = Ended(source) /\ mounted' = mounted
      /\ owner' = None /\ source' = None /\ streaming' = FALSE /\ controller' = None /\ tries' = tries
      /\ quiet' = quiet
  BY DEF StopGeneration, Flush
<1>2. /\ RoundTypes' /\ Core' /\ ~Busy' /\ gen' \in 0..MaxGen + 1
      /\ \A m \in Tries : act'[m].gen = act[m].gen
  BY <1>1, StopFacts
<1>3. RefTypes'
  BY DEF StopGeneration, RefTypes, IInv, TypeOK
<1>4. PICK m0 \in {Flushed, msg} :
        msg' = IF clear THEN NoMessage ELSE IF m0.status \in Pending THEN Completed(m0) ELSE m0
  BY DEF StopGeneration
<1>5. m0 \in Messages /\ m0.gen = msg.gen /\ \A m \in m0.text : m <= tries /\ act[m].gen = msg.gen
  <2>1. CASE m0 = msg
    BY <2>1 DEF IInv, TypeOK, Messages, Waiting, OwnText
  <2>2. CASE m0 = Flushed
    BY <2>2, FlushedFacts
  <2> QED  BY <1>4, <2>1, <2>2
<1>6. /\ msg' \in Messages /\ msg'.status \notin Pending
      /\ \A m \in msg'.text : m <= tries /\ act[m].gen = msg'.gen
  <2>1. CASE clear
    <3>1. NoMessage \in Messages /\ NoMessage.text = {} /\ NoMessage.status \notin Pending
      BY PlaygroundAssumption DEF NoMessage, Messages, Pending
    <3> QED  BY <1>4, <2>1, <3>1
  <2>2. CASE ~clear
    BY <1>4, <1>5, <2>2, CompletedFacts
  <2> QED  BY <2>1, <2>2
<1>7. TypeOK'
  <2>1. ShownTypes'
    BY <1>1, <1>6 DEF ShownTypes, Messages, IInv, TypeOK
  <2>2. mounted' \in BOOLEAN
    BY <1>1 DEF IInv, TypeOK
  <2>3. (RoundTypes /\ RefTypes /\ ShownTypes /\ gen \in 0..MaxGen + 1 /\ mounted \in BOOLEAN => TypeOK)'
    BY TypeParts, PTL
  <2> QED  BY <1>2, <1>3, <2>1, <2>2, <2>3
<1>8. Waiting' /\ OwnText'
  <2>1. msg'.text \subseteq Tries
    BY <1>6 DEF Messages
  <2> QED  BY <1>1, <1>2, <1>6, <2>1 DEF Waiting, OwnText
<1>9. Shown'
  BY <1>2, <1>6 DEF Shown
<1> QED  BY <1>2, <1>7, <1>8, <1>9 DEF IInv, Core

(* The cleanup. *)
LEMMA UnmountKeeps == IInv /\ Unmount => IInv'
<1> SUFFICES ASSUME IInv, Unmount PROVE IInv'
  OBVIOUS
<1>1. /\ mounted /\ ~mounted' /\ mounted' \in BOOLEAN /\ gen' = gen + 1 /\ timer' = FALSE /\ act' = Ended(source)
      /\ owner' = None /\ source' = None /\ controller' = None /\ tries' = tries /\ streaming' = streaming
      /\ pending' = pending /\ msg' = msg /\ quiet' = quiet
  BY DEF Unmount
<1>2. /\ RoundTypes' /\ Core' /\ ~Busy' /\ gen' \in 0..MaxGen + 1
      /\ \A m \in Tries : act'[m].gen = act[m].gen
  <2>1. streaming' \in BOOLEAN
    BY <1>1 DEF IInv, TypeOK
  <2> QED  BY <1>1, <2>1, StopFacts
<1>3. TypeOK'
  <2>1. RefTypes'
    BY DEF Unmount, refs, RefTypes, IInv, TypeOK
  <2>2. ShownTypes'
    BY <1>1 DEF ShownTypes, IInv, TypeOK
  <2>3. (RoundTypes /\ RefTypes /\ ShownTypes /\ gen \in 0..MaxGen + 1 /\ mounted \in BOOLEAN => TypeOK)'
    BY TypeParts, PTL
  <2> QED  BY <1>1, <1>2, <2>1, <2>2, <2>3
<1>4. Waiting' /\ OwnText'
  <2>1. msg.text \subseteq Tries
    BY DEF IInv, TypeOK
  <2> QED  BY <1>1, <1>2, <2>1 DEF IInv, Waiting, OwnText
<1>5. Shown'
  BY <1>1, <1>2 DEF Shown
<1> QED  BY <1>2, <1>3, <1>4, <1>5 DEF IInv, Core

(* The flush timer. *)
LEMMA FlushTimerKeeps == IInv /\ FlushTimer => IInv'
<1> SUFFICES ASSUME IInv, FlushTimer PROVE IInv'
  OBVIOUS
<1>1. /\ timer /\ pending' = {} /\ timer' = FALSE /\ msg' = Flushed
      /\ UNCHANGED <<gen, act, tries, stream, requesting, controller, refs, quiet, mounted>>
  BY DEF FlushTimer, Flush, Flushed
<1>2. mounted
  BY <1>1 DEF IInv, Waiting
<1>3. /\ RoundTypes' /\ Core' /\ (Busy' <=> Busy)
      /\ \A m \in Tries : act'[m].gen = act[m].gen
  BY <1>1, SameRound DEF refs
<1>4. /\ msg' \in Messages /\ msg'.gen = msg.gen
      /\ \A m \in msg'.text : m <= tries /\ act[m].gen = msg.gen
      /\ msg'.status \in Pending => Busy
  BY <1>1, <1>2, FlushedFacts
<1>5. RefTypes' /\ quiet' \in BOOLEAN /\ timer' \in BOOLEAN
  BY <1>1 DEF IInv, TypeOK, RefTypes, refs
<1>6. CASE Busy
  <2>1. Busy' /\ ~quiet' => requesting'
    BY <1>1, <1>6 DEF IInv, Shown
  <2> QED  BY <1>1, <1>2, <1>3, <1>4, <1>5, <1>6, <2>1, Assemble
<1>7. CASE ~Busy
  <2>1. TypeOK'
    <3>1. ShownTypes'
      BY <1>1, <1>4, <1>5 DEF ShownTypes, Messages
    <3>2. gen' \in 0..MaxGen + 1 /\ mounted' \in BOOLEAN
      BY <1>1 DEF IInv, TypeOK
    <3>3. (RoundTypes /\ RefTypes /\ ShownTypes /\ gen \in 0..MaxGen + 1 /\ mounted \in BOOLEAN => TypeOK)'
      BY TypeParts, PTL
    <3> QED  BY <1>3, <1>5, <3>1, <3>2, <3>3
  <2>2. Waiting' /\ OwnText'
    <3>1. msg'.text \subseteq Tries
      BY <1>4 DEF Messages
    <3> QED  BY <1>1, <1>2, <1>3, <1>4, <3>1 DEF Waiting, OwnText
  <2>3. Shown'
    BY <1>3, <1>4, <1>7 DEF Shown
  <2> QED  BY <1>3, <2>1, <2>2, <2>3 DEF IInv, Core
<1> QED  BY <1>6, <1>7

(* A source that reports belongs to the live try. *)
LEMMA CurrentIsLive ==
    ASSUME IInv, NEW n \in Tries, Current(n)
    PROVE  Live(n) /\ source = n /\ owner = n
BY DEF Current, Live, InFlight

(* The headers come, or not. *)
LEMMA HeadersKeep ==
    ASSUME IInv, NEW n \in Tries, GotHeaders(n)
    PROVE  IInv'
<1>1. act[n].at = "headers" /\ act[n].at \notin Streams
  BY DEF GotHeaders, Streams
<1>2. UNCHANGED <<gen, tries, owner, requesting, controller, refs, pending, timer, msg, quiet, mounted>>
  BY DEF GotHeaders
<1>3. CASE owner = n
  <2>1. act' = [act EXCEPT ![n].at = "open"] /\ source' = n /\ streaming' = TRUE
    BY <1>3 DEF GotHeaders, Owns
  <2>2. Live(n)
    BY <1>1, <1>3 DEF IInv, OneStream, Live, InFlight, None, Tries
  <2>3. mounted /\ Busy /\ pending = {}
    BY <1>1, <2>2, LiveFacts
  <2>4. /\ RoundTypes' /\ Core' /\ Busy'
        /\ \A m \in Tries : act'[m].gen = act[m].gen
    BY <1>2, <1>3, <2>1, <2>2, MoveFacts DEF refs, Streams
  <2>5. /\ RefTypes' /\ quiet' \in BOOLEAN /\ timer' \in BOOLEAN
        /\ msg' \in Messages /\ msg'.gen = msg.gen
        /\ \A m \in msg'.text : m <= tries /\ act[m].gen = msg.gen
    BY <1>2 DEF IInv, TypeOK, RefTypes, refs, Messages, Waiting, OwnText
  <2>6. Busy' /\ ~quiet' => requesting'
    BY <1>2, <2>3 DEF IInv, Shown
  <2> QED  BY <1>2, <2>3, <2>4, <2>5, <2>6, Assemble
<1>4. CASE owner # n
  <2>1. act' = [act EXCEPT ![n].at = "none"] /\ UNCHANGED stream
    BY <1>2, <1>4 DEF GotHeaders, Owns, stream
  <2>2. ~Live(n)
    BY <1>1, <1>4 DEF IInv, OneLive, LiveOK
  <2> QED  BY <1>1, <1>2, <2>1, <2>2, DropKeeps
<1> QED  BY <1>3, <1>4

(* What the stream brings. *)
LEMMA ChunkKeeps ==
    ASSUME IInv, NEW n \in Tries, NEW type, Chunk(n, type)
    PROVE  IInv'
<1>1. /\ pending' = pending \union {n} /\ timer' = TRUE
      /\ roundText' \in {roundText, roundText \union {n}} /\ produced' \in BOOLEAN
      /\ UNCHANGED <<gen, act, tries, stream, requesting, controller, transcript, roundTools, forced, retried,
                     msg, quiet, mounted>>
  BY DEF Chunk
<1>2. Live(n) /\ source = n
  BY CurrentIsLive DEF Chunk
<1>3. mounted /\ Busy
  BY <1>2, LiveFacts
<1>4. /\ RoundTypes' /\ Core' /\ (Busy' <=> Busy)
      /\ \A m \in Tries : act'[m].gen = act[m].gen
  BY <1>1, SameRound
<1>5. /\ RefTypes' /\ quiet' \in BOOLEAN /\ timer' \in BOOLEAN
      /\ msg' \in Messages /\ msg'.gen = msg.gen
      /\ \A m \in msg'.text : m <= tries /\ act[m].gen = msg.gen
  BY <1>1 DEF IInv, TypeOK, RefTypes, Messages, Waiting, OwnText
<1>6. pending' \subseteq Tries /\ \A m \in pending' : m = source'
  BY <1>1, <1>2, <1>3 DEF IInv, TypeOK, Waiting, stream
<1>7. Busy' /\ ~quiet' => requesting'
  BY <1>1, <1>3 DEF IInv, Shown
<1> QED  BY <1>1, <1>3, <1>4, <1>5, <1>6, <1>7, Assemble

(* A tool call of the stream. *)
LEMMA ToolCallDeltaKeeps ==
    ASSUME IInv, NEW n \in Tries, ToolCallDelta(n)
    PROVE  IInv'
<1>1. /\ roundTools' = TRUE
      /\ UNCHANGED <<gen, act, tries, stream, requesting, controller, transcript, roundText, produced, forced,
                     retried, pending, timer, msg, quiet, mounted>>
  BY DEF ToolCallDelta
<1>2. Live(n)
  BY CurrentIsLive DEF ToolCallDelta
<1>3. mounted /\ Busy
  BY <1>2, LiveFacts
<1>4. /\ RoundTypes' /\ Core' /\ (Busy' <=> Busy)
      /\ \A m \in Tries : act'[m].gen = act[m].gen
  BY <1>1, SameRound
<1>5. /\ RefTypes' /\ quiet' \in BOOLEAN /\ timer' \in BOOLEAN
      /\ msg' \in Messages /\ msg'.gen = msg.gen
      /\ \A m \in msg'.text : m <= tries /\ act[m].gen = msg.gen
  BY <1>1 DEF IInv, TypeOK, RefTypes, Messages, Waiting, OwnText
<1>6. pending' \subseteq Tries /\ \A m \in pending' : m = source'
  BY <1>1, <1>3 DEF IInv, TypeOK, Waiting, stream
<1>7. Busy' /\ ~quiet' => requesting'
  BY <1>1, <1>3 DEF IInv, Shown
<1> QED  BY <1>1, <1>3, <1>4, <1>5, <1>6, <1>7, Assemble

(* A stream that closes and tells nobody. *)
LEMMA StreamClosesKeeps ==
    ASSUME IInv, NEW n \in Tries, StreamCloses(n)
    PROVE  IInv'
<1>1. /\ act' = [act EXCEPT ![n].at = "closed"]
      /\ UNCHANGED <<gen, tries, stream, requesting, controller, refs, pending, timer, msg, quiet, mounted>>
  BY DEF StreamCloses
<1>2. Live(n) /\ source = n /\ owner = n
  BY CurrentIsLive DEF StreamCloses
<1>3. mounted /\ Busy
  BY <1>2, LiveFacts
<1>4. streaming /\ streaming' /\ streaming' \in BOOLEAN
  BY <1>1, <1>2 DEF IInv, OneStream, TypeOK, stream, None, Tries
<1>5. /\ RoundTypes' /\ Core' /\ Busy'
      /\ \A m \in Tries : act'[m].gen = act[m].gen
  BY <1>1, <1>2, <1>4, MoveFacts DEF refs, stream, Streams
<1>6. /\ RefTypes' /\ quiet' \in BOOLEAN /\ timer' \in BOOLEAN
      /\ msg' \in Messages /\ msg'.gen = msg.gen
      /\ \A m \in msg'.text : m <= tries /\ act[m].gen = msg.gen
  BY <1>1 DEF IInv, TypeOK, RefTypes, refs, Messages, Waiting, OwnText
<1>7. pending' \subseteq Tries /\ \A m \in pending' : m = source'
  BY <1>1, <1>3 DEF IInv, TypeOK, Waiting, stream
<1>8. Busy' /\ ~quiet' => requesting'
  BY <1>1, <1>3 DEF IInv, Shown
<1> QED  BY <1>1, <1>3, <1>5, <1>6, <1>7, <1>8, Assemble

(* The end of a stream: the tools, the forced answer, the retry or the end. *)
LEMMA StreamCompleteKeeps ==
    ASSUME IInv, NEW n \in Tries, StreamComplete(n)
    PROVE  IInv'
<1>1. Live(n) /\ source = n
  BY CurrentIsLive DEF StreamComplete
<1>2. pending' = {} /\ timer' = FALSE /\ gen' = gen /\ quiet' = quiet /\ mounted' = mounted
  BY DEF StreamComplete, Flush
<1>3. mounted /\ Busy /\ quiet' \in BOOLEAN /\ requesting \in BOOLEAN /\ (~quiet => requesting)
  BY <1>1, <1>2, LiveFacts DEF IInv, TypeOK, Shown
<1>4. Flushed \in Messages /\ Flushed.gen = msg.gen /\ \A m \in Flushed.text : m <= tries /\ act[m].gen = msg.gen
  BY <1>3, FlushedFacts
<1>5. CASE /\ ToolsNext(n, roundTools) /\ RunTools(n) /\ StreamOver(n) /\ msg' = Flushed
           /\ UNCHANGED <<owner, produced, requesting>>
  <2>1. source' = None /\ streaming' = FALSE
    BY <1>1, <1>5 DEF StreamOver
  <2>2. ~forced /\ act[n].round < MaxToolRounds /\ produced' \in BOOLEAN
    BY <1>5 DEF ToolsNext, IInv, TypeOK
  <2> QED  BY <1>1, <1>2, <1>4, <1>5, <2>1, <2>2, ToolsKeep
<1>6. CASE /\ ForceNext(n, roundText, roundTools) /\ ForceAnswer(n, {}) /\ msg' = Flushed /\ UNCHANGED requesting
  <2>1. ~forced
    BY <1>6 DEF ForceNext
  <2> QED  BY <1>1, <1>2, <1>6, <2>1, ForceKeeps
<1>7. CASE RetryNext(n, roundText, roundTools) /\ Retry(n) /\ msg' = Flushed /\ UNCHANGED requesting
  BY <1>1, <1>2, <1>3, <1>7, RetryKeeps
<1>8. CASE /\ Finished(n, roundText, roundTools) /\ NoRound(n) /\ requesting' = FALSE
           /\ msg' = Completed(Flushed) /\ UNCHANGED refs
  <2>1. RefTypes'
    BY <1>8 DEF RefTypes, refs, IInv, TypeOK
  <2> QED  BY <1>1, <1>2, <1>3, <1>4, <1>8, <2>1, EndKeeps, CompletedFacts
<1> QED  BY <1>5, <1>6, <1>7, <1>8 DEF StreamComplete

(* A failure of the stream, or of the headers. *)
LEMMA StreamErrorKeeps ==
    ASSUME IInv, NEW n \in Tries, Live(n), StreamError(n)
    PROVE  IInv'
<1>1. pending' = {} /\ timer' = FALSE /\ gen' = gen /\ quiet' = quiet /\ mounted' = mounted
  BY DEF StreamError, Flush
<1>2. quiet' \in BOOLEAN /\ requesting \in BOOLEAN /\ (~quiet => requesting)
  BY <1>1, LiveFacts DEF IInv, TypeOK, Shown
<1>3. CASE MayRetry
  <2>1. Retry(n) /\ msg' = Flushed /\ requesting' = requesting
    BY <1>3 DEF StreamError
  <2> QED  BY <1>1, <1>2, <2>1, RetryKeeps
<1>4. CASE ~MayRetry
  <2>1. /\ NoRound(n) /\ requesting' = FALSE /\ UNCHANGED refs
        /\ msg' = [msg EXCEPT !.status = "error", !.text = {}]
    BY <1>4 DEF StreamError
  <2>2. RefTypes'
    BY <2>1 DEF RefTypes, refs, IInv, TypeOK
  <2>3. /\ msg' \in Messages /\ msg'.gen = msg.gen /\ msg'.status \notin Pending
        /\ \A m \in msg'.text : m <= tries /\ act[m].gen = msg.gen
    BY <2>1, LastMessage
  <2> QED  BY <1>1, <1>2, <2>1, <2>2, <2>3, EndKeeps
<1> QED  BY <1>3, <1>4

(* No headers. *)
LEMMA NoHeadersKeeps ==
    ASSUME IInv, NEW n \in Tries, NoHeaders(n)
    PROVE  IInv'
<1>1. act[n].at = "headers"
  BY DEF NoHeaders
<1>2. CASE owner = n
  <2>1. Live(n)
    BY <1>1, <1>2 DEF IInv, OneStream, Live, InFlight, None, Tries
  <2> QED  BY <1>2, <2>1, StreamErrorKeeps DEF NoHeaders
<1>3. CASE owner # n
  <2>1. ~Live(n)
    BY <1>1, <1>3 DEF IInv, OneLive, LiveOK
  <2> QED  BY <1>1, <1>3, <2>1, DropKeeps DEF NoHeaders, Streams
<1> QED  BY <1>2, <1>3

(* The answer to an unstreamed round. *)
LEMMA ResponseKeeps ==
    ASSUME IInv, NEW n \in Tries, NEW text \in {{}, {n}}, NEW tools \in BOOLEAN, Response(n, text, tools)
    PROVE  IInv'
<1>1. Live(n) /\ act[n].at = "fetch"
  BY DEF Response, Alive, Live, InFlight
<1>2. /\ gen' = gen /\ pending' = pending /\ timer' = timer /\ quiet' = quiet /\ mounted' = mounted
  BY DEF Response
<1>3. mounted /\ Busy /\ pending = {} /\ source = None /\ n <= tries /\ act[n].gen = msg.gen
  BY <1>1, LiveFacts DEF Streams
<1>4. /\ quiet' \in BOOLEAN /\ timer' \in BOOLEAN /\ requesting \in BOOLEAN /\ streaming \in BOOLEAN
      /\ (~quiet => requesting)
  BY <1>2, <1>3 DEF IInv, TypeOK, Shown
<1>5. produced \in BOOLEAN /\ (produced \/ text # {}) \in BOOLEAN
  BY DEF IInv, TypeOK
<1>6. CASE /\ ToolsNext(n, tools) /\ RunTools(n) /\ produced' = (produced \/ text # {})
           /\ msg' = WithText(msg, text) /\ UNCHANGED <<stream, requesting>>
  <2>1. source' = None /\ streaming' \in BOOLEAN /\ owner' = owner /\ requesting' = requesting
    BY <1>3, <1>4, <1>6 DEF stream
  <2>2. ~forced /\ act[n].round < MaxToolRounds /\ produced' \in BOOLEAN
    BY <1>5, <1>6 DEF ToolsNext
  <2>3. msg' \in Messages /\ msg'.gen = msg.gen /\ msg'.text \subseteq msg.text \union text
    <3>1. text \in SUBSET Tries /\ TypeOK
      BY DEF IInv
    <3> QED  BY <1>6, <3>1, WithTextFacts
  <2>4. \A m \in msg'.text : m <= tries /\ act[m].gen = msg.gen
    BY <1>3, <2>3 DEF IInv, Waiting, OwnText
  <2> QED  BY <1>1, <1>2, <1>3, <1>4, <1>6, <2>1, <2>2, <2>3, <2>4, ToolsKeep
<1>7. CASE ForceNext(n, text, tools) /\ ForceAnswer(n, text) /\ UNCHANGED <<msg, requesting>>
  <2>1. ~forced
    BY <1>7 DEF ForceNext
  <2> QED  BY <1>1, <1>2, <1>3, <1>4, <1>7, <2>1, ForceKeeps
<1>8. CASE RetryNext(n, text, tools) /\ Retry(n) /\ UNCHANGED <<msg, requesting>>
  BY <1>1, <1>2, <1>3, <1>4, <1>8, RetryKeeps
<1>9. CASE /\ Finished(n, text, tools) /\ NoRound(n) /\ requesting' = FALSE
           /\ msg' = [msg EXCEPT !.status = "complete", !.text = text]
           /\ produced' = (produced \/ text # {})
           /\ UNCHANGED <<transcript, roundText, roundTools, forced, retried>>
  <2>1. RefTypes'
    BY <1>5, <1>9 DEF RefTypes, IInv, TypeOK
  <2>2. /\ msg' \in Messages /\ msg'.gen = msg.gen /\ msg'.status \notin Pending
        /\ \A m \in msg'.text : m <= tries /\ act[m].gen = msg.gen
    BY <1>1, <1>9, LastMessage
  <2> QED  BY <1>1, <1>2, <1>3, <1>4, <1>9, <2>1, <2>2, EndKeeps
<1> QED  BY <1>6, <1>7, <1>8, <1>9 DEF Response

(* An unstreamed round fails. *)
LEMMA FetchFailsKeeps ==
    ASSUME IInv, NEW n \in Tries, FetchFails(n)
    PROVE  IInv'
<1>1. Live(n)
  BY DEF FetchFails, Alive, Live, InFlight
<1>2. pending' = {} /\ timer' = FALSE /\ gen' = gen /\ mounted' = mounted /\ requesting' = FALSE
  BY DEF FetchFails, Flush
<1>3. CASE MayRetry
  <2>1. Retry(n) /\ msg' = Flushed /\ quiet' = TRUE
    BY <1>3 DEF FetchFails
  <2> QED  BY <1>1, <1>2, <2>1, RetryKeeps
<1>4. CASE ~MayRetry
  <2>1. /\ NoRound(n) /\ UNCHANGED <<refs, quiet>>
        /\ msg' = [msg EXCEPT !.status = "error", !.text = {}]
    BY <1>4 DEF FetchFails
  <2>2. RefTypes' /\ quiet' \in BOOLEAN
    BY <1>2, <2>1 DEF RefTypes, refs, IInv, TypeOK
  <2>3. /\ msg' \in Messages /\ msg'.gen = msg.gen /\ msg'.status \notin Pending
        /\ \A m \in msg'.text : m <= tries /\ act[m].gen = msg.gen
    BY <1>1, <2>1, LastMessage
  <2> QED  BY <1>1, <1>2, <2>1, <2>2, <2>3, EndKeeps
<1> QED  BY <1>3, <1>4

(* The tools have run. *)
LEMMA ToolsDoneKeeps ==
    ASSUME IInv, NEW n \in Tries, ToolsDone(n)
    PROVE  IInv'
<1>1. Live(n) /\ act[n].at = "tools"
  BY DEF ToolsDone, Alive, Live, InFlight
<1>2. /\ StartRound(n, act[n].gen, act[n].round + 1)
      /\ UNCHANGED <<gen, requesting, refs, pending, timer, msg, quiet, mounted>>
  BY DEF ToolsDone
<1>3. Busy /\ pending = {} /\ ~forced /\ act[n].round < MaxToolRounds
  BY <1>1, LiveFacts DEF IInv, OneLive, LiveOK, Streams
<1>4. act[n].round + 1 \in 0..MaxToolRounds + 1 /\ act[n].round + 1 <= MaxToolRounds
  BY <1>1, <1>3, LiveFacts, PlaygroundAssumption
<1>5. RefTypes' /\ timer' \in BOOLEAN /\ quiet' \in BOOLEAN /\ (~quiet' => requesting')
  BY <1>2, <1>3 DEF RefTypes, refs, IInv, TypeOK, Shown
<1> QED  BY <1>1, <1>2, <1>3, <1>4, <1>5, RoundKeeps

(* What comes too late. *)
LEMMA TooLateKeeps ==
    ASSUME IInv, NEW n \in Tries, TooLate(n)
    PROVE  IInv'
<1>1. act[n].at \in {"fetch", "tools"} /\ ~Alive(n)
  BY DEF TooLate
<1>2. ~Live(n)
  BY <1>1 DEF Alive, IInv, OneLive, LiveOK, Live
<1> QED  BY <1>1, <1>2, DropKeeps DEF TooLate, Streams

(* Every step keeps the invariant. *)
LEMMA StepKeeps == IInv /\ [Next]_vars => IInv'
<1> SUFFICES ASSUME IInv, [Next]_vars PROVE IInv'
  OBVIOUS
<1>1. CASE Send
  BY <1>1, SendKeeps
<1>2. CASE Stop
  BY <1>2, StopGenerationKeeps DEF Stop
<1>3. CASE NewChat
  BY <1>3, StopGenerationKeeps DEF NewChat
<1>4. CASE Unmount
  BY <1>4, UnmountKeeps
<1>5. CASE FlushTimer
  BY <1>5, FlushTimerKeeps
<1>6. ASSUME NEW n \in Tries,
             \/ GotHeaders(n) \/ NoHeaders(n)
             \/ \E type \in {"reasoning", "content"} : Chunk(n, type)
             \/ ToolCallDelta(n) \/ StreamComplete(n) \/ StreamFails(n) \/ StreamCloses(n)
      PROVE  IInv'
  BY <1>6, HeadersKeep, NoHeadersKeeps, ChunkKeeps, ToolCallDeltaKeeps, StreamCompleteKeeps, StreamErrorKeeps,
     StreamClosesKeeps, CurrentIsLive DEF StreamFails
<1>7. ASSUME NEW n \in Tries,
             \/ \E text \in {{}, {n}}, tools \in BOOLEAN : Response(n, text, tools)
             \/ FetchFails(n) \/ ToolsDone(n) \/ TooLate(n)
      PROVE  IInv'
  BY <1>7, ResponseKeeps, FetchFailsKeeps, ToolsDoneKeeps, TooLateKeeps
<1>8. CASE UNCHANGED vars
  <2>1. /\ RoundTypes' /\ Core' /\ (Busy' <=> Busy)
    BY <1>8, SameRound DEF vars, stream
  <2>2. TypeOK' /\ Waiting' /\ OwnText'
    BY <1>8 DEF vars, IInv, TypeOK, Waiting, OwnText
  <2>3. Shown'
    BY <1>8, <2>1 DEF vars, IInv, Shown
  <2> QED  BY <2>1, <2>2, <2>3 DEF IInv, Core
<1> QED  BY <1>1, <1>2, <1>3, <1>4, <1>5, <1>6, <1>7, <1>8 DEF Next
-----------------------------------------------------------------------------
(* The inductive invariant of the playground's chat. *)
THEOREM PlaygroundInvariant == Spec => []IInv
<1>1. Init => IInv
  BY InitInv
<1>2. IInv /\ [Next]_vars => IInv'
  BY StepKeeps
<1> QED  BY <1>1, <1>2, PTL DEF Spec

(* The refs and states of the hooks keep their types, and no chain of tool rounds, retries and forced answers *)
(* exceeds the rounds that use-chat-handler.ts allows. *)
THEOREM TypeCorrect == Spec => []TypeOK
<1>1. IInv => TypeOK
  BY DEF IInv
<1> QED  BY <1>1, PlaygroundInvariant, PTL

(* No stream is left open behind the controller's back, whatever overtakes the wait for the headers. *)
THEOREM NoStreamLeaks == Spec => []NoLeakedStream
<1>1. IInv => NoLeakedStream
  BY DEF IInv, OneStream, NoLeakedStream, Streams
<1> QED  BY <1>1, PlaygroundInvariant, PTL

(* A message shows text of its own generation only. *)
THEOREM TextIsOwn == Spec => []OwnText
<1>1. IInv => OwnText
  BY DEF IInv
<1> QED  BY <1>1, PlaygroundInvariant, PTL

(* No message stays "loading" or "streaming" when nothing is under way any more, but for a stream that closed *)
(* without [DONE], and then Stop is on offer. *)
THEOREM SpinnerEnds == Spec => []NoEndlessSpinner
<1>1. IInv => NoEndlessSpinner
  <2> SUFFICES ASSUME IInv, mounted, msg.status \in Pending, ~Working PROVE ClosedSilently /\ IsGenerating
    BY DEF NoEndlessSpinner
  <2>1. PICK n \in Tries : Live(n)
    BY DEF IInv, Shown, Busy
  <2>2. act[n].at = "closed"
    BY <2>1 DEF Live, Working
  <2>3. source = n /\ source # None
    BY <2>2 DEF IInv, OneStream, Streams, None, Tries
  <2> QED  BY <2>2, <2>3 DEF IInv, OneStream, ClosedSilently, IsGenerating
<1> QED  BY <1>1, PlaygroundInvariant, PTL

(* While a generation works the interface is busy, unless an unstreamed round was retried silently. *)
THEOREM BusyWhenWorking == Spec => []BusyUnlessQuiet
<1>1. IInv => BusyUnlessQuiet
  BY DEF IInv, Shown, BusyUnlessQuiet, IsGenerating, Working, Busy, Live
<1> QED  BY <1>1, PlaygroundInvariant, PTL
=============================================================================
