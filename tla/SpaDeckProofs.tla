--------------------------- MODULE SpaDeckProofs ---------------------------
(***************************************************************************)
(* Proofs about the deck of cards: for any number of profiles, gestures    *)
(* and reloads the page settles on the right cards, and a user who clicks  *)
(* once and waits misses no profile.                                       *)
(***************************************************************************)
EXTENDS SpaDeck, FiniteSetTheorems, SequenceTheorems, TLAPS

(* What the arithmetic of the index needs to know of the variables. *)
Shape ==
    /\ profiles \in Seq(Profiles)
    /\ idx \in Nat
    /\ DOMAIN swipes = Gestures
    /\ DOMAIN loads = Loads
    /\ \A l \in Loads : loads[l].list \in Seq(Profiles)
    /\ orderly \in BOOLEAN

(* An orderly click is the only one that is open, and until it counts it   *)
(* is about the profile at the index.                                      *)
OneAtATime ==
    orderly =>
        /\ \A g, h \in Active : g = h
        /\ \A g \in Gestures :
              swipes[g].stage = "animating" =>
                  idx < Len(profiles) /\ swipes[g].target = profiles[idx + 1]

DeckInv == Shape /\ DeckShown /\ NoneIsSkipped /\ OneAtATime

-----------------------------------------------------------------------------
(* Rendering detaches cards and leaves the rest of the gestures alone. *)
LEMMA DetachKeeps ==
    ASSUME NEW hit, NEW s, NEW h \in Gestures, DOMAIN s = Gestures
    PROVE  /\ DOMAIN Detach(hit, s) = Gestures
           /\ Detach(hit, s)[h].stage = s[h].stage
           /\ Detach(hit, s)[h].target = s[h].target
BY DEF Detach

LEMMA InitDeck == Init => DeckInv
<1> SUFFICES ASSUME Init PROVE DeckInv
  OBVIOUS
<1> USE DEF Init
<1>1. Shape
  <2>1. <<>> \in Seq(Profiles)
    OBVIOUS
  <2>2. \A l \in Loads : loads[l].list = <<>>
    OBVIOUS
  <2>3. orderly \in BOOLEAN
    BY Zenon
  <2>4. DOMAIN swipes = Gestures /\ DOMAIN loads = Loads
    BY Zenon
  <2>5. QED
    BY <2>1, <2>2, <2>3, <2>4 DEF Shape
<1>2. Stack(profiles, idx) = <<>>
  BY DEF Stack, Shown
<1>3. QED
  BY <1>1, <1>2 DEF DeckInv, DeckShown, NoneIsSkipped, OneAtATime, Active, Outside

(* A list that the API may answer is a list of profiles. *)
LEMMA ServedLists ==
    ASSUME NEW l \in Loads, Shape, ServeProfiles(l), DeckAssumption
    PROVE  \A k \in Loads : loads'[k].list \in Seq(Profiles)
<1> DEFINE fresh == Profiles \ swiped
           n == IF Limit < Cardinality(fresh) THEN Limit ELSE Cardinality(fresh)
<1>1. n \in Nat
  <2>1. IsFiniteSet(fresh)
    BY FS_Subset DEF DeckAssumption
  <2>2. QED
    BY <2>1, FS_CardinalityType DEF DeckAssumption
<1>2. PICK list \in Injection(1 .. n, fresh) :
         loads' = [loads EXCEPT ![l] = [stage |-> "answered", list |-> list]]
  BY DEF ServeProfiles
<1>3. list \in [1 .. n -> Profiles]
  BY <1>2 DEF Injection
<1>4. list \in Seq(Profiles)
  <2> HIDE DEF n
  <2> QED BY <1>1, <1>3
<1>5. QED
  BY <1>2, <1>4 DEF Shape

LEMMA ShapeKept ==
    ASSUME Shape, [Next]_deckVars, DeckAssumption
    PROVE  Shape'
<1> USE DEF Shape
<1>1. ASSUME NEW g \in Gestures, Click(g) \/ Drag(g)
      PROVE  Shape'
  BY <1>1 DEF Click, Drag
<1>2. ASSUME NEW g \in Gestures, ClickOnNothing(g)
      PROVE  Shape'
  BY <1>2 DEF ClickOnNothing
<1>3. ASSUME NEW g \in Gestures, AnimationEnds(g)
      PROVE  Shape'
  BY <1>3 DEF AnimationEnds, Detach
<1>4. ASSUME NEW g \in Gestures, Serve(g) \/ RequestFails(g) \/ Answered(g)
      PROVE  Shape'
  BY <1>4 DEF Serve, RequestFails, Answered, Render, Detach
<1>5. ASSUME NEW l \in Loads, AskProfiles(l)
      PROVE  Shape'
  BY <1>5 DEF AskProfiles
<1>6. ASSUME NEW l \in Loads, ServeProfiles(l)
      PROVE  Shape'
  BY <1>6, ServedLists DEF ServeProfiles
<1>7. ASSUME NEW l \in Loads, ApplyProfiles(l)
      PROVE  Shape'
  <2>1. \A k \in Loads : loads'[k].list \in Seq(Profiles)
    BY <1>7 DEF ApplyProfiles
  <2>2. QED
    BY <1>7, <2>1 DEF ApplyProfiles, Render, Detach
<1>8. ASSUME NEW l \in Loads, LoadFails(l)
      PROVE  Shape'
  BY <1>8 DEF LoadFails
<1>9. CASE UNCHANGED deckVars
  BY <1>9 DEF deckVars
<1>10. QED
  BY <1>1, <1>2, <1>3, <1>4, <1>5, <1>6, <1>7, <1>8, <1>9 DEF Next

-----------------------------------------------------------------------------
(* A step that moves no card, no list and no index, and ends no request,   *)
(* leaves a page that is right as it is.                                   *)
LEMMA PageKept ==
    ASSUME DeckShown, UNCHANGED <<profiles, idx, cards, buttons>>,
           \A g \in Active : swipes[g].stage # "animating" =>
               g \in Active' /\ swipes'[g].stage # "animating"
    PROVE  DeckShown'
<1> SUFFICES ASSUME (\A g \in Active : swipes[g].stage = "animating")'
             PROVE  /\ cards = Stack(profiles, idx)
                    /\ profiles # <<>> => buttons = (cards # <<>>)
  BY Zenon DEF DeckShown
<1>1. \A g \in Active : swipes[g].stage = "animating"
  BY Zenon
<1>2. QED
  BY <1>1, Zenon DEF DeckShown

(* After a rendering it is right. *)
LEMMA PageRendered ==
    ASSUME NEW list, NEW i, NEW s, Render(list, i, s),
           profiles' = list, idx' = i
    PROVE  DeckShown'
<1>1. cards' = Stack(profiles', idx') /\ buttons' = (cards' # <<>>)
  BY DEF Render
<1>2. QED
  BY <1>1 DEF DeckShown

(* While a request is open nothing is claimed of it. *)
LEMMA PageOpen ==
    ASSUME NEW g \in Gestures, swipes'[g].stage \in {"sending", "answered"}
    PROVE  DeckShown'
BY DEF DeckShown, Active

LEMMA DeckShownKept ==
    ASSUME DeckInv, [Next]_deckVars
    PROVE  DeckShown'
<1> USE DEF DeckInv, Shape
<1>1. ASSUME NEW g \in Gestures, Click(g) \/ Drag(g)
      PROVE  DeckShown'
  <2>1. UNCHANGED <<profiles, idx, cards, buttons>> /\ IsNext(g, swipes)
    BY <1>1 DEF Click, Drag
  <2>2. \A h \in Active : swipes'[h] = swipes[h]
    BY <1>1, <2>1 DEF Click, Drag, IsNext, Active
  <2>3. QED
    BY <2>1, <2>2, PageKept DEF Active
<1>2. ASSUME NEW g \in Gestures, ClickOnNothing(g)
      PROVE  DeckShown'
  BY <1>2, PageOpen DEF ClickOnNothing
<1>3. ASSUME NEW g \in Gestures, AnimationEnds(g)
      PROVE  DeckShown'
  <2> DEFINE s == [swipes EXCEPT ![g].stage = "sending"]
  <2>1. swipes'[g].stage = s[g].stage
    <3>1. swipes' = Detach({swipes[g].card}, s)
      BY <1>3 DEF AnimationEnds
    <3>2. DOMAIN s = Gestures
      OBVIOUS
    <3> HIDE DEF s
    <3>3. QED
      BY <3>1, <3>2, DetachKeeps
  <2>2. s[g].stage = "sending"
    OBVIOUS
  <2>3. QED
    BY <2>1, <2>2, PageOpen
<1>4. ASSUME NEW g \in Gestures, Serve(g) \/ RequestFails(g)
      PROVE  DeckShown'
  BY <1>4, PageOpen DEF Serve, RequestFails, Outside
<1>5. ASSUME NEW g \in Gestures, Answered(g)
      PROVE  DeckShown'
  BY <1>5, PageRendered DEF Answered
<1>6. ASSUME NEW l \in Loads, AskProfiles(l) \/ ServeProfiles(l) \/ LoadFails(l)
      PROVE  DeckShown'
  <2>1. UNCHANGED <<profiles, idx, cards, buttons, swipes>>
    BY <1>6 DEF AskProfiles, ServeProfiles, LoadFails
  <2>2. QED
    BY <2>1, PageKept DEF Active
<1>7. ASSUME NEW l \in Loads, ApplyProfiles(l)
      PROVE  DeckShown'
  BY <1>7, PageRendered DEF ApplyProfiles
<1>8. CASE UNCHANGED deckVars
  BY <1>8, PageKept DEF deckVars, Active
<1>9. QED
  BY <1>1, <1>2, <1>3, <1>4, <1>5, <1>6, <1>7, <1>8 DEF Next

-----------------------------------------------------------------------------
Orderly == NoneIsSkipped /\ OneAtATime

(* A step that begins no gesture and counts none. *)
LEMMA OrderKept ==
    ASSUME Orderly, UNCHANGED <<profiles, idx, asked>>, orderly' => orderly,
           \A h \in Gestures : h \in Active' => h \in Active,
           \A h \in Gestures : swipes'[h].stage = "animating" =>
               swipes[h].stage = "animating" /\ swipes'[h].target = swipes[h].target
    PROVE  Orderly'
<1>1. NoneIsSkipped'
  BY DEF Orderly, NoneIsSkipped
<1>2. OneAtATime'
  BY DEF Orderly, OneAtATime, Active
<1>3. QED
  BY <1>1, <1>2 DEF Orderly

LEMMA OrderlyKept ==
    ASSUME DeckInv, [Next]_deckVars
    PROVE  Orderly'
<1> USE DEF DeckInv, Shape
<1>0. Orderly
  BY DEF Orderly
<1>1. ASSUME NEW g \in Gestures, Click(g)
      PROVE  Orderly'
  <2>1. UNCHANGED <<profiles, idx, asked>> /\ orderly' = (orderly /\ Active = {})
    BY <1>1 DEF Click
  <2>2. /\ idx < Len(profiles)
        /\ swipes'[g].target = profiles[idx + 1]
        /\ \A h \in Gestures : h # g => swipes'[h] = swipes[h]
    BY <1>1 DEF Click
  <2>3. NoneIsSkipped'
    BY <2>1 DEF NoneIsSkipped
  <2>4. orderly' => \A h \in Active' : h = g
    BY <2>1, <2>2 DEF Active
  <2>5. OneAtATime'
    BY <2>1, <2>2, <2>4 DEF OneAtATime, Active
  <2>6. QED
    BY <2>3, <2>5 DEF Orderly
<1>2. ASSUME NEW g \in Gestures, ClickOnNothing(g)
      PROVE  Orderly'
  <2>1. /\ UNCHANGED profiles
        /\ idx < Len(profiles)
        /\ idx' = idx + 1
        /\ asked' = asked \cup {profiles[idx + 1]}
        /\ orderly' = (orderly /\ Active = {})
    BY <1>2 DEF ClickOnNothing
  <2>2. /\ swipes'[g].stage = "sending"
        /\ \A h \in Gestures : h # g => swipes'[h] = swipes[h]
    BY <1>2 DEF ClickOnNothing
  <2>3. NoneIsSkipped'
    BY <2>1 DEF NoneIsSkipped
  <2>4. orderly' => \A h \in Active' : h = g
    BY <2>1, <2>2 DEF Active
  <2>5. OneAtATime'
    BY <2>1, <2>2, <2>4 DEF OneAtATime, Active
  <2>6. QED
    BY <2>3, <2>5 DEF Orderly
<1>3. ASSUME NEW g \in Gestures, Drag(g)
      PROVE  Orderly'
  BY <1>3 DEF Drag, Orderly, NoneIsSkipped, OneAtATime
<1>4. ASSUME NEW g \in Gestures, AnimationEnds(g)
      PROVE  Orderly'
  <2> DEFINE s == [swipes EXCEPT ![g].stage = "sending"]
  <2>1. /\ UNCHANGED <<profiles, orderly>>
        /\ idx' = idx + 1
        /\ asked' = asked \cup {swipes[g].target}
        /\ swipes[g].stage = "animating"
        /\ swipes' = Detach({swipes[g].card}, s)
    BY <1>4 DEF AnimationEnds
  <2>2. /\ DOMAIN s = Gestures
        /\ s[g].stage = "sending"
        /\ \A h \in Gestures : h # g => s[h] = swipes[h]
    OBVIOUS
  <2>3. \A h \in Gestures : swipes'[h].stage = s[h].stage
    <3> HIDE DEF s
    <3> QED BY <2>1, <2>2, DetachKeeps
  <2> HIDE DEF s
  <2>4. CASE orderly
    <3>1. /\ \A h \in Active : h = g
          /\ idx < Len(profiles)
          /\ swipes[g].target = profiles[idx + 1]
      BY <2>1, <2>4 DEF OneAtATime, Active
    <3>2. NoneIsSkipped'
      BY <2>1, <2>4, <3>1 DEF NoneIsSkipped
    <3>3. \A h \in Active' : h = g
      BY <2>2, <2>3, <3>1 DEF Active
    <3>4. OneAtATime'
      BY <2>2, <2>3, <3>3 DEF OneAtATime, Active
    <3>5. QED
      BY <3>2, <3>4 DEF Orderly
  <2>5. CASE ~orderly
    BY <2>1, <2>5 DEF Orderly, NoneIsSkipped, OneAtATime
  <2>6. QED
    BY <2>4, <2>5
<1>5. ASSUME NEW g \in Gestures, Serve(g) \/ RequestFails(g)
      PROVE  Orderly'
  <2>1. UNCHANGED <<profiles, idx, asked, orderly>>
    BY <1>5 DEF Serve, RequestFails
  <2>2. /\ g \in Active
        /\ swipes'[g].stage = "answered"
        /\ \A h \in Gestures : h # g => swipes'[h] = swipes[h]
    BY <1>5 DEF Serve, RequestFails, Outside, Active
  <2>3. \A h \in Gestures : h \in Active' => h \in Active
    BY <2>2 DEF Active
  <2>4. QED
    BY <1>0, <2>1, <2>2, <2>3, OrderKept
<1>6. ASSUME NEW g \in Gestures, Answered(g)
      PROVE  Orderly'
  <2> DEFINE s == [swipes EXCEPT ![g] = Outside("done")]
  <2>1. UNCHANGED <<profiles, idx, asked, orderly>> /\ swipes' = Detach(1 .. Shown, s)
    BY <1>6 DEF Answered, Render
  <2>2. /\ DOMAIN s = Gestures
        /\ s[g].stage = "done"
        /\ \A h \in Gestures : h # g => s[h] = swipes[h]
    BY DEF Outside
  <2>3. \A h \in Gestures : /\ swipes'[h].stage = s[h].stage
                            /\ swipes'[h].target = s[h].target
    <3> HIDE DEF s
    <3> QED BY <2>1, <2>2, DetachKeeps
  <2> HIDE DEF s
  <2>4. \A h \in Gestures : h \in Active' => h \in Active
    BY <2>2, <2>3 DEF Active
  <2>5. QED
    BY <1>0, <2>1, <2>2, <2>3, <2>4, OrderKept
<1>7. ASSUME NEW l \in Loads, AskProfiles(l) \/ ServeProfiles(l) \/ LoadFails(l)
      PROVE  Orderly'
  <2>1. UNCHANGED <<profiles, idx, asked, orderly, swipes>>
    BY <1>7 DEF AskProfiles, ServeProfiles, LoadFails
  <2>2. QED
    BY <1>0, <2>1, OrderKept DEF Active
<1>8. ASSUME NEW l \in Loads, ApplyProfiles(l)
      PROVE  Orderly'
  <2>1. /\ profiles' = loads[l].list
        /\ idx' = 0
        /\ orderly' = (Active = {})
        /\ swipes' = Detach(1 .. Shown, swipes)
    BY <1>8 DEF ApplyProfiles, Render
  <2>2. \A h \in Gestures : swipes'[h].stage = swipes[h].stage
    BY <2>1, DetachKeeps
  <2>3. NoneIsSkipped'
    BY <2>1 DEF NoneIsSkipped
  <2>4. orderly' => \A h \in Gestures : h \notin Active' /\ swipes'[h].stage # "animating"
    BY <2>1, <2>2 DEF Active
  <2>5. OneAtATime'
    BY <2>4 DEF OneAtATime, Active
  <2>6. QED
    BY <2>3, <2>5 DEF Orderly
<1>9. CASE UNCHANGED deckVars
  BY <1>0, <1>9, OrderKept DEF deckVars, Active
<1>10. QED
  BY <1>1, <1>2, <1>3, <1>4, <1>5, <1>6, <1>7, <1>8, <1>9 DEF Next

-----------------------------------------------------------------------------
LEMMA DeckInductive ==
    ASSUME DeckInv, [Next]_deckVars
    PROVE  DeckInv'
<1>1. Shape' /\ DeckShown' /\ Orderly'
  BY DeckAssumption, ShapeKept, DeckShownKept, OrderlyKept DEF DeckInv
<1>2. QED
  BY <1>1 DEF DeckInv, Orderly

(* However gestures, answers and reloads overlap, when no request is open  *)
(* the page shows the next cards of its list (app.js:201-225).             *)
THEOREM PageSettles == Spec => []DeckShown
<1>1. DeckInv => DeckShown
  BY DEF DeckInv
<1>2. QED
  BY InitDeck, DeckInductive, <1>1, PTL DEF Spec

(* Clicking once and waiting for the answer misses no profile of a list    *)
(* (app.js:300-312).                                                       *)
THEOREM PatienceMissesNobody == Spec => []NoneIsSkipped
<1>1. DeckInv => NoneIsSkipped
  BY DEF DeckInv
<1>2. QED
  BY InitDeck, DeckInductive, <1>1, PTL DEF Spec
-----------------------------------------------------------------------------
(* The types.  What they need beyond themselves: the request of a gesture  *)
(* is counted among those that were sent.                                  *)
SentAreAsked ==
    \A g \in Gestures :
        swipes[g].stage = "sending" => swipes[g].target \in asked

DeckTypes == TypeOK /\ SentAreAsked

(* The cards of a list are at most Shown, well numbered. *)
LEMMA StackType ==
    ASSUME NEW list \in Seq(Profiles), NEW i \in Nat
    PROVE  Stack(list, i) \in Seq(Card) /\ Len(Stack(list, i)) <= Shown
<1> DEFINE last == IF i + Shown < Len(list) THEN i + Shown ELSE Len(list)
           remaining == SubSeq(list, i + 1, last)
           n == Len(remaining)
           card(k) == [profile |-> Reverse(remaining)[k],
                       zIndex |-> n + 1 - k, draggable |-> k = 1]
<1>1. /\ remaining \in Seq(Profiles)
      /\ n <= Shown
  <2>1. Len(list) \in Nat /\ last \in Int /\ last <= Len(list) /\ last - i <= Shown
    BY DEF Shown
  <2>2. \A k \in i + 1 .. last : list[k] \in Profiles
    BY <2>1
  <2>3. remaining \in Seq(Profiles) /\ n = IF i + 1 <= last THEN last - i ELSE 0
    BY <2>1, <2>2, SubSeqProperties
  <2>4. QED
    BY <2>1, <2>3 DEF Shown
<1>2. n \in Nat /\ remaining \in [1 .. n -> Profiles]
  BY <1>1, LenProperties
<1> HIDE DEF remaining, last
<1>3. ASSUME NEW k \in 1 .. n
      PROVE  card(k) \in Card
  <2>1. Reverse(remaining)[k] = remaining[(n - k) + 1]
    BY <1>2 DEF Reverse
  <2>2. (n - k) + 1 \in 1 .. n /\ n + 1 - k \in 1 .. Shown
    BY <1>1, <1>2 DEF Shown
  <2>3. QED
    BY <1>2, <2>1, <2>2 DEF Card
<1>4. Stack(list, i) = [k \in 1 .. n |-> card(k)]
  BY DEF Stack, remaining, last
<1> HIDE DEF card, n
<1>5. QED
  BY <1>1, <1>2, <1>3, <1>4 DEF n

(* A card that goes leaves the others where they can be found. *)
LEMMA RemoveAtKeeps ==
    ASSUME NEW S, NEW s \in Seq(S), NEW i \in DOMAIN s
    PROVE  /\ RemoveAt(s, i) \in Seq(S)
           /\ Len(RemoveAt(s, i)) <= Len(s)
           /\ \A k \in DOMAIN s \ {i} :
                 \E j \in DOMAIN RemoveAt(s, i) : RemoveAt(s, i)[j] = s[k]
<1> DEFINE front == SubSeq(s, 1, i - 1)
           back == SubSeq(s, i + 1, Len(s))
<1>0. Len(s) \in Nat /\ DOMAIN s = 1 .. Len(s) /\ \A k \in 1 .. Len(s) : s[k] \in S
  OBVIOUS
<1>1. /\ front \in Seq(S)
      /\ Len(front) = i - 1
      /\ \A k \in 1 .. i - 1 : front[k] = s[k]
  BY <1>0, SubSeqProperties
<1>2. /\ back \in Seq(S)
      /\ Len(back) = Len(s) - i
      /\ \A k \in 1 .. Len(s) - i : back[k] = s[i + k]
  BY <1>0, SubSeqProperties
<1> HIDE DEF front, back
<1> DEFINE rest == front \o back
<1>3. RemoveAt(s, i) = rest
  BY DEF RemoveAt, front, back
<1>4. /\ rest \in Seq(S)
      /\ Len(rest) = Len(front) + Len(back)
      /\ \A k \in 1 .. Len(front) + Len(back) :
            rest[k] = IF k <= Len(front) THEN front[k] ELSE back[k - Len(front)]
  BY <1>1, <1>2, ConcatProperties
<1> HIDE DEF rest
<1>5. /\ Len(rest) = Len(s) - 1
      /\ DOMAIN rest = 1 .. Len(s) - 1
      /\ \A k \in 1 .. i - 1 : rest[k] = s[k]
      /\ \A k \in i .. Len(s) - 1 : rest[k] = s[k + 1]
  <2>1. i \in 1 .. Len(s) /\ Len(front) + Len(back) = Len(s) - 1
    BY <1>0, <1>1, <1>2
  <2>2. Len(rest) = Len(s) - 1 /\ DOMAIN rest = 1 .. Len(s) - 1
    <3>1. DOMAIN rest = 1 .. Len(rest)
      BY <1>4, LenProperties
    <3>2. QED
      BY <1>4, <2>1, <3>1
  <2>3. ASSUME NEW k \in 1 .. i - 1
        PROVE  rest[k] = s[k]
    BY <1>0, <1>1, <1>4, <2>1
  <2>4. ASSUME NEW k \in i .. Len(s) - 1
        PROVE  rest[k] = s[k + 1]
    <3>1. k - (i - 1) \in 1 .. Len(s) - i /\ k \in 1 .. Len(s) - 1 /\ ~(k <= i - 1)
      BY <1>0, <2>1
    <3>2. rest[k] = back[k - (i - 1)]
      BY <1>1, <1>4, <2>1, <3>1
    <3>3. back[k - (i - 1)] = s[i + (k - (i - 1))]
      BY <1>2, <3>1
    <3>4. i + (k - (i - 1)) = k + 1
      BY <1>0, <2>1
    <3>5. QED
      BY <3>2, <3>3, <3>4
  <2>5. QED
    BY <2>2, <2>3, <2>4
<1>6. ASSUME NEW k \in DOMAIN s \ {i}
      PROVE  \E j \in DOMAIN rest : rest[j] = s[k]
  <2>1. CASE k < i
    BY <1>0, <1>5, <2>1
  <2>2. CASE k > i
    <3>1. k - 1 \in i .. Len(s) - 1 /\ (k - 1) + 1 = k
      BY <1>0, <2>2
    <3>2. QED
      BY <1>0, <1>5, <3>1
  <2>3. QED
    BY <1>0, <2>1, <2>2
<1>7. QED
  BY <1>0, <1>3, <1>4, <1>5, <1>6

(* After a rendering no gesture holds a card, and nothing else of it has   *)
(* changed.                                                                *)
LEMMA RenderedType ==
    ASSUME NEW list \in Seq(Profiles), NEW i \in Nat,
           NEW s \in [Gestures -> Swipe], Render(list, i, s)
    PROVE  /\ cards' \in Seq(Card)
           /\ Len(cards') <= Shown
           /\ buttons' \in BOOLEAN
           /\ swipes' \in [Gestures -> Swipe]
           /\ \A h \in Gestures : /\ swipes'[h].card = Detached
                                  /\ swipes'[h].stage = s[h].stage
                                  /\ swipes'[h].target = s[h].target
<1>1. cards' \in Seq(Card) /\ Len(cards') <= Shown
  BY StackType DEF Render
<1>2. buttons' \in BOOLEAN
  BY DEF Render
<1>3. swipes' = [h \in Gestures |->
                   IF s[h].card \in 1 .. Shown THEN [s[h] EXCEPT !.card = Detached] ELSE s[h]]
  BY DEF Render, Detach
<1>4. ASSUME NEW h \in Gestures
      PROVE  /\ swipes'[h] \in Swipe
             /\ swipes'[h].card = Detached
             /\ swipes'[h].stage = s[h].stage
             /\ swipes'[h].target = s[h].target
  <2>1. s[h] \in Swipe
    OBVIOUS
  <2>2. CASE s[h].card \in 1 .. Shown
    BY <1>3, <2>1, <2>2 DEF Swipe
  <2>3. CASE s[h].card \notin 1 .. Shown
    BY <1>3, <2>1, <2>3 DEF Swipe
  <2>4. QED
    BY <2>2, <2>3
<1>5. QED
  BY <1>1, <1>2, <1>3, <1>4

(* What the types say of a gesture and of the cards. *)
GestureRight(w) ==
    /\ w \in Swipe
    /\ w.stage \in {"animating", "sending"} => w.target \in Profiles
    /\ w.stage = "sending" => w.target \in asked
    /\ w.card # Detached =>
          w.stage = "animating" /\ \E k \in DOMAIN cards : cards[k].zIndex = w.card

(* The types, gesture by gesture. *)
LEMMA TypesByGesture ==
    DeckTypes <=>
        /\ profiles \in Seq(Profiles)
        /\ idx \in Nat
        /\ cards \in Seq(Card)
        /\ Len(cards) <= Shown
        /\ buttons \in BOOLEAN
        /\ DOMAIN swipes = Gestures /\ swipes = [g \in Gestures |-> swipes[g]]
        /\ \A g \in Gestures : GestureRight(swipes[g])
        /\ loads \in [Loads -> Load]
        /\ swiped \subseteq asked
        /\ asked \subseteq Profiles
        /\ orderly \in BOOLEAN
<1>1. swipes \in [Gestures -> Swipe] <=>
        /\ DOMAIN swipes = Gestures /\ swipes = [g \in Gestures |-> swipes[g]]
        /\ \A g \in Gestures : swipes[g] \in Swipe
  OBVIOUS
<1>2. QED
  BY <1>1 DEF DeckTypes, TypeOK, SentAreAsked, GestureRight

LEMMA InitTypes == Init => DeckTypes
<1> SUFFICES ASSUME Init PROVE DeckTypes
  OBVIOUS
<1>1. \A g \in Gestures : swipes[g] = Outside("unused") /\ GestureRight(swipes[g])
  BY DEF Init, GestureRight, Outside, Swipe, Detached
<1>2. loads \in [Loads -> Load]
  <2>1. [stage |-> "unused", list |-> <<>>] \in Load
    BY DEF Load
  <2>2. QED
    BY <2>1 DEF Init
<1>3. <<>> \in Seq(Profiles) /\ <<>> \in Seq(Card) /\ Len(<<>>) <= Shown
  BY DEF Shown
<1>4. QED
  BY <1>1, <1>2, <1>3, TypesByGesture DEF Init

LEMMA TypesKept ==
    ASSUME DeckTypes, [Next]_deckVars, DeckAssumption
    PROVE  DeckTypes'
<1>a. /\ profiles \in Seq(Profiles) /\ idx \in Nat
      /\ cards \in Seq(Card) /\ Len(cards) <= Shown
      /\ buttons \in BOOLEAN /\ orderly \in BOOLEAN
      /\ swipes \in [Gestures -> Swipe] /\ loads \in [Loads -> Load]
      /\ swiped \subseteq asked /\ asked \subseteq Profiles
  BY DEF DeckTypes, TypeOK
<1>b. \A g \in Gestures : GestureRight(swipes[g])
  BY TypesByGesture
<1>c. \A l \in Loads : loads[l] \in Load /\ loads[l].list \in Seq(Profiles)
  BY <1>a DEF Load
<1>1. ASSUME NEW g \in Gestures, Click(g)
      PROVE  DeckTypes'
  <2>1. Head(cards) \in Card /\ 1 \in DOMAIN cards /\ Head(cards) = cards[1]
    BY <1>a, <1>1 DEF Click
  <2>2. profiles[idx + 1] \in Profiles
    BY <1>a, <1>1 DEF Click
  <2>3. /\ swipes' \in [Gestures -> Swipe]
        /\ swipes'[g] = [stage |-> "animating", target |-> profiles[idx + 1],
                         card |-> Head(cards).zIndex]
        /\ \A h \in Gestures \ {g} : swipes'[h] = swipes[h]
    BY <1>a, <1>1, <2>1, <2>2 DEF Click, Swipe, Card
  <2>4. UNCHANGED <<profiles, idx, cards, buttons, loads, swiped, asked>>
        /\ orderly' \in BOOLEAN
    BY <1>1 DEF Click
  <2>5. ASSUME NEW h \in Gestures
        PROVE  GestureRight(swipes[h])'
    BY <1>b, <2>1, <2>2, <2>3, <2>4 DEF GestureRight
  <2>6. QED
    BY <1>a, <2>3, <2>4, <2>5 DEF DeckTypes, TypeOK, SentAreAsked, GestureRight
<1>2. ASSUME NEW g \in Gestures, ClickOnNothing(g)
      PROVE  DeckTypes'
  <2>1. profiles[idx + 1] \in Profiles
    BY <1>a, <1>2 DEF ClickOnNothing
  <2>2. /\ swipes' \in [Gestures -> Swipe]
        /\ swipes'[g] = [stage |-> "sending", target |-> profiles[idx + 1],
                         card |-> Detached]
        /\ \A h \in Gestures \ {g} : swipes'[h] = swipes[h]
    BY <1>a, <1>2, <2>1 DEF ClickOnNothing, Swipe
  <2>3. UNCHANGED <<profiles, cards, buttons, loads, swiped>> /\ idx' \in Nat
        /\ asked' = asked \cup {profiles[idx + 1]} /\ orderly' \in BOOLEAN
    BY <1>a, <1>2 DEF ClickOnNothing
  <2>4. ASSUME NEW h \in Gestures
        PROVE  GestureRight(swipes[h])'
    BY <1>b, <2>1, <2>2, <2>3 DEF GestureRight
  <2>5. QED
    BY <1>a, <2>1, <2>2, <2>3, <2>4 DEF DeckTypes, TypeOK, SentAreAsked, GestureRight
<1>3. ASSUME NEW g \in Gestures, Drag(g)
      PROVE  DeckTypes'
  <2>1. Head(cards) \in Card /\ 1 \in DOMAIN cards /\ Head(cards) = cards[1]
    BY <1>a, <1>3 DEF Drag
  <2>2. /\ swipes' \in [Gestures -> Swipe]
        /\ swipes'[g] = [stage |-> "animating", target |-> Head(cards).profile,
                         card |-> Head(cards).zIndex]
        /\ \A h \in Gestures \ {g} : swipes'[h] = swipes[h]
    BY <1>a, <1>3, <2>1 DEF Drag, Swipe, Card
  <2>3. UNCHANGED <<profiles, idx, cards, buttons, loads, swiped, asked>>
        /\ orderly' \in BOOLEAN
    BY <1>3 DEF Drag
  <2>4. ASSUME NEW h \in Gestures
        PROVE  GestureRight(swipes[h])'
    BY <1>b, <2>1, <2>2, <2>3 DEF GestureRight, Card
  <2>5. QED
    BY <1>a, <2>2, <2>3, <2>4 DEF DeckTypes, TypeOK, SentAreAsked, GestureRight
<1>4. ASSUME NEW g \in Gestures, AnimationEnds(g)
      PROVE  DeckTypes'
  <2> DEFINE card == swipes[g].card
             s == [swipes EXCEPT ![g].stage = "sending"]
  <2>1. /\ UNCHANGED <<profiles, buttons, loads, swiped, orderly>>
        /\ idx' \in Nat
        /\ asked' = asked \cup {swipes[g].target}
        /\ swipes[g].stage = "animating" /\ swipes[g].target \in Profiles
        /\ swipes' = Detach({card}, s)
    BY <1>a, <1>b, <1>4 DEF AnimationEnds, GestureRight
  <2>2. /\ cards' \in Seq(Card)
        /\ Len(cards') <= Shown
        /\ \A k \in DOMAIN cards :
              \/ cards[k].zIndex = card /\ card # Detached
              \/ \E j \in DOMAIN cards' : cards'[j] = cards[k]
    <3>1. CASE card = Detached /\ UNCHANGED cards
      BY <1>a, <3>1
    <3>2. ASSUME NEW i \in DOMAIN cards, cards[i].zIndex = card,
                 cards' = RemoveAt(cards, i)
          PROVE  /\ cards' \in Seq(Card)
                 /\ Len(cards') <= Shown
                 /\ \A k \in DOMAIN cards :
                       \/ cards[k].zIndex = card /\ card # Detached
                       \/ \E j \in DOMAIN cards' : cards'[j] = cards[k]
      <4>1. cards[i] \in Card
        BY <1>a
      <4>2. card # Detached
        BY <3>2, <4>1 DEF Card, Detached
      <4>3. /\ cards' \in Seq(Card)
            /\ Len(cards') <= Len(cards)
            /\ \A k \in DOMAIN cards \ {i} :
                  \E j \in DOMAIN cards' : cards'[j] = cards[k]
        BY <1>a, <3>2, RemoveAtKeeps
      <4>4. Len(cards') \in Nat /\ Len(cards) \in Nat
        BY <1>a, <4>3, LenProperties
      <4>5. QED
        BY <1>a, <3>2, <4>2, <4>3, <4>4 DEF Shown
    <3>3. QED
      BY <1>4, <3>1, <3>2 DEF AnimationEnds
  <2>3. ASSUME NEW h \in Gestures
        PROVE  /\ swipes'[h] \in Swipe
               /\ swipes'[h].stage = IF h = g THEN "sending" ELSE swipes[h].stage
               /\ swipes'[h].target = swipes[h].target
               /\ swipes'[h].card = IF swipes[h].card = card THEN Detached
                                                            ELSE swipes[h].card
    <3>1. /\ s[h] \in Swipe
          /\ s[h].stage = IF h = g THEN "sending" ELSE swipes[h].stage
          /\ s[h].target = swipes[h].target
          /\ s[h].card = swipes[h].card
      BY <1>a DEF Swipe
    <3>2. swipes'[h] = IF s[h].card = card THEN [s[h] EXCEPT !.card = Detached] ELSE s[h]
      BY <2>1 DEF Detach
    <3> HIDE DEF s
    <3>3. QED
      BY <3>1, <3>2 DEF Swipe
  <2>4. swipes' \in [Gestures -> Swipe]
    <3>1. swipes' = [h \in Gestures |-> swipes'[h]]
      BY <2>1 DEF Detach
    <3>2. QED
      BY <2>3, <3>1
  <2>5. ASSUME NEW h \in Gestures
        PROVE  GestureRight(swipes[h])'
    <3>1. /\ swipes'[h].stage \in {"animating", "sending"} => swipes'[h].target \in Profiles
          /\ swipes'[h].stage = "sending" => swipes'[h].target \in asked'
      BY <1>b, <2>1, <2>3 DEF GestureRight
    <3>2. ASSUME swipes'[h].card # Detached
          PROVE  /\ swipes'[h].stage = "animating"
                 /\ \E j \in DOMAIN cards' : cards'[j].zIndex = swipes'[h].card
      <4>1. /\ swipes[h].card # card
            /\ swipes'[h].card = swipes[h].card
            /\ h # g
        BY <2>3, <3>2
      <4>2. PICK k \in DOMAIN cards : cards[k].zIndex = swipes[h].card
        BY <1>b, <3>2, <4>1 DEF GestureRight
      <4>3. \E j \in DOMAIN cards' : cards'[j] = cards[k]
        BY <2>2, <4>1, <4>2
      <4>4. swipes[h].stage = "animating"
        BY <1>b, <3>2, <4>1 DEF GestureRight
      <4>5. QED
        BY <2>3, <4>1, <4>2, <4>3, <4>4
    <3>3. QED
      BY <2>3, <3>1, <3>2 DEF GestureRight
  <2>6. QED
    BY <1>a, <2>1, <2>2, <2>4, <2>5 DEF DeckTypes, TypeOK, SentAreAsked, GestureRight
<1>5. ASSUME NEW g \in Gestures, Serve(g) \/ RequestFails(g)
      PROVE  DeckTypes'
  <2>1. /\ UNCHANGED <<profiles, idx, cards, buttons, loads, asked, orderly>>
        /\ swiped' \subseteq asked
    BY <1>a, <1>5, <1>b DEF Serve, RequestFails, GestureRight
  <2>2. /\ swipes' \in [Gestures -> Swipe]
        /\ swipes'[g] = Outside("answered")
        /\ \A h \in Gestures \ {g} : swipes'[h] = swipes[h]
    <3>1. swipes' = [swipes EXCEPT ![g] = Outside("answered")]
      BY <1>5 DEF Serve, RequestFails
    <3>2. Outside("answered") \in Swipe
      BY DEF Swipe, Outside
    <3>3. QED
      BY <1>a, <3>1, <3>2
  <2>3. ASSUME NEW h \in Gestures
        PROVE  GestureRight(swipes[h])'
    BY <1>b, <2>1, <2>2 DEF GestureRight, Outside
  <2>4. QED
    BY <1>a, <2>1, <2>2, <2>3 DEF DeckTypes, TypeOK, SentAreAsked, GestureRight
<1>6. ASSUME NEW g \in Gestures, Answered(g)
      PROVE  DeckTypes'
  <2> DEFINE s == [swipes EXCEPT ![g] = Outside("done")]
  <2>1. /\ s \in [Gestures -> Swipe]
        /\ s[g] = Outside("done")
        /\ \A h \in Gestures \ {g} : s[h] = swipes[h]
    BY <1>a DEF Swipe, Outside
  <2>2. Render(profiles, idx, s) /\ UNCHANGED <<profiles, idx, loads, swiped, asked, orderly>>
    BY <1>6 DEF Answered
  <2> HIDE DEF s
  <2>3. /\ cards' \in Seq(Card)
        /\ Len(cards') <= Shown
        /\ buttons' \in BOOLEAN
        /\ swipes' \in [Gestures -> Swipe]
        /\ \A h \in Gestures : /\ swipes'[h].card = Detached
                               /\ swipes'[h].stage = s[h].stage
                               /\ swipes'[h].target = s[h].target
    BY <1>a, <2>1, <2>2, RenderedType
  <2>4. ASSUME NEW h \in Gestures
        PROVE  GestureRight(swipes[h])'
    BY <1>b, <2>1, <2>2, <2>3 DEF GestureRight, Outside
  <2>5. QED
    BY <1>a, <2>2, <2>3, <2>4 DEF DeckTypes, TypeOK, SentAreAsked, GestureRight
<1>7. ASSUME NEW l \in Loads, ApplyProfiles(l)
      PROVE  DeckTypes'
  <2>1. /\ profiles' = loads[l].list /\ idx' = 0
        /\ Render(loads[l].list, 0, swipes)
        /\ loads' = [loads EXCEPT ![l] = [stage |-> "done", list |-> <<>>]]
        /\ orderly' \in BOOLEAN
        /\ UNCHANGED <<swiped, asked>>
    BY <1>7 DEF ApplyProfiles
  <2>2. /\ cards' \in Seq(Card)
        /\ Len(cards') <= Shown
        /\ buttons' \in BOOLEAN
        /\ swipes' \in [Gestures -> Swipe]
        /\ \A h \in Gestures : /\ swipes'[h].card = Detached
                               /\ swipes'[h].stage = swipes[h].stage
                               /\ swipes'[h].target = swipes[h].target
    BY <1>a, <1>c, <2>1, RenderedType
  <2>3. loads' \in [Loads -> Load]
    BY <1>a, <2>1 DEF Load
  <2>4. ASSUME NEW h \in Gestures
        PROVE  GestureRight(swipes[h])'
    BY <1>b, <2>1, <2>2 DEF GestureRight
  <2>5. QED
    BY <1>a, <1>c, <2>1, <2>2, <2>3, <2>4 DEF DeckTypes, TypeOK, SentAreAsked, GestureRight
<1>8. ASSUME NEW l \in Loads, AskProfiles(l) \/ ServeProfiles(l) \/ LoadFails(l)
      PROVE  DeckTypes'
  <2>1. UNCHANGED <<profiles, idx, cards, buttons, swipes, swiped, asked, orderly>>
    BY <1>8 DEF AskProfiles, ServeProfiles, LoadFails
  <2>2. loads' \in [Loads -> Load]
    <3>1. CASE AskProfiles(l)
      BY <1>a, <3>1 DEF AskProfiles, Load
    <3>2. CASE ServeProfiles(l)
      <4>1. Shape
        BY <1>a, <1>c DEF Shape
      <4>2. loads'[l].list \in Seq(Profiles)
        BY <3>2, <4>1, ServedLists
      <4>3. \E list : loads' = [loads EXCEPT ![l] = [stage |-> "answered", list |-> list]]
        BY <3>2 DEF ServeProfiles
      <4>4. QED
        BY <1>a, <4>2, <4>3 DEF Load
    <3>3. CASE LoadFails(l)
      BY <1>a, <3>3 DEF LoadFails, Load
    <3>4. QED
      BY <1>8, <3>1, <3>2, <3>3
  <2>3. QED
    BY <1>a, <2>1, <2>2 DEF DeckTypes, TypeOK, SentAreAsked
<1>9. CASE UNCHANGED deckVars
  BY <1>9 DEF deckVars, DeckTypes, TypeOK, SentAreAsked
<1>10. QED
  BY <1>1, <1>2, <1>3, <1>4, <1>5, <1>6, <1>7, <1>8, <1>9 DEF Next

(* At most three cards are in the document, a gesture that still animates  *)
(* a card finds it there, and no swipe is stored that was not asked for,   *)
(* however gestures, answers and reloads overlap (app.js:201-312).         *)
THEOREM DeckIsTyped == Spec => []TypeOK
<1>1. DeckTypes => TypeOK
  BY DEF DeckTypes
<1>2. QED
  BY InitTypes, TypesKept, DeckAssumption, <1>1, PTL DEF Spec

=============================================================================
