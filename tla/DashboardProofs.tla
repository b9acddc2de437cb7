--------------------------- MODULE DashboardProofs ---------------------------
(***************************************************************************)
(* Proofs about Dashboard, for any links, petitions, pages and bounds: any *)
(* number of dismissals, selections, view transitions and animations may   *)
(* be under way at once.                                                   *)
(***************************************************************************)
EXTENDS Dashboard, TLAPS, FiniteSetTheorems

(* The inductive invariant *)

\* An open terminal is drawn, and there are no more loops than it was opened.
Drawn == frames <= clicks /\ (term.open => frames > 0)

\* The screen shows the current sheet, and every dismissal that is running is
\* of that sheet, unless another dismissal of it has ended.
Screen ==
    "switch" \notin strays =>
        /\ active = {"discover", currentViewId}
        /\ \A i \in 1..Len(closing) :
              currentViewId \in {closing[i], "discover"}

\* One step of the signing sheet is on the screen.
Single == "step" \notin strays => \E s \in Steps : steps = {s}

\* A terminal that is moving aside is open over a sheet, and a closed one has
\* moved back.
Split ==
    strays \cap {"switch", "split"} = {} =>
        /\ splitting > 0 => term.open /\ currentViewId # "discover"
        /\ ~term.open => ~term.split
        /\ splitting = 0 /\ term.open
             => (term.split <=> currentViewId # "discover")

\* The list of petitions is reached with a code only; without the carousel
\* the petition under construction is the only one that skips the code.
Proved ==
    /\ "eligible" \in steps => verified
    /\ "cards" \notin page.controls =>
          /\ petitionId \in {"none", "wip"}
          /\ \A i \in 1..Len(selecting) : selecting[i] = "wip"
          /\ "signature" \in steps /\ ~verified => petitionId = "wip"
          /\ unproved \subseteq {"wip"}

DashboardInv == TypeOK /\ Drawn /\ Screen /\ Single /\ Split /\ Proved

\* The landing view is no sheet.
LEMMA SheetFacts ==
    /\ "discover" \notin Sheets /\ "sign" \in Sheets /\ "petition" \in Sheets
    /\ NavTargets \subseteq Sheets /\ Views = Sheets \cup {"discover"}
  BY DashboardAssumption DEF Sheets, Views

\* The page as it is loaded.
LEMMA InitDashboard == Init => DashboardInv
<1> SUFFICES ASSUME Init PROVE DashboardInv
  OBVIOUS
<1>1. tab \in BOOLEAN /\ opening \in BOOLEAN /\ verified \in BOOLEAN
  BY DEF Init
<1>2. term \in [open : BOOLEAN, split : BOOLEAN]
  BY DEF Init
<1>3. ~term.open /\ ~term.split
  BY DEF Init
<1>4. /\ page \in [transitions : BOOLEAN, controls : Pages]
      /\ currentViewId \in Views /\ active \subseteq Views
      /\ steps \subseteq Steps /\ petitionId \in Choices \cup {"none"}
      /\ casts \in 0..1
      /\ switching \in Seq(Sheets) /\ closing \in Seq(Sheets)
      /\ selecting \in Seq(Choices)
      /\ leaving \in Nat /\ animations \in Nat /\ splitting \in Nat
      /\ frames \in 0..MaxClicks
      /\ unproved \subseteq Choices \cup {"none"}
      /\ strays \subseteq {"switch", "step", "split"}
      /\ clicks \in 0..MaxClicks
  BY DashboardAssumption DEF Init, Views, Steps, Choices
<1>5. TypeOK
  BY <1>1, <1>2, <1>4 DEF TypeOK
<1>6. Drawn /\ Screen /\ Single /\ Split /\ Proved
  BY <1>3 DEF Init, Drawn, Screen, Single, Split, Proved, Steps
<1> QED
  BY <1>5, <1>6 DEF DashboardInv

-----------------------------------------------------------------------------
(* The handlers that show a sheet *)

\* What they have in common: they show it at once, or leave the page as it is
\* and at most order a transition or a selection of wip.
Shows ==
    /\ UNCHANGED <<page, petitionId, casts, unproved, closing, leaving,
                   animations, term, frames>>
    /\ tab' \in BOOLEAN /\ opening' \in BOOLEAN
    /\ clicks' \in 0..MaxClicks /\ clicks' >= clicks
    /\ switching' \in Seq(Sheets)
    /\ \/ selecting' = selecting
       \/ selecting' = Append(selecting, "wip")
    /\ \/ UNCHANGED <<currentViewId, active, steps, verified, splitting,
                      strays>>
       \/ \E target \in Sheets :
             /\ PerformSwitch(target)
             /\ strays' = IF closing # <<>> THEN strays \cup {"switch"}
                                            ELSE strays

\* A click is counted up to its bound.
LEMMA ClickFacts ==
    ASSUME TypeOK, Click PROVE clicks' = clicks + 1 /\ clicks' \in 0..MaxClicks
  BY DashboardAssumption DEF TypeOK, Click

\* showView in one of its two ways.
LEMMA ShowViewFacts ==
    ASSUME TypeOK, NEW target \in Sheets, ShowView(target), closing' = closing,
           Stray("switch", Switches /\ closing # <<>>)
    PROVE  /\ switching' \in Seq(Sheets)
           /\ \/ UNCHANGED <<currentViewId, active, steps, verified, splitting,
                             strays>>
              \/ /\ PerformSwitch(target)
                 /\ strays' = IF closing # <<>> THEN strays \cup {"switch"}
                                                ELSE strays
<1>1. switching \in Seq(Sheets) /\ Append(switching, target) \in Seq(Sheets)
  BY DEF TypeOK
<1>2. CASE target # currentViewId /\ ~page.transitions
  BY <1>1, <1>2 DEF ShowView, PerformSwitch, Stray, Switches
<1>3. CASE ~(target # currentViewId /\ ~page.transitions)
  BY <1>1, <1>3 DEF ShowView, Stray, Switches
<1> QED
  BY <1>2, <1>3

\* Links, the box of the petition under construction, the tab, the page's own
\* opening of the signing sheet and the callback of a view transition.
LEMMA ShowsKind ==
    ASSUME TypeOK,
           \/ \E t \in NavTargets \cup {"petition"} : ClickNav(t)
           \/ ClickWip \/ ClickTab \/ AutoOpen \/ TransitionCallback
    PROVE  Shows
<1>a. /\ clicks \in 0..MaxClicks /\ opening \in BOOLEAN /\ tab \in BOOLEAN
      /\ switching \in Seq(Sheets)
  BY DEF TypeOK
<1>b. \A v, i : UpdatePetitionTab(v, i) \in BOOLEAN
  BY DEF UpdatePetitionTab
<1>1. ASSUME NEW t \in Sheets, ShowOnly(t), Click PROVE Shows
  <2>1. /\ UNCHANGED <<page, petitionId, casts, unproved, closing, selecting,
                       opening, leaving, animations, term, frames>>
        /\ ShowView(t) /\ Stray("switch", Switches /\ closing # <<>>)
    BY <1>1 DEF ShowOnly, casting
  <2>2. tab' \in BOOLEAN
    BY <1>1, <1>a, <1>b DEF ShowOnly
  <2>3. opening' \in BOOLEAN
    BY <1>a, <2>1
  <2>4. clicks' \in 0..MaxClicks /\ clicks' >= clicks
    BY <1>1, <1>a, ClickFacts
  <2>5. /\ switching' \in Seq(Sheets)
        /\ \/ UNCHANGED <<currentViewId, active, steps, verified, splitting,
                          strays>>
           \/ /\ PerformSwitch(t)
              /\ strays' = IF closing # <<>> THEN strays \cup {"switch"}
                                             ELSE strays
    BY <2>1, ShowViewFacts
  <2> QED
    BY <2>1, <2>2, <2>3, <2>4, <2>5 DEF Shows
<1>2. ASSUME OpenSignWithPetition("wip"), opening' \in BOOLEAN,
             clicks' \in 0..MaxClicks, clicks' >= clicks
      PROVE  Shows
  <2>1. /\ UNCHANGED <<page, petitionId, casts, unproved, closing, leaving,
                       animations, term, frames>>
        /\ selecting' = Append(selecting, "wip")
        /\ ShowView("sign") /\ Stray("switch", Switches /\ closing # <<>>)
    BY <1>2 DEF OpenSignWithPetition, casting
  <2>2. tab' \in BOOLEAN
    BY <1>2, <1>b DEF OpenSignWithPetition
  <2>3. /\ switching' \in Seq(Sheets)
        /\ \/ UNCHANGED <<currentViewId, active, steps, verified, splitting,
                          strays>>
           \/ /\ PerformSwitch("sign")
              /\ strays' = IF closing # <<>> THEN strays \cup {"switch"}
                                             ELSE strays
    BY <2>1, SheetFacts, ShowViewFacts
  <2> QED
    BY <1>2, <2>1, <2>2, <2>3, SheetFacts DEF Shows
<1>3. ASSUME NEW t \in NavTargets \cup {"petition"}, ClickNav(t) PROVE Shows
  BY <1>1, <1>3, SheetFacts DEF ClickNav
<1>4. CASE ClickTab
  BY <1>1, <1>4, SheetFacts DEF ClickTab
<1>5. CASE ClickWip
  <2>1. opening' \in BOOLEAN
    BY <1>5, <1>a DEF ClickWip
  <2>2. clicks' \in 0..MaxClicks /\ clicks' >= clicks
    BY <1>5, <1>a, ClickFacts DEF ClickWip
  <2> QED
    BY <1>5, <1>2, <2>1, <2>2 DEF ClickWip
<1>6. CASE AutoOpen
  <2>1. opening' \in BOOLEAN
    BY <1>6 DEF AutoOpen
  <2>2. clicks' \in 0..MaxClicks /\ clicks' >= clicks
    BY <1>6, <1>a, DashboardAssumption DEF AutoOpen
  <2> QED
    BY <1>6, <1>2, <2>1, <2>2 DEF AutoOpen
<1>7. CASE TransitionCallback
  <2>1. /\ switching # <<>> /\ PerformSwitch(Head(switching))
        /\ switching' = Tail(switching)
        /\ strays' = IF closing # <<>> THEN strays \cup {"switch"} ELSE strays
        /\ UNCHANGED <<page, petitionId, casts, unproved, closing, selecting,
                       opening, leaving, animations, term, frames, clicks>>
    BY <1>7 DEF TransitionCallback, Stray, casting
  <2>2. Head(switching) \in Sheets /\ Tail(switching) \in Seq(Sheets)
    BY <1>a, <2>1
  <2>3. tab' \in BOOLEAN
    BY <1>7, <1>b DEF TransitionCallback
  <2>4. opening' \in BOOLEAN
    BY <1>a, <2>1
  <2>5. clicks' \in 0..MaxClicks /\ clicks' >= clicks
    BY <1>a, <2>1, DashboardAssumption
  <2> QED
    BY <2>1, <2>2, <2>3, <2>4, <2>5 DEF Shows
<1> QED
  BY <1>3, <1>4, <1>5, <1>6, <1>7

\* Showing a sheet keeps the invariant.
LEMMA ShowsStep == DashboardInv /\ Shows => DashboardInv'
<1> SUFFICES ASSUME DashboardInv, Shows PROVE DashboardInv'
  OBVIOUS
<1>a. TypeOK /\ Drawn /\ Screen /\ Single /\ Split /\ Proved
  BY DEF DashboardInv
<1>b. /\ page \in [transitions : BOOLEAN, controls : Pages]
      /\ currentViewId \in Views /\ active \subseteq Views
      /\ steps \subseteq Steps /\ petitionId \in Choices \cup {"none"}
      /\ casts \in 0..1
      /\ closing \in Seq(Sheets) /\ selecting \in Seq(Choices)
      /\ leaving \in Nat /\ animations \in Nat /\ splitting \in Nat
      /\ frames \in 0..MaxClicks
      /\ term \in [open : BOOLEAN, split : BOOLEAN]
      /\ verified \in BOOLEAN
      /\ unproved \subseteq Choices \cup {"none"}
      /\ strays \subseteq {"switch", "step", "split"}
      /\ clicks \in 0..MaxClicks
  BY <1>a DEF TypeOK
<1>c. /\ UNCHANGED <<page, petitionId, casts, unproved, closing, leaving,
                     animations, term, frames>>
      /\ clicks' \in 0..MaxClicks /\ clicks' >= clicks
      /\ switching' \in Seq(Sheets)
  BY DEF Shows
<1>d. tab' \in BOOLEAN /\ opening' \in BOOLEAN
  BY DEF Shows
<1>e. selecting' \in Seq(Choices)
  <2>1. "wip" \in Choices
    BY DEF Choices
  <2>2. Append(selecting, "wip") \in Seq(Choices)
    BY <1>b, <2>1
  <2> QED
    BY <1>b, <2>2 DEF Shows
<1>f. (\A i \in 1..Len(selecting) : selecting[i] = "wip")
        => (\A i \in 1..Len(selecting') : selecting'[i] = "wip")
  <2>1. CASE selecting' = selecting
    BY <2>1
  <2>2. CASE selecting' = Append(selecting, "wip")
    BY <2>2, <1>b
  <2> QED
    BY <2>1, <2>2 DEF Shows
<1>g. Drawn'
  BY <1>a, <1>b, <1>c, DashboardAssumption DEF Drawn
<1>1. CASE UNCHANGED <<currentViewId, active, steps, verified, splitting,
                       strays>>
  <2>1. verified' \in BOOLEAN
    BY <1>1, <1>b
  <2>2. TypeOK'
    BY <1>1, <1>b, <1>c, <1>d, <1>e, <2>1 DEF TypeOK
  <2>3. Screen' /\ Single' /\ Split'
    BY <1>1, <1>a, <1>c DEF Screen, Single, Split
  <2>4. Proved'
    BY <1>1, <1>a, <1>c, <1>f DEF Proved
  <2> QED
    BY <1>g, <2>2, <2>3, <2>4 DEF DashboardInv
<1>2. ASSUME NEW target \in Sheets, PerformSwitch(target),
             strays' = IF closing # <<>> THEN strays \cup {"switch"}
                                         ELSE strays
      PROVE  DashboardInv'
  <2>1. /\ active' = (active \ ({currentViewId} \cap Sheets)) \cup {target}
        /\ currentViewId' = target
        /\ splitting' = splitting + (IF term.open THEN 1 ELSE 0)
        /\ \/ steps' = steps
           \/ steps' = {"identity"}
    BY <1>2 DEF PerformSwitch, Opened
  <2>2. \/ steps' = {"identity"}
        \/ steps' = steps /\ verified' = verified
    BY <1>2 DEF PerformSwitch
  <2>3. verified' \in BOOLEAN
    BY <1>2, <1>b DEF PerformSwitch
  <2>5. target \in Views /\ target # "discover"
    BY SheetFacts
  <2>6. /\ splitting' \in Nat /\ active' \subseteq Views
        /\ steps' \subseteq Steps
        /\ strays' \subseteq {"switch", "step", "split"}
    <3>1. splitting' \in Nat
      BY <1>b, <2>1
    <3>2. active' \subseteq Views
      BY <1>b, <2>1, <2>5
    <3>3. steps' \subseteq Steps
      BY <1>b, <2>1 DEF Steps
    <3>4. strays' \subseteq {"switch", "step", "split"}
      BY <1>2, <1>b
    <3> QED
      BY <3>1, <3>2, <3>3, <3>4
  <2>7. TypeOK'
    BY <1>b, <1>c, <1>d, <1>e, <2>1, <2>3, <2>5, <2>6 DEF TypeOK
  <2>8. Screen'
    <3> SUFFICES ASSUME "switch" \notin strays'
                 PROVE  /\ active' = {"discover", target}
                        /\ closing' = <<>>
      BY <2>1 DEF Screen
    <3>1. closing = <<>> /\ "switch" \notin strays
      BY <1>2
    <3>2. active = {"discover", currentViewId}
      BY <3>1, <1>a DEF Screen
    <3>3. currentViewId \in Sheets \/ currentViewId = "discover"
      BY <1>b, SheetFacts
    <3> QED
      BY <3>1, <3>2, <3>3, <2>1, <1>c, SheetFacts
  <2>9. Single'
    BY <1>a, <1>2, <2>1 DEF Single, Steps
  <2>10. Split'
    <3> SUFFICES ASSUME strays' \cap {"switch", "split"} = {}
                 PROVE  /\ splitting' > 0 => term.open
                        /\ ~term.open => ~term.split
                        /\ ~(splitting' = 0 /\ term.open)
      BY <2>1, <2>5, <1>c DEF Split
    <3>1. strays \cap {"switch", "split"} = {}
      BY <1>2
    <3> QED
      BY <3>1, <2>1, <1>a, <1>b DEF Split
  <2>11. Proved'
    <3>1. CASE steps' = {"identity"}
      BY <3>1, <1>a, <1>c, <1>f DEF Proved
    <3>2. CASE steps' = steps /\ verified' = verified
      BY <3>2, <1>a, <1>c, <1>f DEF Proved
    <3> QED
      BY <3>1, <3>2, <2>2
  <2> QED
    BY <1>g, <2>7, <2>8, <2>9, <2>10, <2>11 DEF DashboardInv
<1> QED
  BY <1>1, <1>2 DEF Shows

-----------------------------------------------------------------------------
(* The other handlers *)

\* A handler that leaves the views, the steps and the terminal alone.
LEMMA CounterStep ==
    ASSUME DashboardInv, leaving' \in Nat, animations' \in Nat,
           clicks' \in 0..MaxClicks, clicks' >= clicks, tab' \in BOOLEAN,
           closing' \in Seq(Sheets),
           \A i \in 1..Len(closing') :
              \/ i \in 1..Len(closing) /\ closing'[i] = closing[i]
              \/ closing'[i] = currentViewId,
           UNCHANGED <<page, currentViewId, active, steps, petitionId, verified,
                       casts, unproved, switching, selecting, opening, term,
                       splitting, frames, strays>>
    PROVE  DashboardInv'
<1>a. TypeOK /\ Drawn /\ Screen /\ Single /\ Split /\ Proved
  BY DEF DashboardInv
<1>1. TypeOK'
  BY <1>a DEF TypeOK
<1>2. Drawn'
  <2>1. frames \in Nat /\ clicks \in Nat /\ clicks' \in Nat
    BY <1>a, DashboardAssumption DEF TypeOK
  <2> QED
    BY <1>a, <2>1 DEF Drawn
<1>3. Screen'
  BY <1>a DEF Screen
<1>4. Single' /\ Split' /\ Proved'
  BY <1>a DEF Single, Split, Proved
<1> QED
  BY <1>1, <1>2, <1>3, <1>4 DEF DashboardInv

\* Dismissals, commits and requests of a code.
LEMMA OrdersStep ==
    ASSUME DashboardInv, Dismiss \/ Leave \/ Create \/ RequestCode
    PROVE  DashboardInv'
<1>a. /\ TypeOK /\ clicks \in 0..MaxClicks /\ tab \in BOOLEAN
      /\ closing \in Seq(Sheets) /\ currentViewId \in Views
      /\ leaving \in Nat /\ animations \in Nat
  BY DEF TypeOK, DashboardInv
<1>b. ASSUME DismissCurrentView
      PROVE  /\ tab' \in BOOLEAN /\ closing' \in Seq(Sheets)
             /\ \A i \in 1..Len(closing') :
                  \/ i \in 1..Len(closing) /\ closing'[i] = closing[i]
                  \/ closing'[i] = currentViewId
  <2>1. CASE currentViewId = "discover"
    BY <1>a, <1>b, <2>1 DEF DismissCurrentView
  <2>2. CASE currentViewId # "discover"
    <3>1. tab' \in BOOLEAN
      BY <1>b, <2>2 DEF DismissCurrentView
    <3>2. currentViewId \in Sheets /\ closing' = Append(closing, currentViewId)
      BY <1>a, <1>b, <2>2, SheetFacts DEF DismissCurrentView
    <3> QED
      BY <1>a, <3>1, <3>2
  <2> QED
    BY <2>1, <2>2
<1>1. CASE Dismiss
  <2>1. /\ UNCHANGED <<page, currentViewId, active, steps, petitionId,
                       verified, casts, unproved, switching, selecting, opening,
                       leaving, animations, term, splitting, frames, strays>>
        /\ DismissCurrentView /\ Click
    BY <1>1 DEF Dismiss, casting, terminal
  <2>2. clicks' \in 0..MaxClicks /\ clicks' >= clicks
    BY <1>a, <2>1, ClickFacts
  <2> QED
    BY <1>a, <1>b, <2>1, <2>2, CounterStep
<1>2. CASE Leave
  <2>1. /\ UNCHANGED <<page, currentViewId, active, steps, petitionId,
                       verified, casts, unproved, switching, selecting, opening,
                       animations, term, splitting, frames, strays, clicks>>
        /\ DismissCurrentView /\ leaving' \in Nat
    BY <1>2, <1>a DEF Leave, casting, terminal
  <2>2. clicks' \in 0..MaxClicks /\ clicks' >= clicks
    BY <1>a, <2>1, DashboardAssumption
  <2> QED
    BY <1>a, <1>b, <2>1, <2>2, CounterStep
<1>3. CASE Create \/ RequestCode
  <2>1. /\ UNCHANGED <<page, currentViewId, active, steps, petitionId, tab,
                       verified, casts, unproved, switching, closing, selecting,
                       opening, term, splitting, frames, strays>>
        /\ Click /\ leaving' \in Nat /\ animations' \in Nat
    BY <1>3, <1>a DEF Create, RequestCode, signing, casting, terminal
  <2>2. clicks' \in 0..MaxClicks /\ clicks' >= clicks
    BY <1>a, <2>1, ClickFacts
  <2> QED
    BY <1>a, <2>1, <2>2, CounterStep
<1> QED
  BY <1>1, <1>2, <1>3

\* The end of a dismissal.
LEMMA DismissEndStep == DashboardInv /\ DismissEnd => DashboardInv'
<1> SUFFICES ASSUME DashboardInv, DismissEnd PROVE DashboardInv'
  OBVIOUS
<1>a. TypeOK /\ Drawn /\ Screen /\ Single /\ Split /\ Proved
  BY DEF DashboardInv
<1>b. /\ closing # <<>> /\ closing' = Tail(closing)
      /\ active' = (active \ {Head(closing)}) \cup {"discover"}
      /\ currentViewId' = "discover"
      /\ strays' = IF splitting > 0 THEN strays \cup {"split"} ELSE strays
      /\ UNCHANGED <<page, steps, petitionId, tab, verified, casts, unproved,
                     switching, selecting, opening, leaving, animations,
                     splitting, frames, clicks>>
  BY DEF DismissEnd, Stray, signing, casting
<1>c. term' = [term EXCEPT !.split = @ /\ ~term.open]
  BY DEF DismissEnd, ExitSplitMode
<1>d. term \in [open : BOOLEAN, split : BOOLEAN] /\ closing \in Seq(Sheets)
      /\ splitting \in Nat
  BY <1>a DEF TypeOK
<1>1. /\ term' \in [open : BOOLEAN, split : BOOLEAN]
      /\ term'.open = term.open
      /\ term'.split <=> (term.split /\ ~term.open)
  <2>1. ASSUME NEW t \in [open : BOOLEAN, split : BOOLEAN], NEW b \in BOOLEAN
        PROVE  /\ [t EXCEPT !.split = b] \in [open : BOOLEAN, split : BOOLEAN]
               /\ [t EXCEPT !.split = b].open = t.open
               /\ [t EXCEPT !.split = b].split = b
    OBVIOUS
  <2> DEFINE b == term.split /\ ~term.open
  <2>2. b \in BOOLEAN /\ term' = [term EXCEPT !.split = b]
    BY <1>c
  <2>3. /\ term' \in [open : BOOLEAN, split : BOOLEAN]
        /\ term'.open = term.open /\ term'.split = b
    <3> HIDE DEF b
    <3> QED
      BY <1>d, <2>1, <2>2
  <2> QED
    BY <2>3
<1>2. TypeOK'
  BY <1>a, <1>b, <1>1, SheetFacts DEF TypeOK
<1>3. Drawn' /\ Single' /\ Proved'
  BY <1>a, <1>b, <1>1 DEF Drawn, Single, Proved
<1>4. Screen'
  <2> SUFFICES ASSUME "switch" \notin strays' PROVE active' = {"discover"}
    BY <1>b DEF Screen
  <2>1. "switch" \notin strays
    BY <1>b
  <2>2. active = {"discover", currentViewId}
    BY <1>a, <2>1 DEF Screen
  <2>3. currentViewId \in {Head(closing), "discover"}
    BY <1>a, <1>b, <1>d, <2>1 DEF Screen
  <2> QED
    BY <1>b, <2>2, <2>3
<1>5. Split'
  <2> SUFFICES ASSUME strays' \cap {"switch", "split"} = {}
               PROVE  splitting = 0 /\ (~term.open => ~term.split)
    BY <1>b, <1>1 DEF Split
  <2>1. strays \cap {"switch", "split"} = {} /\ ~(splitting > 0)
    BY <1>b
  <2> QED
    BY <1>a, <1>d, <2>1 DEF Split
<1> QED
  BY <1>2, <1>3, <1>4, <1>5 DEF DashboardInv

\* The end of an animation, and the buttons that lead from step to step.
LEMMA StepsStep ==
    ASSUME DashboardInv, AnimationEnd \/ VerifyCode \/ FinalSelect
    PROVE  DashboardInv'
<1>a. TypeOK /\ Drawn /\ Screen /\ Single /\ Split /\ Proved
  BY DEF DashboardInv
<1>b. /\ steps \subseteq Steps /\ frames \in Nat /\ clicks \in Nat
      /\ MaxClicks \in Nat /\ clicks \in 0..MaxClicks /\ animations \in Nat
      /\ verified \in BOOLEAN
  BY <1>a, DashboardAssumption DEF TypeOK
<1>c. UNCHANGED <<page, currentViewId, active, petitionId, tab, casts,
                  unproved, switching, closing, selecting, opening, leaving,
                  term, splitting, frames>>
  BY DEF AnimationEnd, VerifyCode, FinalSelect, StepTo, casting, terminal
<1>1. CASE AnimationEnd
  <2>1. /\ steps' = (steps \ {"identity"}) \cup {"otp"}
        /\ strays' = IF "identity" \notin steps THEN strays \cup {"step"}
                                                ELSE strays
        /\ UNCHANGED <<verified, clicks>>
        /\ animations > 0 /\ animations' = animations - 1
    BY <1>1 DEF AnimationEnd, NextStep, Stray
  <2>2. steps' \subseteq Steps /\ animations' \in Nat
    BY <1>b, <2>1 DEF Steps
  <2>3. strays' \subseteq {"switch", "step", "split"}
    BY <1>a, <2>1 DEF TypeOK
  <2>4. TypeOK'
    BY <1>a, <1>c, <2>1, <2>2, <2>3 DEF TypeOK
  <2>5. Single'
    <3> SUFFICES ASSUME "step" \notin strays' PROVE steps' = {"otp"}
      BY DEF Single, Steps
    <3>1. "identity" \in steps /\ "step" \notin strays
      BY <2>1
    <3>2. steps = {"identity"}
      BY <1>a, <3>1 DEF Single
    <3> QED
      BY <2>1, <3>2
  <2>6. Drawn' /\ Screen' /\ Split'
    BY <1>a, <1>c, <2>1 DEF Drawn, Screen, Split
  <2>7. Proved'
    BY <1>a, <1>c, <2>1 DEF Proved
  <2> QED
    BY <2>4, <2>5, <2>6, <2>7 DEF DashboardInv
<1>2. ASSUME NEW from \in Steps, NEW to \in Steps, StepTo(from, to),
             verified' \in BOOLEAN, Proved'
      PROVE  DashboardInv'
  <2>1. /\ from \in steps /\ steps' = (steps \ {from}) \cup {to}
        /\ UNCHANGED <<animations, strays>> /\ Click
    BY <1>2 DEF StepTo, NextStep, OnStep
  <2>2. clicks' = clicks + 1 /\ clicks' \in 0..MaxClicks
    BY <1>a, <2>1, ClickFacts
  <2>3. steps' \subseteq Steps
    BY <1>b, <2>1
  <2>4. TypeOK'
    BY <1>a, <1>2, <1>c, <2>1, <2>2, <2>3 DEF TypeOK
  <2>5. Single'
    BY <1>a, <2>1 DEF Single
  <2>6. Drawn'
    BY <1>a, <1>b, <1>c, <2>2 DEF Drawn
  <2>7. Screen' /\ Split'
    BY <1>a, <1>c, <2>1 DEF Screen, Split
  <2> QED
    BY <1>2, <2>4, <2>5, <2>6, <2>7 DEF DashboardInv
<1>3. CASE VerifyCode
  <2>1. StepTo("otp", "eligible") /\ verified'
    BY <1>3 DEF VerifyCode
  <2>2. verified' \in BOOLEAN
    BY <1>3 DEF VerifyCode
  <2>3. Proved'
    BY <1>a, <1>c, <2>1 DEF Proved
  <2> QED
    BY <1>2, <2>1, <2>2, <2>3 DEF Steps
<1>4. CASE FinalSelect
  <2>1. StepTo("eligible", "signature") /\ verified' = verified
    BY <1>4 DEF FinalSelect
  <2>2. /\ "eligible" \in steps
        /\ steps' = (steps \ {"eligible"}) \cup {"signature"}
    BY <2>1 DEF StepTo, OnStep, NextStep
  <2>3. verified /\ verified'
    BY <1>a, <2>1, <2>2 DEF Proved
  <2>4. Proved'
    BY <1>a, <1>c, <2>2, <2>3 DEF Proved
  <2>5. verified' \in BOOLEAN
    BY <1>b, <2>1
  <2> QED
    BY <1>2, <2>1, <2>4, <2>5 DEF Steps
<1> QED
  BY <1>1, <1>3, <1>4

\* A cast.
LEMMA FinalizeStep == DashboardInv /\ Finalize => DashboardInv'
<1> SUFFICES ASSUME DashboardInv, Finalize PROVE DashboardInv'
  OBVIOUS
<1>a. TypeOK /\ Drawn /\ Screen /\ Single /\ Split /\ Proved
  BY DEF DashboardInv
<1>b. /\ "signature" \in steps /\ casts' = casts + 1 /\ casts = 0
      /\ leaving' = leaving + 1 /\ Click
      /\ unproved' = IF verified THEN unproved ELSE unproved \cup {petitionId}
      /\ UNCHANGED <<page, currentViewId, active, steps, petitionId, tab,
                     verified, switching, closing, selecting, opening,
                     animations, term, splitting, frames, strays>>
  BY DEF Finalize, CastButton, OnStep, signing, terminal
<1>c. clicks' = clicks + 1 /\ clicks' \in 0..MaxClicks
  BY <1>a, <1>b, ClickFacts
<1>d. frames \in Nat /\ clicks \in Nat
  BY <1>a, DashboardAssumption DEF TypeOK
<1>1. unproved' \subseteq Choices \cup {"none"}
  BY <1>a, <1>b DEF TypeOK
<1>2. casts' \in 0..1 /\ leaving' \in Nat
  BY <1>a, <1>b DEF TypeOK
<1>3. TypeOK'
  BY <1>a, <1>b, <1>c, <1>1, <1>2 DEF TypeOK
<1>4. Drawn'
  BY <1>a, <1>b, <1>c, <1>d DEF Drawn
<1>5. Screen' /\ Single' /\ Split'
  BY <1>a, <1>b DEF Screen, Single, Split
<1>6. Proved'
  <2>1. ASSUME "cards" \notin page.controls PROVE unproved' \subseteq {"wip"}
    <3>1. CASE verified
      BY <3>1, <2>1, <1>a, <1>b DEF Proved
    <3>2. CASE ~verified
      BY <3>2, <2>1, <1>a, <1>b DEF Proved
    <3> QED
      BY <3>1, <3>2
  <2> QED
    BY <1>a, <1>b, <2>1 DEF Proved
<1> QED
  BY <1>3, <1>4, <1>5, <1>6 DEF DashboardInv

\* The selection of a petition, by a card or after the 50 ms.
LEMMA SelectStep ==
    ASSUME DashboardInv,
           SelectLater \/ \E id \in Choices : ClickCard(id)
    PROVE  DashboardInv'
<1>a. TypeOK /\ Drawn /\ Screen /\ Single /\ Split /\ Proved
  BY DEF DashboardInv
<1>b. /\ selecting \in Seq(Choices) /\ frames \in Nat /\ clicks \in Nat
      /\ clicks \in 0..MaxClicks /\ MaxClicks \in Nat
  BY <1>a, DashboardAssumption DEF TypeOK
<1>1. ASSUME NEW id \in Choices, SelectSignPetition(id),
             "cards" \notin page.controls => id = "wip",
             selecting' \in Seq(Choices),
             (\A i \in 1..Len(selecting) : selecting[i] = "wip")
               => (\A i \in 1..Len(selecting') : selecting'[i] = "wip"),
             clicks' \in 0..MaxClicks, clicks' >= clicks,
             UNCHANGED <<page, currentViewId, active, casts, unproved,
                         switching, closing, opening, leaving, animations,
                         term, splitting, frames>>
      PROVE  DashboardInv'
  <2>1. /\ petitionId' = id
        /\ steps' = IF id = "wip" THEN {"signature"} ELSE steps
        /\ UNCHANGED <<verified, strays>>
    BY <1>1 DEF SelectSignPetition
  <2>2. tab' \in BOOLEAN
    BY <1>1 DEF SelectSignPetition, UpdatePetitionTab
  <2>3. steps' \subseteq Steps
    BY <1>a, <2>1 DEF TypeOK, Steps
  <2>4. TypeOK'
    BY <1>a, <1>1, <2>1, <2>2, <2>3 DEF TypeOK
  <2>5. Single'
    BY <1>a, <2>1 DEF Single, Steps
  <2>6. Drawn'
    BY <1>a, <1>b, <1>1 DEF Drawn
  <2>7. Screen' /\ Split'
    BY <1>a, <1>1, <2>1 DEF Screen, Split
  <2>8. Proved'
    BY <1>a, <1>1, <2>1 DEF Proved
  <2> QED
    BY <2>4, <2>5, <2>6, <2>7, <2>8 DEF DashboardInv
<1>2. CASE SelectLater
  <2>1. /\ selecting # <<>> /\ selecting' = Tail(selecting)
        /\ SelectSignPetition(Head(selecting))
        /\ UNCHANGED <<page, currentViewId, active, casts, unproved,
                       switching, closing, opening, leaving, animations,
                       term, splitting, frames, clicks>>
    BY <1>2 DEF SelectLater, casting, terminal
  <2>2. /\ Head(selecting) \in Choices /\ selecting' \in Seq(Choices)
        /\ Head(selecting) = selecting[1] /\ 1 \in 1..Len(selecting)
    BY <1>b, <2>1
  <2>3. "cards" \notin page.controls => Head(selecting) = "wip"
    BY <1>a, <2>2 DEF Proved
  <2>4. (\A i \in 1..Len(selecting) : selecting[i] = "wip")
          => (\A i \in 1..Len(selecting') : selecting'[i] = "wip")
    BY <1>b, <2>1
  <2>5. clicks' \in 0..MaxClicks /\ clicks' >= clicks
    BY <1>b, <2>1
  <2> QED
    BY <1>1, <2>1, <2>2, <2>3, <2>4, <2>5
<1>3. ASSUME NEW id \in Choices, ClickCard(id) PROVE DashboardInv'
  <2>1. /\ Click /\ "cards" \in page.controls /\ SelectSignPetition(id)
        /\ UNCHANGED <<page, currentViewId, active, casts, unproved,
                       switching, closing, selecting, opening, leaving,
                       animations, term, splitting, frames>>
    BY <1>3 DEF ClickCard, casting, later, terminal
  <2>2. clicks' \in 0..MaxClicks /\ clicks' >= clicks
    BY <1>a, <1>b, <2>1, ClickFacts
  <2> QED
    BY <1>1, <1>b, <2>1, <2>2
<1> QED
  BY <1>2, <1>3

\* The terminal: opened or closed, drawn, and moved aside.
LEMMA TerminalStep ==
    ASSUME DashboardInv, Toggle \/ Frame \/ SplitEnd
    PROVE  DashboardInv'
<1>a. TypeOK /\ Drawn /\ Screen /\ Single /\ Split /\ Proved
  BY DEF DashboardInv
<1>b. /\ term \in [open : BOOLEAN, split : BOOLEAN]
      /\ frames \in Nat /\ clicks \in Nat /\ clicks \in 0..MaxClicks
      /\ MaxClicks \in Nat /\ splitting \in Nat
      /\ strays \subseteq {"switch", "step", "split"}
  BY <1>a, DashboardAssumption DEF TypeOK
<1>c. UNCHANGED <<page, currentViewId, active, steps, petitionId, tab,
                  verified, casts, unproved, switching, closing, selecting,
                  leaving, animations, opening>>
  BY DEF Toggle, Frame, SplitEnd, signing, casting, later
<1>d. Single' \/ ~(strays \subseteq strays')
  BY <1>a, <1>c DEF Single
<1>e. Screen' \/ ~(strays \subseteq strays')
  BY <1>a, <1>c DEF Screen
<1>f. Proved'
  BY <1>a, <1>c DEF Proved
<1>1. CASE Toggle
  <2>1. /\ frames' = IF term.open THEN frames ELSE frames + 1
        /\ strays' = IF currentViewId # "discover" \/ splitting > 0
                       THEN strays \cup {"split"} ELSE strays
        /\ splitting' = splitting /\ Click
    BY <1>1 DEF Toggle, Stray
  <2>2. /\ term' \in [open : BOOLEAN, split : BOOLEAN]
        /\ term'.open <=> ~term.open
        /\ term'.split <=> term.split
    <3>1. ASSUME NEW t \in [open : BOOLEAN, split : BOOLEAN], NEW b \in BOOLEAN
          PROVE  /\ [t EXCEPT !.open = b] \in [open : BOOLEAN, split : BOOLEAN]
                 /\ [t EXCEPT !.open = b].open = b
                 /\ [t EXCEPT !.open = b].split = t.split
      OBVIOUS
    <3> DEFINE b == ~term.open
    <3>2. b \in BOOLEAN /\ term' = [term EXCEPT !.open = b]
      BY <1>1 DEF Toggle
    <3>3. /\ term' \in [open : BOOLEAN, split : BOOLEAN]
          /\ term'.open = b /\ term'.split = term.split
      <4> HIDE DEF b
      <4> QED
        BY <1>b, <3>1, <3>2
    <3> QED
      BY <3>3
  <2>3. clicks' = clicks + 1 /\ clicks' \in 0..MaxClicks
    BY <1>a, <2>1, ClickFacts
  <2>4. Drawn'
    BY <1>a, <1>b, <2>1, <2>2, <2>3 DEF Drawn
  <2>5. /\ frames' \in 0..MaxClicks
        /\ strays' \subseteq {"switch", "step", "split"}
        /\ strays \subseteq strays'
    BY <1>a, <1>b, <2>1, <2>3 DEF Drawn
  <2>6. TypeOK'
    BY <1>a, <1>c, <2>1, <2>2, <2>3, <2>5 DEF TypeOK
  <2>7. Split'
    <3> SUFFICES ASSUME strays' \cap {"switch", "split"} = {}
                 PROVE  /\ splitting = 0 /\ ~term.split
                        /\ currentViewId = "discover"
      BY <1>c, <2>1, <2>2 DEF Split
    <3>1. /\ strays \cap {"switch", "split"} = {} /\ ~(splitting > 0)
          /\ currentViewId = "discover"
      BY <2>1
    <3> QED
      BY <1>a, <1>b, <3>1 DEF Split
  <2> QED
    BY <1>d, <1>e, <1>f, <2>4, <2>5, <2>6, <2>7 DEF DashboardInv
<1>2. CASE Frame
  <2>1. /\ frames' = IF term.open THEN frames ELSE 0
        /\ UNCHANGED <<term, splitting, strays, clicks>>
    BY <1>2 DEF Frame, Animate
  <2>2. Drawn' /\ Split'
    BY <1>a, <1>b, <1>c, <2>1 DEF Drawn, Split
  <2>3. frames' \in 0..MaxClicks
    BY <1>a, <1>b, <2>1 DEF TypeOK
  <2>4. TypeOK'
    BY <1>a, <1>c, <2>1, <2>3 DEF TypeOK
  <2> QED
    BY <1>d, <1>e, <1>f, <2>1, <2>2, <2>4 DEF DashboardInv
<1>3. CASE SplitEnd
  <2>1. /\ splitting > 0 /\ splitting' = splitting - 1
        /\ UNCHANGED <<frames, strays, clicks>>
    BY <1>3 DEF SplitEnd
  <2>2. /\ term' \in [open : BOOLEAN, split : BOOLEAN]
        /\ term'.open <=> term.open
    BY <1>3, <1>b DEF SplitEnd
  <2>3. term'.split
    BY <1>3, <1>b DEF SplitEnd
  <2>4. Drawn'
    BY <1>a, <2>1, <2>2 DEF Drawn
  <2>5. TypeOK'
    <3>1. splitting' \in Nat
      BY <1>b, <2>1
    <3> QED
      BY <1>a, <1>c, <2>1, <2>2, <3>1 DEF TypeOK
  <2>6. Split'
    BY <1>a, <1>b, <1>c, <2>1, <2>2, <2>3 DEF Split
  <2> QED
    BY <1>d, <1>e, <1>f, <2>1, <2>4, <2>5, <2>6 DEF DashboardInv
<1> QED
  BY <1>1, <1>2, <1>3

\* Every step keeps the invariant.
LEMMA StepDashboard == DashboardInv /\ [Next]_vars => DashboardInv'
<1> SUFFICES ASSUME DashboardInv, [Next]_vars PROVE DashboardInv'
  OBVIOUS
<1>a. TypeOK
  BY DEF DashboardInv
<1>1. CASE UNCHANGED vars
  BY <1>1 DEF vars, DashboardInv, TypeOK, Drawn, Screen, Single, Split, Proved
<1>2. CASE \/ \E t \in NavTargets \cup {"petition"} : ClickNav(t)
           \/ ClickWip \/ ClickTab \/ AutoOpen \/ TransitionCallback
  BY <1>2, <1>a, ShowsKind, ShowsStep
<1>3. CASE Dismiss \/ Leave \/ Create \/ RequestCode
  BY <1>3, OrdersStep
<1>4. CASE DismissEnd
  BY <1>4, DismissEndStep
<1>5. CASE AnimationEnd \/ VerifyCode \/ FinalSelect
  BY <1>5, StepsStep
<1>6. CASE Finalize
  BY <1>6, FinalizeStep
<1>7. CASE SelectLater \/ \E id \in Choices : ClickCard(id)
  BY <1>7, SelectStep
<1>8. CASE Toggle \/ Frame \/ SplitEnd
  BY <1>8, TerminalStep
<1> QED
  BY <1>1, <1>2, <1>3, <1>4, <1>5, <1>6, <1>7, <1>8 DEF Next

-----------------------------------------------------------------------------
(* Theorems *)

\* The controller's variables keep their types, and with that no timer finds
\* the landing view among the sheets it is to take away.
THEOREM DashboardTypes == Spec => []TypeOK
<1>1. DashboardInv => TypeOK
  BY DEF DashboardInv
<1> QED
  BY InitDashboard, StepDashboard, <1>1, PTL DEF Spec

\* However many dismissals overlap: the screen shows the landing view and the
\* current sheet, unless a sheet was opened during a dismissal.
THEOREM SheetStaysCurrent == Spec => []SheetIsCurrent
<1>1. DashboardInv => SheetIsCurrent
  BY DEF DashboardInv, Screen, SheetIsCurrent
<1> QED
  BY InitDashboard, StepDashboard, <1>1, PTL DEF Spec

\* However many animations overlap: one step of the signing sheet is shown,
\* unless an animation ended after its step had been left.
THEOREM OneStepShown == Spec => []OneStep
<1>1. DashboardInv => OneStep
  <2> SUFFICES ASSUME DashboardInv, "step" \notin strays
               PROVE  Cardinality(steps) = 1
    BY DEF OneStep
  <2>1. PICK s \in Steps : steps = {s}
    BY DEF DashboardInv, Single
  <2> QED
    BY <2>1, FS_Singleton
<1> QED
  BY InitDashboard, StepDashboard, <1>1, PTL DEF Spec

\* The terminal shares the screen exactly while a sheet is open, under the
\* same exceptions as in the run, for any number of calls of enterSplitMode.
THEOREM TerminalSharesWithSheet == Spec => []SplitWithSheet
<1>1. DashboardInv => SplitWithSheet
  BY DEF DashboardInv, Split, SplitWithSheet
<1> QED
  BY InitDashboard, StepDashboard, <1>1, PTL DEF Spec

\* On a page without the carousel, whatever its other controls and petitions,
\* only the petition under construction is signed without a code.
THEOREM OnlyWipUnproved == Spec => []UnprovedIsWip
<1>1. DashboardInv => UnprovedIsWip
  BY DEF DashboardInv, Proved, UnprovedIsWip
<1> QED
  BY InitDashboard, StepDashboard, <1>1, PTL DEF Spec

\* The first half of LoopFollows: an open terminal has a drawing loop, also
\* when it was closed and opened again between two frames.
THEOREM OpenIsDrawn == Spec => [](term.open => frames > 0)
<1>1. DashboardInv => (term.open => frames > 0)
  BY DEF DashboardInv, Drawn
<1> QED
  BY InitDashboard, StepDashboard, <1>1, PTL DEF Spec
=============================================================================
