-------------------------- MODULE BackgroundProofs --------------------------
(***************************************************************************)
(* Proofs about Background, for any patterns, palettes, logos, window      *)
(* sizes, cookies of earlier visits and bounds.                            *)
(***************************************************************************)
EXTENDS Background, TLAPS, WellFoundedInduction

\* Of the window, and of configurations.
Schemes == {"dark", "light"}
Patterns == {e.pattern : e \in Entries} \cup {Unknown}

\* Every set of natural numbers that is not empty has a least element.
LEMMA LeastNat ==
    ASSUME NEW S \in SUBSET Nat, S # {}
    PROVE  \E i \in S : \A j \in S : i <= j
<1> DEFINE R == OpToRel(<, Nat)
<1>1. IsWellFoundedOn(R, Nat)
  BY NatLessThanWellFounded
<1>2. ASSUME NEW i \in Nat, NEW j \in Nat, <<j, i>> \notin R
      PROVE  i <= j
  BY <1>2 DEF OpToRel
<1> HIDE DEF R
<1>3. \E i \in S : \A j \in S : <<j, i>> \notin R
  BY <1>1, WFMin
<1>4. PICK i \in S : \A j \in S : <<j, i>> \notin R
  BY <1>3
<1>5. \A j \in S : i <= j
  BY <1>2, <1>4
<1> QED
  BY <1>5

\* cycle goes on to a pattern that is listed.
LEMMA NextPatternListed == NextPattern \in Entries
<1> DEFINE at == {i \in DOMAIN AllPatterns :
                    /\ AllPatterns[i].type = currentConfig.type
                    /\ AllPatterns[i].pattern = currentConfig.pattern}
           idx == IF at = {} THEN 0 ELSE CHOOSE i \in at : \A j \in at : i <= j
           n == Len(AllPatterns)
<1>1. n \in Nat \ {0} /\ DOMAIN AllPatterns = 1..n
  BY BackgroundAssumption
<1>2. idx \in Nat
  <2>1. at \in SUBSET Nat
    BY <1>1
  <2> HIDE DEF at
  <2> QED
    BY <2>1, LeastNat
<1>3. NextPattern = AllPatterns[(idx % n) + 1]
  BY DEF NextPattern
<1> HIDE DEF idx
<1>4. (idx % n) + 1 \in 1..n
  <2> HIDE DEF n
  <2> QED
    BY <1>1, <1>2
<1> QED
  BY <1>1, <1>3, <1>4 DEF Entries

\* makeConfig makes configurations.
LEMMA MakeConfigType ==
    ASSUME NEW E,
           \A e \in E : /\ e.type \in Types
                        /\ e.pattern \in Patterns
    PROVE  MakeConfig(E) \subseteq Configs
<1>1. 0..(NumPalettes - 1) \subseteq Nat
  BY BackgroundAssumption
<1> QED
  BY <1>1 DEF MakeConfig, Configs, Patterns

\* The palette of a configuration is one of PALETTES.
LEMMA PaletteOfType ==
    ASSUME NEW config \in Configs
    PROVE  PaletteOf(config) \in 0..(NumPalettes - 1)
<1>1. config.palette \in Nat /\ NumPalettes \in Nat \ {0}
  BY BackgroundAssumption DEF Configs
<1> QED
  BY <1>1 DEF PaletteOf

\* The logos of a configuration.
LEMMA PickType ==
    ASSUME NEW config \in Configs
    PROVE  PickCompanyLogos(config) \subseteq Logos
<1> SUFFICES ASSUME NEW i \in DOMAIN Picks[config.seed]
             PROVE  [url |-> Picks[config.seed][i],
                     palette |-> PaletteOf(config),
                     color |-> (i - 1) % 3] \in Logos
  BY DEF PickCompanyLogos
<1>1. config.seed \in Seeds
  BY DEF Configs
<1>2. Picks[config.seed] \in Seq(Urls)
  BY <1>1, BackgroundAssumption
<1>3. Picks[config.seed][i] \in Urls /\ i \in Nat \ {0}
  BY <1>2
<1>4. (i - 1) % 3 \in 0..2
  BY <1>3
<1> QED
  BY <1>3, <1>4, PaletteOfType DEF Logos

-----------------------------------------------------------------------------
(* Types *)

\* What TypeOK says of the variables that render changes.
PageTypeOK ==
    /\ canvas \in Canvases \cup {None}
    /\ palette \in 0..(NumPalettes - 1) \cup {None}
    /\ renders \subseteq [id : 1..started, config : Configs, size : Sizes,
                          failed : BOOLEAN]
    /\ loads \subseteq [render : 1..started, logo : Logos,
                        svg : {"none", "good", "bad"}]
    /\ overtaken \subseteq 1..started
    /\ started \in Nat

\* What render does before it awaits its logos.
LEMMA RenderSets ==
    ASSUME TypeOK, NEW config \in Configs, NEW s \in Schemes, Render(config, s)
    PROVE  /\ canvas' \in Canvases /\ canvas' # None
           /\ canvas' = [by |-> started + 1, config |-> config, size |-> size,
                         scheme |-> s, patterns |-> <<>>]
           /\ palette' = PaletteOf(config)
           /\ started' = started + 1
<1>1. canvas' = [by |-> started + 1, config |-> config, size |-> size,
                 scheme |-> s, patterns |-> <<>>]
  BY DEF Render, Cover
<1>2. started \in Nat /\ size \in Sizes /\ <<>> \in Seq(Nat)
  BY DEF TypeOK
<1>3. canvas' \in Canvases
  BY <1>1, <1>2 DEF Canvases, Schemes
<1> QED
  BY <1>1, <1>3, BackgroundAssumption DEF Render

\* A render leaves its variables in their ranges.
LEMMA RenderType ==
    ASSUME TypeOK, NEW config \in Configs, NEW s \in Schemes, Render(config, s)
    PROVE  PageTypeOK' /\ 1..started \subseteq 1..started'
<1>1. started \in Nat /\ started' = started + 1
  BY RenderSets DEF TypeOK
<1>2. 1..started \subseteq 1..started' /\ started + 1 \in 1..started'
  BY <1>1
<1>3. renders' \subseteq [id : 1..started', config : Configs, size : Sizes,
                          failed : BOOLEAN]
  <2>1. renders' = renders \cup {[id |-> started + 1, config |-> config,
                                  size |-> size, failed |-> FALSE]}
    BY DEF Render
  <2>2. size \in Sizes /\ renders \subseteq
          [id : 1..started, config : Configs, size : Sizes, failed : BOOLEAN]
    BY DEF TypeOK
  <2>3. renders \subseteq [id : 1..started', config : Configs, size : Sizes,
                           failed : BOOLEAN]
    BY <1>2, <2>2
  <2>4. [id |-> started + 1, config |-> config, size |-> size,
         failed |-> FALSE] \in
          [id : 1..started', config : Configs, size : Sizes, failed : BOOLEAN]
    BY <1>2, <2>2
  <2> QED
    BY <2>1, <2>3, <2>4
<1>4. GetColoredLogos(started + 1, config) \subseteq
        [render : 1..started', logo : Logos, svg : {"none", "good", "bad"}]
  <2> SUFFICES ASSUME NEW l \in PickCompanyLogos(config)
               PROVE  [render |-> started + 1, logo |-> l,
                       svg |-> svgTemplateCache[l.url]] \in
                        [render : 1..started', logo : Logos,
                         svg : {"none", "good", "bad"}]
    BY DEF GetColoredLogos
  <2>1. l \in Logos /\ l.url \in Urls
    BY PickType DEF Logos
  <2> QED
    BY <2>1, <1>2 DEF TypeOK
<1>5. loads' \subseteq [render : 1..started', logo : Logos,
                        svg : {"none", "good", "bad"}]
  BY <1>2, <1>4 DEF Render, TypeOK
<1>6. overtaken' \subseteq 1..started'
  BY <1>2 DEF Render, TypeOK
<1> QED
  BY <1>1, <1>2, <1>3, <1>5, <1>6, RenderSets, PaletteOfType DEF PageTypeOK

\* So does a render of the current configuration, if there is one.
LEMMA RenderCurrentType ==
    ASSUME TypeOK, NEW s \in Schemes, RenderCurrent(s)
    PROVE  PageTypeOK' /\ 1..started \subseteq 1..started'
<1>1. CASE currentConfig = None
  BY <1>1 DEF RenderCurrent, page, TypeOK, PageTypeOK
<1>2. CASE currentConfig # None
  BY <1>2, RenderType DEF RenderCurrent, TypeOK
<1> QED
  BY <1>1, <1>2

\* Whichever operation chooses a configuration, it is one, and the render is
\* a render of it.
LEMMA AdoptType ==
    ASSUME TypeOK, NEW config \in Configs, Adopt(config)
    PROVE  /\ PageTypeOK' /\ 1..started \subseteq 1..started'
           /\ currentConfig' \in Configs
           /\ cookie' \in Configs \cup {None}
<1>1. scheme \in Schemes
  BY DEF TypeOK, Schemes
<1> QED
  BY <1>1, RenderType DEF Adopt, Saved, TypeOK

\* The icon's colour is one of the colours.
LEMMA FaviconType ==
    ASSUME TypeOK, NEW s \in Schemes, ApplyFavicon(s)
    PROVE  /\ favicon' \in [scheme : {"dark", "light"}, color : Colors]
           /\ colorCookie' \in Colors \cup {None}
BY DEF ApplyFavicon, TypeOK, Schemes

\* A call leaves everything in its range if its operation does.
LEMMA CallType ==
    ASSUME TypeOK, Call,
           PageTypeOK', 1..started \subseteq 1..started',
           currentConfig' \in Configs \cup {None},
           cookie' \in Configs \cup {None}
    PROVE  TypeOK'
<1>1. events' \in 0..MaxEvents
  BY BackgroundAssumption DEF Call, Event, TypeOK
<1> QED
  BY <1>1 DEF Call, window, caches, history, TypeOK, PageTypeOK

\* What a rejected load leaves of renders and loads.
LEMMA RejectedType ==
    ASSUME TypeOK, NEW l \in loads, Rejected(l)
    PROVE  /\ renders' \subseteq [id : 1..started, config : Configs,
                                  size : Sizes, failed : BOOLEAN]
           /\ loads' \subseteq [render : 1..started, logo : Logos,
                                svg : {"none", "good", "bad"}]
<1> DEFINE R == [id : 1..started, config : Configs, size : Sizes,
                 failed : BOOLEAN]
<1>1. renders \subseteq R
  BY DEF TypeOK
<1>2. \A r \in R : [r EXCEPT !.failed = TRUE] \in R
  OBVIOUS
<1> HIDE DEF R
<1>3. renders' \subseteq R
  BY <1>1, <1>2 DEF Rejected
<1> QED
  BY <1>3 DEF R, Rejected, TypeOK

\* The rest of a render leaves canvas and text colours in their ranges.
LEMMA ResumeType ==
    ASSUME TypeOK, NEW r \in renders, canvas # None, Resume(r)
    PROVE  TypeOK' /\ canvas' \in Canvases
<1>1. /\ r.id \in 1..started /\ r.size \in Sizes
      /\ canvas \in Canvases
      /\ canvas.patterns \in Seq(Nat)
      /\ started \in Nat
  BY DEF TypeOK, Canvases
<1>2. Append(canvas.patterns, r.id) \in Seq(Nat)
  BY <1>1
<1>3. DrawPattern(r) \in Canvases
  BY <1>1, <1>2 DEF DrawPattern, Canvases
<1>4. canvas' \in Canvases
  BY <1>3 DEF Resume
<1>5. /\ text' \in Measures \cup {None}
      /\ unmeasured' \subseteq 1..started
  BY <1>1, <1>4 DEF Resume, MeasureLuminance, Measures, TypeOK
<1>6. broken' \subseteq 1..started
  BY <1>1 DEF Resume, TypeOK
<1>7. renders' \subseteq renders
  BY DEF Resume
<1> QED
  BY <1>4, <1>5, <1>6, <1>7 DEF Resume, cookies, window, caches, TypeOK

-----------------------------------------------------------------------------
(* The inductive invariants *)

\* A render that is awaiting its logos is the newest, of which the canvas
\* shows the gradient, or one that was awaiting them when the newest began.
RendersExplained ==
    \A r \in renders :
        /\ canvas # None
        /\ r.id \in {canvas.by} \cup overtaken
        /\ r.id = canvas.by => r.config = canvas.config /\ r.size = canvas.size

\* Types, with what makes the resumption of a render one.
RenderInv == TypeOK /\ RendersExplained

\* The page is loaded with everything in its range and nothing rendering.
LEMMA InitRenderInv == Init => RenderInv
<1> SUFFICES ASSUME Init PROVE RenderInv
  OBVIOUS
<1>1. 0 \in 0..MaxEvents /\ 0 \in 0..MaxFaults /\ 0 \in Nat
  BY BackgroundAssumption
<1>2. cookie \in Configs \cup {None} /\ colorCookie \in Colors \cup {None}
  BY BackgroundAssumption DEF Init
<1>3. favicon \in [scheme : {"dark", "light"}, color : Colors]
  BY DEF Init
<1> QED
  BY <1>1, <1>2, <1>3 DEF Init, RenderInv, TypeOK, RendersExplained

\* A new render is explained as the newest, the others as overtaken.
LEMMA RenderExplains ==
    ASSUME RenderInv, NEW config \in Configs, NEW s \in Schemes,
           Render(config, s)
    PROVE  RendersExplained'
<1> DEFINE new == [id |-> started + 1, config |-> config, size |-> size,
                   failed |-> FALSE]
<1>1. renders' = renders \cup {new} /\ overtaken' = {r.id : r \in renders}
  BY DEF Render
<1>2. /\ canvas' # None /\ canvas'.by = started + 1
      /\ canvas'.config = config /\ canvas'.size = size
  BY RenderSets DEF RenderInv
<1>3. \A r \in renders : r.id \in 1..started /\ started \in Nat
  BY DEF RenderInv, TypeOK
<1>4. \A r \in renders : r.id # started + 1
  BY <1>3
<1>5. new.id = started + 1 /\ new.config = config /\ new.size = size
  OBVIOUS
<1> HIDE DEF new
<1> QED
  BY <1>1, <1>2, <1>4, <1>5 DEF RendersExplained

\* A render whose logos failed is still the render it was.
LEMMA RejectedExplains ==
    ASSUME RenderInv, NEW l \in loads, Rejected(l),
           UNCHANGED <<canvas, overtaken>>
    PROVE  RendersExplained'
<1>1. ASSUME NEW q \in renders'
      PROVE  \E r \in renders :
               q.id = r.id /\ q.config = r.config /\ q.size = r.size
  BY DEF RenderInv, TypeOK, Rejected
<1> QED
  BY <1>1 DEF RenderInv, RendersExplained

\* Every step keeps the types and explains the renders.
LEMMA StepRenderInv == RenderInv /\ [Next]_vars => RenderInv'
<1> SUFFICES ASSUME RenderInv, [Next]_vars PROVE RenderInv'
  OBVIOUS
<1>0. TypeOK /\ RendersExplained /\ scheme \in Schemes
  BY DEF RenderInv, TypeOK, Schemes
<1>1. CASE UNCHANGED vars
  BY <1>0, <1>1 DEF vars, RenderInv, TypeOK, RendersExplained
\* A call that adopts or restores a configuration.
<1>2. ASSUME Call, NEW config \in Configs, currentConfig' = config,
             cookie' \in Configs \cup {None}, Render(config, scheme)
      PROVE  RenderInv'
  BY <1>0, <1>2, RenderType, CallType, RenderExplains DEF RenderInv
\* A call of set, or of cycle without a configuration.
<1>3. ASSUME Call, NEW mode, SetMode(mode) PROVE RenderInv'
  <2>1. CASE cookie # None /\ mode = "random" /\ currentConfig' = cookie
             /\ UNCHANGED cookie /\ Render(cookie, scheme)
    <3>1. cookie \in Configs
      BY <1>0, <2>1 DEF TypeOK
    <3> QED
      BY <1>2, <1>3, <2>1, <3>1
  <2>2. ASSUME NEW c \in MakeConfig({e \in Entries :
                                        mode \in {"random", e.type}}),
               Adopt(c)
        PROVE  RenderInv'
    <3>1. c \in Configs
      BY MakeConfigType, BackgroundAssumption DEF Patterns
    <3>2. cookie' \in Configs \cup {None}
      BY <1>0, <2>2, <3>1, AdoptType
    <3> QED
      BY <1>2, <1>3, <2>2, <3>1, <3>2 DEF Adopt
  <2> QED
    BY <1>3, <2>1, <2>2 DEF SetMode
<1>4. ASSUME Call, NEW E, NEW c \in MakeConfig(E), Adopt(c),
             \A e \in E : /\ e.type \in Types
                          /\ e.pattern \in Patterns
      PROVE  RenderInv'
  <2>1. c \in Configs
    BY <1>4, MakeConfigType
  <2>2. cookie' \in Configs \cup {None}
    BY <1>0, <1>4, <2>1, AdoptType
  <2> QED
    BY <1>2, <1>4, <2>1, <2>2 DEF Adopt
<1>5. ASSUME NEW mode, Set(mode) PROVE RenderInv'
  BY <1>3, <1>5 DEF Set
<1>6. ASSUME NEW type \in Types, NEW c \in OldConfigs,
             SetExact(type, c.pattern)
      PROVE  RenderInv'
  <2>1. c.pattern \in Patterns
    BY BackgroundAssumption DEF Configs, Patterns
  <2> QED
    BY <1>4, <1>6, <2>1 DEF SetExact
<1>7. CASE Cycle
  <2>1. CASE currentConfig = None
    BY <1>3, <1>7, <2>1 DEF Cycle
  <2>2. CASE currentConfig # None
    <3>1. /\ NextPattern.type \in Types
          /\ NextPattern.pattern \in Patterns
      BY NextPatternListed, BackgroundAssumption DEF Patterns
    <3> QED
      BY <1>4, <1>7, <2>2, <3>1 DEF Cycle
  <2> QED
    BY <2>1, <2>2
\* A render of the current configuration, or none.
<1>8. ASSUME NEW s \in Schemes, RenderCurrent(s)
      PROVE  /\ PageTypeOK' /\ 1..started \subseteq 1..started'
             /\ RendersExplained'
  <2>1. CASE currentConfig = None
    BY <1>0, <1>8, <2>1, RenderCurrentType
    DEF RenderCurrent, page, RendersExplained
  <2>2. CASE currentConfig # None
    <3>1. currentConfig \in Configs /\ Render(currentConfig, s)
      BY <1>0, <1>8, <2>2 DEF RenderCurrent, TypeOK
    <3> QED
      BY <1>0, <1>8, <3>1, RenderCurrentType, RenderExplains
  <2> QED
    BY <2>1, <2>2
<1>9. CASE Redraw
  <2>1. Call /\ RenderCurrent(scheme) /\ UNCHANGED <<cookie, currentConfig>>
    BY <1>9 DEF Redraw
  <2>2. /\ cookie' \in Configs \cup {None}
        /\ currentConfig' \in Configs \cup {None}
    BY <1>0, <2>1 DEF TypeOK
  <2> QED
    BY <1>0, <1>8, <2>1, <2>2, CallType DEF RenderInv
<1>10. CASE ClearConfig
  <2>1. /\ Call /\ UNCHANGED page
        /\ cookie' = None /\ currentConfig' = None
    BY <1>10 DEF ClearConfig
  <2>2. PageTypeOK' /\ 1..started \subseteq 1..started'
    BY <1>0, <2>1 DEF page, PageTypeOK, TypeOK
  <2>3. RendersExplained'
    BY <1>0, <2>1 DEF page, RendersExplained
  <2> QED
    BY <1>0, <2>1, <2>2, <2>3, CallType DEF RenderInv
<1>11. ASSUME NEW s \in Sizes, Resize(s) PROVE RenderInv'
  <2>1. events' \in 0..MaxEvents
    BY <1>0, <1>11, BackgroundAssumption DEF Resize, Event, TypeOK
  <2> QED
    BY <1>0, <1>11, <2>1
    DEF Resize, cookies, page, caches, history, TypeOK, RenderInv,
        RendersExplained
<1>12. CASE ResizeTimer
  <2>1. PageTypeOK' /\ 1..started \subseteq 1..started' /\ RendersExplained'
    BY <1>0, <1>8, <1>12 DEF ResizeTimer
  <2> QED
    BY <1>0, <1>12, <2>1
    DEF ResizeTimer, cookies, window, caches, history, TypeOK, PageTypeOK,
        RenderInv
<1>13. CASE SchemeChanges
  <2>1. scheme' \in Schemes
    BY <1>13 DEF SchemeChanges, Schemes
  <2>2. ApplyFavicon(scheme') /\ RenderCurrent(scheme')
    BY <1>13 DEF SchemeChanges, SchemeListeners
  <2>3. PageTypeOK' /\ 1..started \subseteq 1..started' /\ RendersExplained'
    BY <1>8, <2>1, <2>2
  <2>4. /\ favicon' \in [scheme : {"dark", "light"}, color : Colors]
        /\ colorCookie' \in Colors \cup {None}
    BY <1>0, <2>1, <2>2, FaviconType
  <2>5. events' \in 0..MaxEvents
    BY <1>0, <1>13, BackgroundAssumption DEF SchemeChanges, Event, TypeOK
  <2> QED
    BY <1>0, <1>13, <2>1, <2>3, <2>4, <2>5
    DEF SchemeChanges, caches, history, Schemes, TypeOK, PageTypeOK, RenderInv
<1>14. CASE Reload
  <2>1. /\ favicon' \in [scheme : {"dark", "light"}, color : Colors]
        /\ colorCookie' \in Colors \cup {None}
    BY <1>0, <1>14, FaviconType DEF Reload
  <2>2. events' \in 0..MaxEvents
    BY <1>0, <1>14, BackgroundAssumption DEF Reload, Event, TypeOK
  <2> QED
    BY <1>0, <1>14, <2>1, <2>2
    DEF Reload, Loaded, TypeOK, RenderInv, RendersExplained
<1>15. ASSUME NEW r \in renders, Resume(r) PROVE RenderInv'
  <2>1. canvas # None /\ canvas \in Canvases
    BY <1>0 DEF RendersExplained, TypeOK
  <2>2. TypeOK' /\ canvas' \in Canvases
    BY <1>0, <1>15, <2>1, ResumeType
  <2>3. /\ canvas'.by = canvas.by /\ canvas'.config = canvas.config
        /\ canvas'.size = canvas.size
    BY <1>15, <2>1 DEF Resume, DrawPattern, Canvases
  <2>4. canvas' # None
    BY <2>2, BackgroundAssumption
  <2> QED
    BY <1>0, <1>15, <2>2, <2>3, <2>4 DEF Resume, RenderInv, RendersExplained
<1>16. ASSUME NEW l \in loads, NEW svg \in {"good", "bad"},
              NEW kept \in {"none", "good", "bad"}, Fetched(l, svg, kept)
       PROVE  RenderInv'
  <2>1. loads' \subseteq [render : 1..started, logo : Logos,
                          svg : {"none", "good", "bad"}]
    BY <1>0, <1>16 DEF Fetched, TypeOK
  <2>2. faults' \in 0..MaxFaults
    BY <1>0, <1>16, BackgroundAssumption DEF Fetched, TypeOK
  <2>3. svgTemplateCache' \in [Urls -> {"none", "good", "bad"}]
    BY <1>0, <1>16 DEF Fetched, TypeOK
  <2> QED
    BY <1>0, <1>16, <2>1, <2>2, <2>3
    DEF Fetched, cookies, window, history, TypeOK, RenderInv, RendersExplained
<1>17. ASSUME NEW l \in loads, FetchFails(l) PROVE RenderInv'
  <2>1. faults' \in 0..MaxFaults
    BY <1>0, <1>17, BackgroundAssumption DEF FetchFails, TypeOK
  <2>2. Rejected(l) /\ UNCHANGED <<canvas, overtaken>>
    BY <1>17 DEF FetchFails
  <2>3. RendersExplained'
    BY <2>2, RejectedExplains
  <2> QED
    BY <1>0, <1>17, <2>1, <2>2, <2>3, RejectedType
    DEF FetchFails, cookies, window, caches, history, TypeOK, RenderInv
<1>18. ASSUME NEW l \in loads, Decoded(l) PROVE RenderInv'
  <2>0. l.logo \in Logos
    BY <1>0 DEF TypeOK
  <2>1. CASE Rejected(l) /\ UNCHANGED coloredLogoCache
    <3>1. RendersExplained'
      BY <1>18, <2>1, RejectedExplains DEF Decoded
    <3> QED
      BY <1>0, <1>18, <2>1, <3>1, RejectedType
      DEF Decoded, cookies, window, history, TypeOK, RenderInv
  <2>2. CASE /\ coloredLogoCache' = coloredLogoCache \cup {l.logo}
             /\ loads' = loads \ {l} /\ UNCHANGED renders
    BY <1>0, <1>18, <2>0, <2>2
    DEF Decoded, cookies, window, history, TypeOK, RenderInv, RendersExplained
  <2> QED
    BY <1>18, <2>1, <2>2 DEF Decoded, ImageEnds
<1> QED
  BY <1>1, <1>5, <1>6, <1>7, <1>9, <1>10, <1>11, <1>12, <1>13, <1>14, <1>15,
     <1>16, <1>17, <1>18 DEF Next, Loading

\* Every variable stays in its range, whatever overlaps: in particular the
\* page's palette is one of PALETTES, although a cookie of another version may
\* name one that is not.
THEOREM TypeCorrect == Spec => []TypeOK
<1>1. RenderInv => TypeOK
  BY DEF RenderInv
<1> QED
  BY InitRenderInv, StepRenderInv, <1>1, PTL DEF Spec

-----------------------------------------------------------------------------
(* What a step can do to the page *)

\* A configuration is chosen, saved and rendered.
Chooses(config) ==
    /\ Render(config, scheme)
    /\ currentConfig' = config
    /\ ~blocked => cookie' = config
    /\ UNCHANGED <<blocked, scheme, size, resizeTimer, text, broken,
                   unmeasured>>

\* The current one is rendered again.
Rerenders ==
    /\ currentConfig # None
    /\ Render(currentConfig, scheme')
    /\ UNCHANGED <<blocked, cookie, currentConfig, size, text, broken,
                   unmeasured>>

\* There is no configuration afterwards; the canvas stays, or the page is new.
Forgets ==
    /\ currentConfig' = None
    /\ \/ canvas' = None
       \/ UNCHANGED <<canvas, text, renders, overtaken, broken, unmeasured>>

\* Logos are loaded or fail, or the window changes its size.
Keeps ==
    /\ UNCHANGED <<blocked, cookie, currentConfig, scheme, canvas, palette,
                   text, overtaken, broken, unmeasured>>
    /\ resizeTimer' \/ UNCHANGED <<size, resizeTimer>>
    /\ \A r \in renders : \E q \in renders' : q.id = r.id

\* Every step is one of these, or the rest of a render.
LEMMA StepKinds ==
    ASSUME RenderInv, [Next]_vars
    PROVE  \/ \E config \in Configs : Chooses(config)
           \/ Rerenders
           \/ Forgets
           \/ Keeps
           \/ \E r \in renders : Resume(r)
<1>0. TypeOK /\ scheme \in Schemes
  BY DEF RenderInv, TypeOK, Schemes
<1>1. CASE UNCHANGED vars
  BY <1>1 DEF vars, Keeps
<1>2. ASSUME Call, NEW c \in Configs, Adopt(c) PROVE Chooses(c)
  BY <1>2 DEF Call, Adopt, Saved, Chooses, window, history
<1>3. ASSUME Call, NEW mode, SetMode(mode)
      PROVE  \E config \in Configs : Chooses(config)
  <2>1. CASE cookie # None /\ mode = "random" /\ currentConfig' = cookie
             /\ UNCHANGED cookie /\ Render(cookie, scheme)
    <3>1. cookie \in Configs
      BY <1>0, <2>1 DEF TypeOK
    <3>2. Chooses(cookie)
      BY <1>3, <2>1 DEF Call, Chooses, window, history
    <3> QED
      BY <3>1, <3>2
  <2>2. ASSUME NEW c \in MakeConfig({e \in Entries :
                                        mode \in {"random", e.type}}),
               Adopt(c)
        PROVE  \E config \in Configs : Chooses(config)
    <3>1. c \in Configs
      BY MakeConfigType, BackgroundAssumption DEF Patterns
    <3> QED
      BY <1>2, <1>3, <2>2, <3>1
  <2> QED
    BY <1>3, <2>1, <2>2 DEF SetMode
<1>4. ASSUME NEW mode, Set(mode) PROVE \E config \in Configs : Chooses(config)
  BY <1>3, <1>4 DEF Set
<1>5. ASSUME NEW type \in Types, NEW c \in OldConfigs,
             SetExact(type, c.pattern)
      PROVE  \E config \in Configs : Chooses(config)
  <2>1. c.pattern \in Patterns
    BY BackgroundAssumption DEF Configs, Patterns
  <2>2. MakeConfig({[type |-> type, pattern |-> c.pattern]}) \subseteq Configs
    BY <2>1, MakeConfigType
  <2> QED
    BY <1>2, <1>5, <2>2 DEF SetExact
<1>6. CASE Cycle
  <2>1. CASE currentConfig = None
    BY <1>3, <1>6, <2>1 DEF Cycle
  <2>2. CASE currentConfig # None
    <3>1. /\ NextPattern.type \in Types
          /\ NextPattern.pattern \in Patterns
      BY NextPatternListed, BackgroundAssumption DEF Patterns
    <3>2. MakeConfig({NextPattern}) \subseteq Configs
      BY <3>1, MakeConfigType
    <3> QED
      BY <1>2, <1>6, <2>2, <3>2 DEF Cycle
  <2> QED
    BY <2>1, <2>2
<1>7. ASSUME RenderCurrent(scheme'),
             UNCHANGED <<blocked, cookie, currentConfig, size, text, broken,
                         unmeasured>>
      PROVE  Rerenders \/ Forgets
  BY <1>7 DEF RenderCurrent, Rerenders, Forgets, page
<1>8. CASE Redraw
  BY <1>7, <1>8 DEF Redraw, Call, window, history
<1>9. CASE ClearConfig
  BY <1>9 DEF ClearConfig, Call, page, history, Forgets
<1>10. ASSUME NEW s \in Sizes, Resize(s) PROVE Keeps
  BY <1>10 DEF Resize, cookies, page, history, Keeps
<1>11. CASE ResizeTimer
  BY <1>7, <1>11 DEF ResizeTimer, cookies, window, history
<1>12. CASE SchemeChanges
  BY <1>7, <1>12 DEF SchemeChanges, SchemeListeners, history
<1>13. CASE Reload
  BY <1>13 DEF Reload, Loaded, Forgets
<1>14. ASSUME NEW l \in loads, Rejected(l), NEW r \in renders
       PROVE  \E q \in renders' : q.id = r.id
  <2>1. [r EXCEPT !.failed = TRUE].id = r.id
    BY <1>0 DEF TypeOK
  <2>2. CASE r.id = l.render
    BY <1>14, <2>1, <2>2 DEF Rejected
  <2>3. CASE r.id # l.render
    BY <1>14, <2>3 DEF Rejected
  <2> QED
    BY <2>2, <2>3
<1>15. ASSUME NEW l \in loads, NEW svg, NEW kept, Fetched(l, svg, kept)
       PROVE  Keeps
  BY <1>15 DEF Fetched, cookies, window, history, Keeps
<1>16. ASSUME NEW l \in loads, FetchFails(l) PROVE Keeps
  BY <1>14, <1>16 DEF FetchFails, cookies, window, history, Keeps
<1>17. ASSUME NEW l \in loads, Decoded(l) PROVE Keeps
  BY <1>14, <1>17 DEF Decoded, ImageEnds, cookies, window, history, Keeps
<1> QED
  BY <1>1, <1>4, <1>5, <1>6, <1>8, <1>9, <1>10, <1>11, <1>12, <1>13, <1>15,
     <1>16, <1>17 DEF Next, Loading

-----------------------------------------------------------------------------
(* The theorems *)

\* The canvas keeps what its render covered it with when a pattern is added.
LEMMA ResumeKeeps ==
    ASSUME RenderInv, NEW r \in renders, Resume(r)
    PROVE  /\ canvas # None /\ canvas \in Canvases
           /\ canvas' # None
           /\ canvas'.by = canvas.by /\ canvas'.config = canvas.config
           /\ canvas'.scheme = canvas.scheme /\ canvas'.size = canvas.size
<1>1. canvas # None /\ canvas \in Canvases
  BY DEF RenderInv, RendersExplained, TypeOK
<1>2. canvas' \in Canvases
  BY <1>1, ResumeType DEF RenderInv
<1>3. /\ canvas'.by = canvas.by /\ canvas'.config = canvas.config
      /\ canvas'.scheme = canvas.scheme /\ canvas'.size = canvas.size
  BY <1>1 DEF Resume, DrawPattern, Canvases
<1> QED
  BY <1>1, <1>2, <1>3, BackgroundAssumption

\* The cookie holds the configuration in use, whatever the user, the window
\* and the network do.
THEOREM ConfigIsSaved == Spec => []SavedIsCurrent
<1>1. Init => SavedIsCurrent
  BY DEF Init, SavedIsCurrent
<1>2. RenderInv /\ SavedIsCurrent /\ [Next]_vars => SavedIsCurrent'
  <2> SUFFICES ASSUME RenderInv, SavedIsCurrent, [Next]_vars
               PROVE  SavedIsCurrent'
    OBVIOUS
  <2>1. ASSUME NEW config \in Configs, Chooses(config) PROVE SavedIsCurrent'
    BY <2>1 DEF Chooses, SavedIsCurrent
  <2>2. CASE Rerenders
    BY <2>2 DEF Rerenders, SavedIsCurrent
  <2>3. CASE Forgets
    BY <2>3 DEF Forgets, SavedIsCurrent
  <2>4. CASE Keeps
    BY <2>4 DEF Keeps, SavedIsCurrent
  <2>5. ASSUME NEW r \in renders, Resume(r) PROVE SavedIsCurrent'
    BY <2>5 DEF Resume, cookies, SavedIsCurrent
  <2> QED
    BY <2>1, <2>2, <2>3, <2>4, <2>5, StepKinds
<1> QED
  BY InitRenderInv, StepRenderInv, <1>1, <1>2, PTL DEF Spec

\* Palette, gradient, scheme and size of the page are those in use, however
\* many renders overlap: a render that goes on late only adds its pattern.
THEOREM PageFollows == Spec => []PageIsCurrent
<1>1. Init => PageIsCurrent
  BY DEF Init, PageIsCurrent
<1>2. RenderInv /\ PageIsCurrent /\ [Next]_vars => PageIsCurrent'
  <2> SUFFICES ASSUME RenderInv, PageIsCurrent, [Next]_vars
               PROVE  PageIsCurrent'
    OBVIOUS
  <2>0. TypeOK /\ scheme \in Schemes /\ scheme' \in Schemes
    BY StepRenderInv DEF RenderInv, TypeOK, Schemes
  <2>1. ASSUME NEW config \in Configs, Chooses(config) PROVE PageIsCurrent'
    <3>1. /\ canvas' # None /\ palette' = PaletteOf(config)
          /\ canvas'.config = config /\ canvas'.scheme = scheme
          /\ canvas'.size = size
      BY <2>0, <2>1, RenderSets DEF Chooses
    <3>2. currentConfig' = config /\ scheme' = scheme /\ size' = size
      BY <2>1 DEF Chooses
    <3> QED
      BY <3>1, <3>2 DEF PageIsCurrent, PaletteOf
  <2>2. CASE Rerenders
    <3>1. currentConfig \in Configs /\ Render(currentConfig, scheme')
      BY <2>0, <2>2 DEF Rerenders, TypeOK
    <3>2. /\ canvas' # None /\ palette' = PaletteOf(currentConfig)
          /\ canvas'.config = currentConfig /\ canvas'.scheme = scheme'
          /\ canvas'.size = size
      BY <2>0, <3>1, RenderSets
    <3>3. currentConfig' = currentConfig /\ size' = size
      BY <2>2 DEF Rerenders
    <3> QED
      BY <3>2, <3>3 DEF PageIsCurrent, PaletteOf
  <2>3. CASE Forgets
    BY <2>3 DEF Forgets, PageIsCurrent
  <2>4. CASE Keeps
    BY <2>4 DEF Keeps, PageIsCurrent, PaletteOf
  <2>5. ASSUME NEW r \in renders, Resume(r) PROVE PageIsCurrent'
    BY <2>5, ResumeKeeps DEF Resume, window, PageIsCurrent, PaletteOf
  <2> QED
    BY <2>1, <2>2, <2>3, <2>4, <2>5, StepKinds
<1> QED
  BY InitRenderInv, StepRenderInv, <1>1, <1>2, PTL DEF Spec

\* A pattern on the canvas is that of the newest render or of one it overtook,
\* and the newest render draws its own unless its logos failed: no render is
\* lost, however late its logos arrive.
THEOREM PatternsAreExplained == Spec => []PatternsExplained
<1>1. Init => PatternsExplained
  BY DEF Init, PatternsExplained
<1>2. RenderInv /\ PatternsExplained /\ [Next]_vars => PatternsExplained'
  <2> SUFFICES ASSUME RenderInv, PatternsExplained, [Next]_vars
               PROVE  PatternsExplained'
    OBVIOUS
  <2>0. TypeOK /\ scheme \in Schemes /\ scheme' \in Schemes
    BY StepRenderInv DEF RenderInv, TypeOK, Schemes
  \* A render has drawn nothing yet.
  <2>1. ASSUME NEW config \in Configs, NEW s \in Schemes, Render(config, s)
        PROVE  PatternsExplained'
    <3>1. canvas' = [by |-> started + 1, config |-> config, size |-> size,
                     scheme |-> s, patterns |-> <<>>]
      BY <2>0, <2>1, RenderSets
    <3>2. canvas'.patterns = <<>> /\ canvas'.by = started + 1
      BY <3>1
    <3>3. \E r \in renders' : r.id = started + 1
      <4> DEFINE new == [id |-> started + 1, config |-> config, size |-> size,
                         failed |-> FALSE]
      <4>1. new \in renders'
        BY <2>1 DEF Render
      <4>2. new.id = started + 1
        OBVIOUS
      <4> QED
        BY <4>1, <4>2
    <3>4. DOMAIN canvas'.patterns = {}
      BY <3>2
    <3> QED
      BY <3>2, <3>3, <3>4 DEF PatternsExplained
  <2>2. ASSUME NEW config \in Configs, Chooses(config) PROVE PatternsExplained'
    BY <2>0, <2>1, <2>2 DEF Chooses
  <2>3. CASE Rerenders
    BY <2>0, <2>1, <2>3 DEF Rerenders, TypeOK
  <2>4. CASE Forgets
    BY <2>4 DEF Forgets, PatternsExplained, Drawn, HasRenderer
  <2>5. CASE Keeps
    BY <2>5 DEF Keeps, PatternsExplained, Drawn, HasRenderer
  \* The rest of a render.
  <2>6. ASSUME NEW r \in renders, Resume(r) PROVE PatternsExplained'
    <3>1. /\ canvas # None /\ canvas.patterns \in Seq(Nat)
          /\ canvas'.by = canvas.by /\ canvas'.config = canvas.config
      BY <2>6, ResumeKeeps DEF Canvases
    <3>2. /\ r.id \in {canvas.by} \cup overtaken
          /\ r.id = canvas.by => r.config = canvas.config
      BY DEF RenderInv, RendersExplained
    <3>3. /\ overtaken' = overtaken
          /\ renders' = renders \ {r}
          /\ broken' = IF r.failed THEN broken \cup {r.id} ELSE broken
      BY <2>6 DEF Resume
    <3>4. CASE ~r.failed /\ HasRenderer(r.config)
      <4>1. canvas'.patterns = Append(canvas.patterns, r.id)
        BY <2>6, <3>4, ResumeKeeps DEF Resume, DrawPattern, Canvases
      <4>2. /\ DOMAIN canvas'.patterns = 1..(Len(canvas.patterns) + 1)
            /\ canvas'.patterns[Len(canvas.patterns) + 1] = r.id
            /\ \A i \in DOMAIN canvas.patterns :
                 /\ i \in DOMAIN canvas'.patterns
                 /\ canvas'.patterns[i] = canvas.patterns[i]
            /\ \A i \in DOMAIN canvas'.patterns :
                 i \in DOMAIN canvas.patterns \/ i = Len(canvas.patterns) + 1
        BY <3>1, <4>1
      <4>3. \A i \in DOMAIN canvas'.patterns :
              canvas'.patterns[i] \in {canvas.by} \cup overtaken
        BY <3>1, <3>2, <4>2 DEF PatternsExplained
      <4>4. Drawn(r.id)'
        BY <3>1, <4>2 DEF Drawn
      <4>5. ASSUME NEW id, Drawn(id) PROVE Drawn(id)'
        BY <4>2, <4>5 DEF Drawn
      <4> QED
        BY <3>1, <3>2, <3>3, <4>3, <4>4, <4>5
        DEF PatternsExplained, HasRenderer
    <3>5. CASE ~(~r.failed /\ HasRenderer(r.config))
      <4>1. canvas' = canvas
        BY <2>6, <3>5 DEF Resume, DrawPattern
      <4> QED
        BY <3>2, <3>3, <3>5, <4>1 DEF PatternsExplained, Drawn, HasRenderer
    <3> QED
      BY <3>4, <3>5
  <2> QED
    BY <2>2, <2>3, <2>4, <2>5, <2>6, StepKinds
<1> QED
  BY InitRenderInv, StepRenderInv, <1>1, <1>2, PTL DEF Spec

\* Once all renders are over the text colours were measured on the canvas as
\* it is, and over its size if the newest render overtook none.
THEOREM TextFollows == Spec => []TextIsMeasured
<1>1. Init => TextIsMeasured
  BY DEF Init, TextIsMeasured
<1>2. RenderInv /\ TextIsMeasured /\ [Next]_vars => TextIsMeasured'
  <2> SUFFICES ASSUME RenderInv, TextIsMeasured, [Next]_vars
               PROVE  TextIsMeasured'
    OBVIOUS
  \* A render is not over.
  <2>1. ASSUME NEW config, NEW s, Render(config, s) PROVE TextIsMeasured'
    <3>1. renders' # {}
      BY <2>1 DEF Render
    <3> QED
      BY <3>1 DEF TextIsMeasured
  <2>2. ASSUME NEW config \in Configs, Chooses(config) PROVE TextIsMeasured'
    BY <2>1, <2>2 DEF Chooses
  <2>3. CASE Rerenders
    BY <2>1, <2>3 DEF Rerenders
  <2>4. CASE Forgets
    BY <2>4 DEF Forgets, TextIsMeasured
  <2>5. CASE Keeps
    <3>1. renders' = {} => renders = {}
      BY <2>5 DEF Keeps
    <3> QED
      BY <2>5, <3>1 DEF Keeps, TextIsMeasured
  \* The last one to go on measures what it leaves.
  <2>6. ASSUME NEW r \in renders, Resume(r) PROVE TextIsMeasured'
    <3>1. CASE r.size = 0
      <4>1. unmeasured' # {}
        BY <2>6, <3>1 DEF Resume, MeasureLuminance
      <4> QED
        BY <4>1 DEF TextIsMeasured
    <3>2. CASE r.size # 0
      <4>1. text' = [canvas |-> canvas', area |-> r.size]
        BY <2>6, <3>2 DEF Resume, MeasureLuminance
      <4>2. canvas' \in Canvases /\ canvas'.size = canvas.size
        BY <2>6, ResumeKeeps, ResumeType DEF RenderInv
      <4>3. r.size \in Sizes
        BY DEF RenderInv, TypeOK
      <4>4. text' # None
        BY <4>1, <4>2, <4>3, BackgroundAssumption DEF Measures
      <4>5. overtaken = {} => r.size = canvas.size
        BY DEF RenderInv, RendersExplained
      <4>6. overtaken' = overtaken
        BY <2>6 DEF Resume
      <4> QED
        BY <4>1, <4>2, <4>4, <4>5, <4>6 DEF TextIsMeasured
    <3> QED
      BY <3>1, <3>2
  <2> QED
    BY <2>2, <2>3, <2>4, <2>5, <2>6, StepKinds
<1> QED
  BY InitRenderInv, StepRenderInv, <1>1, <1>2, PTL DEF Spec

\* Where cookies are kept, the one of the icon has the colour that is shown.
ColorSaved == ~blocked => colorCookie \in Colors /\ colorCookie = favicon.color

\* No step changes the icon's colour.
THEOREM ColorStays == Spec => ColorIsKept
<1>1. Init => ColorSaved
  BY DEF Init, ColorSaved
<1>2. ASSUME ColorSaved, [Next]_vars
      PROVE  ColorSaved' /\ (~blocked => favicon'.color = favicon.color)
  <2>1. ASSUME NEW s, ApplyFavicon(s), UNCHANGED blocked
        PROVE  ColorSaved' /\ (~blocked => favicon'.color = favicon.color)
    BY <1>2, <2>1, BackgroundAssumption DEF ApplyFavicon, ColorSaved
  <2>2. CASE SchemeChanges
    BY <2>1, <2>2 DEF SchemeChanges, SchemeListeners
  <2>3. CASE Reload
    BY <2>1, <2>3 DEF Reload
  <2>4. ASSUME UNCHANGED <<blocked, colorCookie, favicon>>
        PROVE  ColorSaved' /\ (~blocked => favicon'.color = favicon.color)
    BY <1>2, <2>4 DEF ColorSaved
  <2>5. CASE UNCHANGED vars
    BY <2>4, <2>5 DEF vars
  <2>6. CASE Call
    BY <2>4, <2>6 DEF Call, window
  <2>7. ASSUME NEW s, Resize(s)
        PROVE  UNCHANGED <<blocked, colorCookie, favicon>>
    BY <2>7 DEF Resize, cookies
  <2>8. CASE ResizeTimer
    BY <2>4, <2>8 DEF ResizeTimer, cookies, window
  <2>9. ASSUME NEW r, Resume(r)
        PROVE  UNCHANGED <<blocked, colorCookie, favicon>>
    BY <2>9 DEF Resume, cookies, window
  <2>10. CASE Loading
    BY <2>4, <2>10 DEF Loading, Fetched, FetchFails, Decoded, cookies, window
  <2> QED
    BY <1>2, <2>2, <2>3, <2>4, <2>5, <2>6, <2>7, <2>8, <2>9, <2>10
    DEF Next, Set, SetExact, Cycle, Redraw, ClearConfig
<1>3. ColorSaved /\ [Next]_vars
        => ColorSaved' /\ [~blocked => favicon'.color = favicon.color]_vars
  BY <1>2
<1> QED
  BY <1>1, <1>3, PTL DEF Spec, ColorIsKept
=============================================================================
