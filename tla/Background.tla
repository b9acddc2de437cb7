----------------------------- MODULE Background -----------------------------
(***************************************************************************)
(* The generated background of the page (background.ts) and its tab icon   *)
(* (favicon.ts).  render draws a gradient at once and its pattern of       *)
(* company logos when these are loaded; meanwhile the window is resized,   *)
(* the colour scheme changes or another background is asked for, and the   *)
(* renders share one canvas, two caches and the page's colours.  The       *)
(* configuration and the icon's colour are kept in cookies, which survive  *)
(* the page.                                                               *)
(*                                                                         *)
(* What is on the canvas is kept as the patterns drawn over the gradient.  *)
(* Seed and zoom are one value, which decides the logos.  The page calls   *)
(* Set("random") alone; the other operations are exported.                 *)
(***************************************************************************)
EXTENDS Naturals, Sequences, FiniteSets

CONSTANTS
    AllPatterns,   \* the sequence of [type, pattern]
    Unknown,       \* a pattern without a renderer
    NumPalettes,   \* PALETTES.length
    Picks,         \* for every seed the sequence of logos it picks
    Sizes,         \* of the window; at 0 it has no pixels
    Colors,        \* of the icon
    OldConfigs,    \* what an earlier visit may have left in the cookie
    None,          \* null; no cookie
    MaxEvents,     \* bound on what the user and the window do
    MaxFaults      \* bound on what goes wrong in the network

Entries == {AllPatterns[i] : i \in DOMAIN AllPatterns}
Types == {"favicon", "retro"}
Seeds == DOMAIN Picks
Urls == UNION {{Picks[s][i] : i \in DOMAIN Picks[s]} : s \in Seeds}

\* BgConfig.
Configs ==
    [type : Types, pattern : {e.pattern : e \in Entries} \cup {Unknown},
     palette : Nat, seed : Seeds]

\* What bgCanvas can show.
Canvases ==
    [by : Nat, config : Configs, size : Sizes, scheme : {"dark", "light"},
     patterns : Seq(Nat)]

\* What the text colours were measured on, and over which size.
Measures == [canvas : Canvases, area : Sizes]

ASSUME BackgroundAssumption ==
    /\ AllPatterns \in Seq(Entries) \ {<<>>}
    /\ \A e \in Entries : e.type \in Types /\ e.pattern # Unknown
    /\ NumPalettes \in Nat \ {0}
    /\ \A s \in Seeds : Picks[s] \in Seq(Urls) \ {<<>>}
    /\ Sizes \subseteq Nat
    /\ OldConfigs \subseteq Configs
    /\ None \notin Configs \cup Canvases \cup Measures \cup Colors
    /\ MaxEvents \in Nat /\ MaxFaults \in Nat

VARIABLES
    blocked,        \* does the browser keep no cookies
    cookie,         \* fh-bg-config, None if there is none that can be read
    colorCookie,    \* fh-favicon-color, None if it is not one of Colors
    scheme, size,   \* of the window
    favicon,        \* the icon's link: scheme and colour
    currentConfig,
    resizeTimer,    \* is it running
    canvas,         \* bgCanvas: the render that has sized and covered it, with
                    \* size and scheme of then, and the patterns drawn since
    palette,        \* of the page's colours
    text,           \* the text colours: the canvas they were measured on, the
                    \* size that was measured
    svgTemplateCache,   \* for every URL "none", "good" or "bad"
    coloredLogoCache,   \* a set of logos
    renders,        \* calls of render that are awaiting their logos
    loads,          \* calls of getColoredLogo that are not done
    started,        \* number of calls of render since the page was loaded
    broken,         \* (history) the renders whose logos could not be loaded
    unmeasured,     \* (history) the renders without pixels to measure
    overtaken,      \* (history) the renders the newest one started among
    events, faults

vars == <<blocked, cookie, colorCookie, scheme, size, favicon, currentConfig,
          resizeTimer, canvas, palette, text, svgTemplateCache,
          coloredLogoCache, renders, loads, started, broken,
          unmeasured, overtaken, events, faults>>

cookies == <<blocked, cookie, colorCookie>>
window == <<scheme, size, favicon>>
caches == <<svgTemplateCache, coloredLogoCache>>
page == <<canvas, palette, renders, loads, started, overtaken>>
history == <<broken, unmeasured>>

\* A logo in a colour: the key of coloredLogoCache.
Logos == [url : Urls, palette : 0..(NumPalettes - 1), color : 0..2]

TypeOK ==
    /\ blocked \in BOOLEAN /\ resizeTimer \in BOOLEAN
    /\ cookie \in Configs \cup {None} /\ currentConfig \in Configs \cup {None}
    /\ colorCookie \in Colors \cup {None}
    /\ scheme \in {"dark", "light"} /\ size \in Sizes
    /\ favicon \in [scheme : {"dark", "light"}, color : Colors]
    /\ canvas \in Canvases \cup {None}
    /\ palette \in 0..(NumPalettes - 1) \cup {None}
    /\ text \in Measures \cup {None}
    /\ svgTemplateCache \in [Urls -> {"none", "good", "bad"}]
    /\ coloredLogoCache \subseteq Logos
    /\ renders \subseteq [id : 1..started, config : Configs, size : Sizes,
                          failed : BOOLEAN]
    /\ loads \subseteq [render : 1..started, logo : Logos,
                        svg : {"none", "good", "bad"}]
    /\ broken \cup unmeasured \cup overtaken \subseteq 1..started
    /\ started \in Nat
    /\ events \in 0..MaxEvents /\ faults \in 0..MaxFaults

-----------------------------------------------------------------------------
(* The tab icon *)

\* A bug: the colour is chosen without a look at the cookie.
ApplyFaviconAnew(s) ==
    \E c \in Colors :
        /\ favicon' = [scheme |-> s, color |-> c]
        /\ colorCookie' = IF blocked THEN None ELSE c

\* applyFavicon with getFaviconColor, in the scheme s: the saved colour, or
\* any, which is then saved.
ApplyFavicon(s) ==
    \E c \in IF colorCookie = None THEN Colors ELSE {colorCookie} :
        /\ favicon' = [scheme |-> s, color |-> c]
        /\ colorCookie' = IF blocked THEN None ELSE c

\* The modules are loaded: the icon is set, there is no background yet.
Loaded ==
    /\ currentConfig' = None /\ resizeTimer' = FALSE
    /\ canvas' = None /\ palette' = None /\ text' = None
    /\ svgTemplateCache' = [u \in Urls |-> "none"] /\ coloredLogoCache' = {}
    /\ renders' = {} /\ loads' = {} /\ started' = 0
    /\ broken' = {} /\ unmeasured' = {} /\ overtaken' = {}

Init ==
    /\ blocked \in BOOLEAN
    /\ cookie \in IF blocked THEN {None} ELSE OldConfigs \cup {None}
    /\ colorCookie \in IF blocked THEN {None} ELSE Colors
    /\ scheme \in {"dark", "light"} /\ size \in Sizes
    /\ \E c \in Colors : /\ favicon = [scheme |-> scheme, color |-> c]
                         /\ ~blocked => c = colorCookie
    /\ currentConfig = None /\ resizeTimer = FALSE
    /\ canvas = None /\ palette = None /\ text = None
    /\ svgTemplateCache = [u \in Urls |-> "none"] /\ coloredLogoCache = {}
    /\ renders = {} /\ loads = {} /\ started = 0
    /\ broken = {} /\ unmeasured = {} /\ overtaken = {}
    /\ events = 0 /\ faults = 0

-----------------------------------------------------------------------------
(* render *)

\* A bug: the palettes of another version are trusted.
PaletteAsSaved(config) == config.palette

PaletteOf(config) == config.palette % NumPalettes

\* The i-th logo picked is in the i-th colour of the palette, cyclically.
PickCompanyLogos(config) ==
    {[url |-> Picks[config.seed][i], palette |-> PaletteOf(config),
      color |-> (i - 1) % 3] : i \in DOMAIN Picks[config.seed]}

\* getColoredLogo up to its first wait: a logo in the cache needs none, one
\* whose template is in the cache only waits for its image.
GetColoredLogos(id, config) ==
    {[render |-> id, logo |-> l, svg |-> svgTemplateCache[l.url]] :
        l \in PickCompanyLogos(config) \ coloredLogoCache}

\* A bug: what is on the canvas shows through.
CoverThinly(id, config, s) ==
    [by |-> id, config |-> config, size |-> size, scheme |-> s,
     patterns |-> IF canvas = None THEN <<>> ELSE canvas.patterns]

\* sizeCanvas and fillBackground: the canvas takes the window's size and is
\* covered with a gradient of the palette, for the scheme s.
Cover(id, config, s) ==
    [by |-> id, config |-> config, size |-> size, scheme |-> s,
     patterns |-> <<>>]

\* render up to its await; the page takes the palette's colours.
Render(config, s) ==
    LET id == started + 1
    IN  /\ started' = id
        /\ canvas' = Cover(id, config, s)
        /\ palette' = PaletteOf(config)
        /\ renders' = renders \cup {[id |-> id, config |-> config,
                                     size |-> size, failed |-> FALSE]}
        /\ loads' = loads \cup GetColoredLogos(id, config)
        /\ overtaken' = {r.id : r \in renders}

\* if (currentConfig) render(currentConfig)
RenderCurrent(s) ==
    IF currentConfig = None THEN UNCHANGED page ELSE Render(currentConfig, s)

\* Is there a renderer in PATTERN_RENDERERS.
HasRenderer(config) == \E e \in Entries : e.pattern = config.pattern

\* A render can go on: all its logos are there, or one has failed.
Resumes(r) == r.failed \/ \A l \in loads : l.render # r.id

\* A continuation runs before any other event.
Settled == \A r \in renders : ~Resumes(r)

\* The renderer of the pattern, on whatever the canvas shows by now.
DrawPattern(r) ==
    IF ~r.failed /\ HasRenderer(r.config)
      THEN [canvas EXCEPT !.patterns = Append(@, r.id)]
      ELSE canvas

\* A bug: a render whose logos failed is over at once.
MeasureDrawn(r, shown) ==
    IF r.size = 0 \/ r.failed
      THEN /\ unmeasured' = IF r.size = 0 THEN unmeasured \cup {r.id}
                                          ELSE unmeasured
           /\ UNCHANGED text
      ELSE /\ text' = [canvas |-> shown, area |-> r.size]
           /\ UNCHANGED unmeasured

\* measureLuminance and applyLuminanceMode, over the size of the render's
\* start; reading an area without pixels throws.
MeasureLuminance(r, shown) ==
    IF r.size = 0 THEN unmeasured' = unmeasured \cup {r.id} /\ UNCHANGED text
                  ELSE /\ text' = [canvas |-> shown, area |-> r.size]
                       /\ UNCHANGED unmeasured

\* The rest of render, after its await.
Resume(r) ==
    /\ r \in renders
    /\ Resumes(r)
    /\ renders' = renders \ {r}
    /\ canvas' = DrawPattern(r)
    /\ broken' = IF r.failed THEN broken \cup {r.id} ELSE broken
    /\ MeasureLuminance(r, canvas')
    /\ UNCHANGED <<cookies, window, currentConfig, resizeTimer, palette,
                   caches, loads, started, overtaken, events, faults>>

-----------------------------------------------------------------------------
(* The logos of a render, each on its own *)

\* The promise of a load is rejected, and with it that of its render: the
\* render goes on without a pattern, its other loads go on too.
Rejected(l) ==
    /\ loads' = loads \ {l}
    /\ renders' = {IF r.id = l.render THEN [r EXCEPT !.failed = TRUE] ELSE r :
                      r \in renders}

\* loadSvgTemplate: an answer of the server, whatever it is, is kept as the
\* template; an empty one is kept too, and counts as none.
Fetched(l, svg, kept) ==
    /\ Settled
    /\ l \in loads /\ l.svg = "none"
    /\ kept = svg \/ (svg = "bad" /\ kept = "none")
    /\ svg = "bad" => faults < MaxFaults
    /\ faults' = IF svg = "bad" THEN faults + 1 ELSE faults
    /\ svgTemplateCache' = [svgTemplateCache EXCEPT ![l.logo.url] = kept]
    /\ loads' = (loads \ {l}) \cup {[l EXCEPT !.svg = svg]}
    /\ UNCHANGED <<cookies, window, currentConfig, resizeTimer, canvas,
                   palette, text, coloredLogoCache, renders, started, history,
                   overtaken, events>>

FetchFails(l) ==
    /\ Settled
    /\ l \in loads /\ l.svg = "none"
    /\ faults < MaxFaults
    /\ faults' = faults + 1
    /\ Rejected(l)
    /\ UNCHANGED <<cookies, window, currentConfig, resizeTimer, canvas,
                   palette, text, caches, started, history, overtaken, events>>

\* A bug: an image that cannot be decoded leaves its promise open.
ImageEndsSilently(l) ==
    /\ l.svg = "good"
    /\ coloredLogoCache' = coloredLogoCache \cup {l.logo}
    /\ loads' = loads \ {l}
    /\ UNCHANGED renders

\* onload or onerror of the recoloured image, which is read from a blob: a
\* good template fails too where the page's policy lets no blob be an image.
ImageEnds(l) ==
    \/ /\ l.svg = "good"
       /\ coloredLogoCache' = coloredLogoCache \cup {l.logo}
       /\ loads' = loads \ {l}
       /\ UNCHANGED renders
    \/ /\ l.svg \in {"good", "bad"}
       /\ Rejected(l)
       /\ UNCHANGED coloredLogoCache

Decoded(l) ==
    /\ Settled
    /\ l \in loads
    /\ ImageEnds(l)
    /\ UNCHANGED <<cookies, window, currentConfig, resizeTimer, canvas,
                   palette, text, svgTemplateCache, started, history,
                   overtaken, events, faults>>

-----------------------------------------------------------------------------
(* The exported operations *)

Event ==
    /\ Settled
    /\ events < MaxEvents
    /\ events' = events + 1

Call ==
    /\ Event
    /\ UNCHANGED <<blocked, colorCookie, window, resizeTimer, text, caches,
                   history, faults>>

MakeConfig(entries) ==
    {[type |-> e.type, pattern |-> e.pattern, palette |-> p, seed |-> s] :
        e \in entries, p \in 0..(NumPalettes - 1), s \in Seeds}

\* A bug: the configuration is not saved.
AdoptUnsaved(config) ==
    /\ currentConfig' = config
    /\ UNCHANGED cookie
    /\ Render(config, scheme)

\* saveConfig: what loadConfig finds from now on.
Saved(config) == IF blocked THEN cookie ELSE config

\* A configuration becomes the current one, is saved and rendered.
Adopt(config) ==
    /\ currentConfig' = config
    /\ cookie' = Saved(config)
    /\ Render(config, scheme)

\* set: a random mode restores what was saved.
SetMode(mode) ==
    \/ /\ cookie # None /\ mode = "random"
       /\ currentConfig' = cookie
       /\ UNCHANGED cookie
       /\ Render(cookie, scheme)
    \/ /\ cookie = None \/ mode # "random"
       /\ \E c \in MakeConfig({e \in Entries : mode \in {"random", e.type}}) :
             Adopt(c)

Set(mode) == Call /\ SetMode(mode)

\* Any type with any name.
SetExact(type, pattern) ==
    /\ Call
    /\ \E c \in MakeConfig({[type |-> type, pattern |-> pattern]}) : Adopt(c)

\* The entry after that of the current configuration; the first one after the
\* last, and for a configuration that is not listed.
NextPattern ==
    LET at == {i \in DOMAIN AllPatterns :
                 /\ AllPatterns[i].type = currentConfig.type
                 /\ AllPatterns[i].pattern = currentConfig.pattern}
        idx == IF at = {} THEN 0 ELSE CHOOSE i \in at : \A j \in at : i <= j
    IN  AllPatterns[(idx % Len(AllPatterns)) + 1]

Cycle ==
    /\ Call
    /\ IF currentConfig = None
         THEN SetMode("random")
         ELSE \E c \in MakeConfig({NextPattern}) : Adopt(c)

Redraw == Call /\ RenderCurrent(scheme) /\ UNCHANGED <<cookie, currentConfig>>

ClearConfig ==
    /\ Call
    /\ cookie' = None
    /\ currentConfig' = None
    /\ UNCHANGED page

-----------------------------------------------------------------------------
(* The window *)

\* The timer of 150 ms is set anew.
Resize(s) ==
    /\ Event
    /\ size' = s
    /\ resizeTimer' = TRUE
    /\ UNCHANGED <<cookies, scheme, favicon, currentConfig, text, caches, page,
                   history, faults>>

ResizeTimer ==
    /\ Settled
    /\ resizeTimer
    /\ resizeTimer' = FALSE
    /\ RenderCurrent(scheme)
    /\ UNCHANGED <<cookies, window, currentConfig, text, caches, history,
                   events, faults>>

\* A bug: only the icon follows the scheme.
SchemeListenersIconOnly(s) == ApplyFavicon(s) /\ UNCHANGED page

\* The listeners of favicon.ts and of background.ts.
SchemeListeners(s) == ApplyFavicon(s) /\ RenderCurrent(s)

SchemeChanges ==
    /\ Event
    /\ scheme' = IF scheme = "dark" THEN "light" ELSE "dark"
    /\ SchemeListeners(scheme')
    /\ UNCHANGED <<blocked, cookie, size, currentConfig, resizeTimer, text,
                   caches, history, faults>>

\* The page is loaded again: only the cookies are left.
Reload ==
    /\ Event
    /\ ApplyFavicon(scheme)
    /\ Loaded
    /\ UNCHANGED <<blocked, cookie, scheme, size, faults>>

-----------------------------------------------------------------------------
Loading ==
    \E l \in loads :
        \/ \E svg \in {"good", "bad"}, kept \in {"none", "good", "bad"} :
             Fetched(l, svg, kept)
        \/ FetchFails(l)
        \/ Decoded(l)

Next ==
    \/ \E mode \in Types \cup {"random"} : Set(mode)
    \/ \E type \in Types, c \in OldConfigs : SetExact(type, c.pattern)
    \/ Cycle \/ Redraw \/ ClearConfig
    \/ \E s \in Sizes : Resize(s)
    \/ SchemeChanges \/ Reload
    \/ ResizeTimer
    \/ \E r \in renders : Resume(r)
    \/ Loading

\* Continuations, timers and images do not wait; a request is answered or
\* fails in the end.  Nobody has to do anything.
Fairness ==
    /\ WF_vars(\E r \in renders : Resume(r))
    /\ WF_vars(ResizeTimer)
    /\ WF_vars(Loading)

Spec == Init /\ [][Next]_vars /\ Fairness

-----------------------------------------------------------------------------
(* Properties *)

\* The page has the palette of the current configuration, and the gradient
\* its palette, the window's scheme and, unless a resize is still waiting for
\* its timer, the window's size: however renders overlap, what a render does
\* before it awaits is not undone by what an older one does after.
PageIsCurrent ==
    currentConfig # None =>
        /\ canvas # None
        /\ palette = PaletteOf(currentConfig)
        /\ PaletteOf(canvas.config) = palette
        /\ canvas.scheme = scheme
        /\ resizeTimer \/ canvas.size = size

Drawn(id) == \E i \in DOMAIN canvas.patterns : canvas.patterns[i] = id

\* Every pattern on the canvas is that of the newest render or of one that
\* was still loading when the newest began; and the newest has its own there
\* once it is over, unless its logos failed to load.
PatternsExplained ==
    canvas # None =>
        /\ \A i \in DOMAIN canvas.patterns :
             canvas.patterns[i] \in {canvas.by} \cup overtaken
        /\ \/ \E r \in renders : r.id = canvas.by
           \/ canvas.by \in broken
           \/ ~HasRenderer(canvas.config)
           \/ Drawn(canvas.by)

\* "flip text colors if background is light": once all renders are over the
\* text colours were measured on the canvas as it is, with the patterns late
\* renders have added and after those that failed, unless some render had
\* no pixels; and over the canvas's own size if the last render started alone.
TextIsMeasured ==
    renders = {} /\ canvas # None /\ unmeasured = {} =>
        /\ text # None /\ text.canvas = canvas
        /\ overtaken = {} => text.area = canvas.size

\* "Persists config in cookie so backgrounds stay consistent across reloads":
\* the cookie holds the configuration in use, whichever operation chose it.
SavedIsCurrent == ~blocked /\ currentConfig # None => cookie = currentConfig

\* "Persists chosen color in cookie so it stays consistent across reloads":
\* no change of scheme and no reload changes the icon's colour.
ColorIsKept == [][~blocked => favicon'.color = favicon.color]_vars

\* Every render comes to its end, with or without its logos, and leaves the
\* canvas at the window's size.
Settles ==
    <>[](/\ renders = {} /\ loads = {}
         /\ currentConfig # None => canvas.size = size)
=============================================================================
