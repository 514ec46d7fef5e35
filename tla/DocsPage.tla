------------------------------ MODULE DocsPage ------------------------------
(***************************************************************************)
(* The API documentation: the static routes of the daemon and the Swagger  *)
(* page a browser loads through them.  Each request looks for the assets   *)
(* again, in up to four places, so an upgrade or a changed installation    *)
(* can come between two requests of one page, or between the search and    *)
(* the read of one request.                                                *)
(*                                                                         *)
(* Sources: src/src/api/routes/StaticRoutes.cpp,                           *)
(* src/src/api/support/PathDiscovery.cpp, src/assets/swagger-ui/index.html *)
(* and swagger-initializer.js.  The browser and the Swagger bundle are     *)
(* external.  Style sheets and icons, the catalog and provider files (the  *)
(* same search, other names), content types and the check of the requested *)
(* path (is_safe_relpath, no state) are left out.                          *)
(***************************************************************************)
EXTENDS Integers, FiniteSets

CONSTANTS
  Places,      \* number of places searched, in order: environment, working
               \* directory, its parent, the installed data
  MaxChanges   \* bound on changes of the installation

ASSUME DocsPageAssumption ==
  Places \in Nat \ {0} /\ MaxChanges \in Nat

VARIABLES
  root,      \* place -> the files of its docs directory, or NoRoot
  spec,      \* place -> it has an openapi.yaml
  page,      \* the page load of one browser
  changes

pageVars == <<root, spec, page, changes>>

Place == 1..Places
None == 0
Scripts == {"bundle", "preset", "initializer"}
File == Scripts \cup {"index"}
NoRoot == {"none"}

\* The roots an installation can have: none, the shipped one, and one that
\* is only partly there.
Root == {NoRoot, File} \cup {File \ {f} : f \in File}

\* `from' is where each file of the page came from, `calm' that nothing was
\* changed since the load began.
NewPage == [at |-> "index", found |-> None, calm |-> TRUE,
            from |-> [f \in File |-> None]]

PageInit ==
  /\ root \in [Place -> Root]
  /\ spec \in [Place -> BOOLEAN]
  /\ page = NewPage
  /\ changes = 0

----------------------------------------------------------------------------
(* The daemon.                                                             *)

FirstPlace(S) == IF S = {} THEN None ELSE CHOOSE p \in S : \A q \in S : p <= q

FindDocsRootOfFile(f) == FirstPlace({p \in Place : f \in root[p]})

\* find_docs_root: the first place that is a directory, whatever is in it.
FindDocsRoot(f) == FirstPlace({p \in Place : root[p] # NoRoot})

FindOpenapiPathInEnvironment == FirstPlace({p \in Place : p = 1 /\ spec[p]})

FindOpenapiPath == FirstPlace({p \in Place : spec[p]})

----------------------------------------------------------------------------
(* The page load.                                                          *)

After(f) == CASE f = "index" -> "bundle"
              [] f = "bundle" -> "preset"
              [] f = "preset" -> "initializer"
              [] OTHER -> "onload"

Goto(at, place) == [page EXCEPT !.at = at, !.found = place]

\* The daemon's search for the docs root, for the next file of the page.
Find(f) ==
  /\ page.at = f /\ page.found = None
  /\ FindDocsRoot(f) # None
  /\ page' = Goto(f, FindDocsRoot(f))
  /\ UNCHANGED <<root, spec, changes>>

\* No root: 404.  A page without its HTML is over; a missing script is not
\* run, and the load goes on.
NotFound(f) ==
  /\ page.at = f
  /\ IF page.found = None THEN FindDocsRoot(f) = None
                          ELSE f \notin root[page.found]
  /\ page' = Goto(IF f = "index" THEN "blank" ELSE After(f), None)
  /\ UNCHANGED <<root, spec, changes>>

\* index.html names the scripts, the browser runs them in that order.
Served(f) ==
  /\ page.at = f /\ page.found # None
  /\ f \in root[page.found]
  /\ page' = [Goto(After(f), None) EXCEPT !.from[f] = page.found]
  /\ UNCHANGED <<root, spec, changes>>

\* window.onload of swagger-initializer.js: it names SwaggerUIBundle and
\* SwaggerUIStandalonePreset, globals of the two scripts before it, and asks
\* the bundle for /openapi.yaml.  Without it, or without one of them, the
\* page stays empty.
Onload ==
  /\ page.at = "onload"
  /\ page' = Goto(IF \A f \in Scripts : page.from[f] # None
                  THEN "spec" ELSE "blank", None)
  /\ UNCHANGED <<root, spec, changes>>

\* The bundle fetches the description: the search, then the read.
FindSpec ==
  /\ page.at = "spec" /\ page.found = None
  /\ page' = IF FindOpenapiPath = None THEN Goto("error", None)
                                       ELSE Goto("spec", FindOpenapiPath)
  /\ UNCHANGED <<root, spec, changes>>

ReadSpec ==
  /\ page.at = "spec" /\ page.found # None
  /\ page' = Goto(IF spec[page.found] THEN "shown" ELSE "error", None)
  /\ UNCHANGED <<root, spec, changes>>

Reload ==
  /\ page.at \in {"blank", "error", "shown"}
  /\ page' = NewPage
  /\ UNCHANGED <<root, spec, changes>>

----------------------------------------------------------------------------
\* Files and directories come and go under the running daemon.
Change(p) ==
  /\ changes < MaxChanges
  /\ changes' = changes + 1
  /\ \/ \E r \in Root : root' = [root EXCEPT ![p] = r] /\ UNCHANGED spec
     \/ spec' = [spec EXCEPT ![p] = ~@] /\ UNCHANGED root
  /\ page' = [page EXCEPT !.calm = FALSE]

Load ==
  \/ \E f \in File : Find(f) \/ NotFound(f) \/ Served(f)
  \/ Onload \/ FindSpec \/ ReadSpec

PageNext ==
  \/ Load
  \/ Reload
  \/ \E p \in Place : Change(p)

\* The browser goes on with a load it began.
PageSpec == PageInit /\ [][PageNext]_pageVars /\ WF_pageVars(Load)

----------------------------------------------------------------------------
(* Properties.                                                             *)

\* The scripts of a page come from one installation, if none was changed
\* while it loaded: an incomplete root hides the complete ones behind it
\* rather than being completed from them, so two versions are never mixed.
PageFromOneRoot ==
  page.calm => Cardinality({page.from[f] : f \in File} \ {None}) <= 1

\* With a complete root in front of the others and the description in any
\* place, every load of an installation that is left alone shows the API.
ShowsWhenInstalled ==
  (/\ page.at = "index" /\ FindDocsRoot("index") # None
   /\ root[FindDocsRoot("index")] = File
   /\ \E p \in Place : spec[p])
    ~> (page.at = "shown" \/ ~page.calm)

=============================================================================
