--------------------------- MODULE NavigationSites ---------------------------
(***************************************************************************)
(* Two small sites for Navigation.  The first has a layout with two pages  *)
(* below it and a page that is not; the layout's loader has no phase       *)
(* graphs, and nothing redirects before it has fetched.  In the second a   *)
(* page redirects at once to a page below the layout.                      *)
(***************************************************************************)
EXTENDS Navigation

Layout == "section"

SitePaths == {"list", "item", "login"}

SiteChain == [path \in SitePaths |->
                IF path = "login" THEN <<"login">> ELSE <<Layout, path>>]

SiteRoutes == {Layout, "list", "item", "login"}

To(path, search) == RedirectTo([path |-> path, search |-> search])

SiteAnswers ==
    (Layout :> {Outcome("success"), Outcome("failure"), Outcome("notFound")})
    @@ ("list" :> {Outcome("success"), Outcome("failure"), To("login", "")})
    @@ ("item" :> {Outcome("success"), Outcome("notFound"), To("item", "?q")})
    @@ ("login" :> {Outcome("success"), Outcome("notFound"), To("list", "")})

SiteEarly ==
    (Layout :> {Outcome("success")})
    @@ ("list" :> {Outcome("failure")})
    @@ ("item" :> {Outcome("notFound")})
    @@ ("login" :> {})

SiteLazy == { Graph("list", "normal"), Graph("list", "error"), RootBoundaryGraph }

\* A page that redirects before it fetches.
OldPaths == {"old", "list"}
OldChain == [path \in OldPaths |-> IF path = "old" THEN <<"old">> ELSE <<Layout, path>>]
OldRoutes == {"old", Layout, "list"}
OldAnswers == ("old" :> {}) @@ ("list" :> {Outcome("success")})
OldEarly == ("old" :> {To("list", "")}) @@ ("list" :> {})
=============================================================================
