------------------------------- MODULE Search -------------------------------
(***************************************************************************)
(* The Nexus search page, pages/nexus_search.rs: the GTK handlers, one      *)
(* thread per request, the channel back and the idle loop that empties it.  *)
(* It reads the key and the paths of module Settings, whose dialog the user *)
(* may open at any time.                                                    *)
(*                                                                          *)
(* A search is a number and finds one mod, with one file, of the game it    *)
(* was made for.  Mod ids count from the start in each game, so the server  *)
(* has some mod under the same id in every game: a mod is an id and a game. *)
(* A request names an id and takes the game of the last search; what it     *)
(* asks for and what the user meant are two mods, and may differ.           *)
(***************************************************************************)
EXTENDS Settings, Sequences, FiniteSets

CONSTANTS
  Games,         \* domain names
  MaxSearches    \* bound on the searches

ASSUME SearchAssumption == MaxSearches \in Nat \ {0} /\ Games # {}

VARIABLES
  search,     \* SearchState: results, current_domain, api_key, current_mod
  page,       \* the widgets: rows, files, spinner
  threads,    \* requests on their way
  channel,    \* the messages that wait
  queued,     \* what was given to DownloadQueue::enqueue
  crossed,    \* a search in another game has overtaken answers of the one before
  searches

found == <<search, page, threads, channel, queued, crossed, searches>>
searchVars == <<settings, acts, found>>

Numbers == 0 .. MaxSearches      \* 0: no search
NoMod == [id |-> 0, game |-> Unset]

NoSearch ==
  [results |-> NoMod, domain |-> CHOOSE g \in Games : TRUE, key |-> Unset, mod |-> NoMod]
EmptyPage == [rows |-> NoMod, files |-> NoMod, shown |-> FALSE, spinner |-> FALSE]

SearchInit ==
  /\ SettingsInit
  /\ search = NoSearch /\ page = EmptyPage
  /\ threads = {} /\ channel = <<>> /\ queued = {} /\ crossed = FALSE
  /\ searches = 0

Still == UNCHANGED <<settings, acts>>
Ask(kind, mod, meant) ==
  threads' = threads \cup {[for |-> kind, asked |-> mod, of |-> meant]}

\* do_search: the key is read anew, from the file when the store does not answer.
\* The rows go, but not the files.
DoSearch(g) ==
  /\ User /\ dialog = Unset /\ searches < MaxSearches
  /\ searches' = searches + 1
  /\ \E key \in {ApiKey, Loaded.legacy} \ {Unset} :
       search' = [search EXCEPT !.domain = g, !.key = key, !.mod = NoMod]
  /\ page' = [page EXCEPT !.rows = NoMod, !.spinner = TRUE]
  /\ LET mod == [id |-> searches', game |-> g] IN Ask("results", mod, mod)
  /\ crossed' = /\ threads # {} \/ channel # <<>>
                /\ crossed \/ g # search.domain
  /\ UNCHANGED <<channel, queued>> /\ UNCHANGED settings

\* The server looks an id up in the game of the last search.
InDomain(mod) == [mod EXCEPT !.game = search.domain]

\* Mutant of SelectRow: the mod is known at once, its files are not.
SelectRowMod ==
  /\ User /\ dialog = Unset
  /\ page.rows # NoMod /\ search.results # NoMod
  /\ search' = [search EXCEPT !.mod = search.results]
  /\ Ask("files", InDomain(search.results), search.results)
  /\ UNCHANGED <<page, channel, queued, crossed, searches>> /\ UNCHANGED settings

\* A row is selected: its index is looked up in the results.
SelectRow ==
  /\ User /\ dialog = Unset
  /\ page.rows # NoMod /\ search.results # NoMod
  /\ page' = [page EXCEPT !.shown = FALSE]
  /\ Ask("files", InDomain(search.results), search.results)
  /\ UNCHANGED <<search, channel, queued, crossed, searches>> /\ UNCHANGED settings

\* The button of a file row asks for the links of the file, by the id of the mod in
\* current_mod.
PressDownload ==
  /\ User /\ dialog = Unset
  /\ page.shown /\ search.mod # NoMod
  /\ Ask("links", InDomain(search.mod), page.files)
  /\ UNCHANGED <<search, page, channel, queued, crossed, searches>> /\ UNCHANGED settings

\* A request ends with its answer or with an error.
Answered ==
  \E r \in threads :
    /\ threads' = threads \ {r}
    /\ \E ok \in BOOLEAN : channel' = Append(channel, [r EXCEPT !.for =
         IF ok THEN r.for ELSE "error"])
    /\ UNCHANGED <<search, page, queued, crossed, searches>> /\ Still

(***************************************************************************)
(* The idle loop.                                                           *)
(***************************************************************************)
Message == Head(channel)
Take(kind) ==
  /\ Free /\ channel # <<>> /\ Message.for = kind
  /\ channel' = Tail(channel)
  /\ UNCHANGED <<threads, crossed, searches>> /\ Still

ShowResults ==
  /\ Take("results")
  /\ page' = [page EXCEPT !.rows = Message.asked, !.spinner = FALSE]
  /\ search' = [search EXCEPT !.results = Message.asked]
  /\ UNCHANGED queued

\* The files are those the server has sent, the mod is the one whose row was selected.
\* The pane is hidden when no file is left.
ShowFiles ==
  /\ Take("files")
  /\ page' \in {[page EXCEPT !.files = Message.asked, !.shown = some] : some \in BOOLEAN}
  /\ search' = [search EXCEPT !.mod = Message.of]
  /\ UNCHANGED queued

\* The first link is queued, under the name of the mod of this moment.
Enqueue ==
  /\ Take("links")
  /\ \/ UNCHANGED queued
     \/ queued' = queued \cup {[link |-> Message.asked, file |-> Message.of,
                                name |-> search.mod, dir |-> Loaded.path,
                                alone |-> ~ crossed]}
  /\ UNCHANGED <<search, page>>

\* Mutant of ShowError: the spinner goes on.
ShowErrorOnly ==
  /\ Take("error")
  /\ UNCHANGED <<search, page, queued>>

ShowError ==
  /\ Take("error")
  /\ page' = [page EXCEPT !.spinner = FALSE]
  /\ UNCHANGED <<search, queued>>

Handle == ShowResults \/ ShowFiles \/ Enqueue \/ ShowError

\* The threads and the page end with the program.
EndsWithProgram ==
  /\ search' = NoSearch /\ page' = EmptyPage
  /\ threads' = {} /\ channel' = <<>> /\ crossed' = FALSE
  /\ UNCHANGED <<queued, searches>>

SearchNext ==
  \/ SettingsNext /\ running' /\ UNCHANGED found
  \/ SettingsNext /\ ~ running' /\ EndsWithProgram
  \/ \E g \in Games : DoSearch(g)
  \/ SelectRow \/ PressDownload \/ Answered \/ Handle

SearchSpec ==
  /\ SearchInit /\ [][SearchNext]_searchVars
  /\ WF_searchVars(Answered) /\ WF_searchVars(Handle)
  /\ WF_searchVars((MoveKey \/ Saved) /\ UNCHANGED found)

-----------------------------------------------------------------------------
SearchTypeOK ==
  /\ SettingsTypeOK
  /\ search.domain \in Games /\ search.key \in Keys \cup {Unset}
  /\ search.mod \in [id : Numbers, game : Games \cup {Unset}]
  /\ page.spinner \in BOOLEAN /\ page.shown \in BOOLEAN
  /\ searches \in Numbers

\* A row is looked up by its index: while there are rows, they are those of the
\* results they are looked up in.
RowsAreResults == page.rows # NoMod => page.rows = search.results

\* The file rows belong to the mod whose id their buttons send, in whatever order
\* the answers of two selections and of a new search arrive; and they are files of
\* that mod in its own game, unless a search in another game has overtaken answers.
FilesAreOfMod ==
  page.shown /\ search.mod # NoMod =>
    /\ page.files.id = search.mod.id
    /\ ~ crossed => page.files = search.mod

\* The link that is queued was asked for with the mod id of the file whose button was
\* pressed; and it is the link of that file, unless a search in another game has
\* overtaken answers: then the id was looked up in the wrong game.
QueuedIsMods ==
  \A q \in queued : q.link.id = q.file.id /\ (q.alone => q.link = q.file)

\* The spinner stops.
SpinnerStops == page.spinner ~> ~ page.spinner

\* Rows, files and requests belong together, however the answers arrive.
AnswersMatch == SearchTypeOK /\ RowsAreResults /\ FilesAreOfMod /\ QueuedIsMods
=============================================================================
