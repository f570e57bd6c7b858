------------------------------- MODULE StrategyPages -------------------------------
(***************************************************************************)
(* The pages that list the strategy files and show one of them              *)
(* (dashboard/callbacks_strategies.py).  The bot service is external: it    *)
(* lists the files of its two folders, the active ones first, with their    *)
(* source, in which the page finds a group and tags.                        *)
(***************************************************************************)
EXTENDS Dash, SequencesExt

CONSTANTS
  Files,      (* the files there can be: name, group and tags of each       *)
  MaxChanges  (* bound: changes of the folders                              *)

ASSUME StrategyPagesAssumption ==
  /\ MaxChanges \in Nat
  /\ \A f \in Files : DOMAIN f = {"name", "group", "tags"}

VARIABLES
  folders,  \* folder -> the files in it, in the order of their names
  changes

strategyVars == <<folders, changes>>
------------------------------------------------------------------------------
StrategyCallbacks ==
  [load_strategies |->
     Callback({"strat_refresh_btn"}, {},
              {"strat_all_data", "strat_group_options", "strat_tag_options"}, {}, TRUE),
   set_folder_filter |->
     Callback({"strat_filter_btn"}, {"strat_folder_filter"},
              {"strat_folder_filter", "strat_filter_color"}, {}, FALSE),
   render_cards |->
     Callback({"strat_all_data", "strat_folder_filter", "strat_group_filter", "strat_tag_filter"},
              {}, {"strat_cards_grid"}, {}, TRUE),
   populate_detail |->
     Callback({"strat_detail_name"}, {}, {"strat_detail"}, {}, TRUE)]

\* The three buttons of the folders are one property, that holds the one
\* clicked, and so are their colors, that hold the one highlighted.
BrowserLayout ==
  [strat_refresh_btn |-> 0, strat_all_data |-> <<>>, strat_group_options |-> {},
   strat_tag_options |-> {}, strat_filter_btn |-> None, strat_folder_filter |-> "all",
   strat_filter_color |-> None, strat_group_filter |-> None, strat_tag_filter |-> {},
   strat_cards_grid |-> {}]

DetailLayout(name) == [strat_detail_name |-> name, strat_detail |-> None]

\* list_strategies, enriched: the active files, then the inactive ones.
Found == LET listed(folder) == [i \in DOMAIN folders[folder] |->
                              folders[folder][i] ++ [folder |-> folder]]
         IN listed("active") \o listed("inactive")

Groups(data) == {data[i].group : i \in DOMAIN data}
Tags(data) == UNION {data[i].tags : i \in DOMAIN data}

\* load_strategies; nothing when the service does not answer.
LoadStrategies(w) ==
  {[strat_all_data |-> data, strat_group_options |-> Groups(data), strat_tag_options |-> Tags(data)] :
     data \in {Found, <<>>}}

SetFolderFilter(w) ==
  [strat_folder_filter |-> w.strat_filter_btn, strat_filter_color |-> w.strat_filter_btn]

\* The strategies a choice of folder, group and tags leaves: all of the tags.
Passes(s, folder, group, tags) ==
  /\ folder \in {"all", s.folder}
  /\ group \in {None, s.group}
  /\ tags \subseteq s.tags

\* A faulty render_cards that leaves the tags out.
CardsOfAnyTag(w) ==
  [strat_cards_grid |-> {s \in ToSet(w.strat_all_data) :
                           Passes(s, w.strat_folder_filter, w.strat_group_filter, {})}]

\* The cards by group, which the strategies bear.
RenderCards(w) ==
  [strat_cards_grid |-> {s \in ToSet(w.strat_all_data) :
                           Passes(s, w.strat_folder_filter, w.strat_group_filter, w.strat_tag_filter)}]

\* populate_detail: the first of that name, if any.
PopulateDetail(w) ==
  {[strat_detail |-> [of |-> w.strat_detail_name,
                      found |-> IF \E i \in DOMAIN data : data[i].name = w.strat_detail_name
                                THEN data[CHOOSE i \in DOMAIN data :
                                            /\ data[i].name = w.strat_detail_name
                                            /\ \A j \in 1..i - 1 : data[j].name # w.strat_detail_name]
                                ELSE None]] :
     data \in {Found, <<>>}}
------------------------------------------------------------------------------
StrategyInit == folders = [f \in {"active", "inactive"} |-> <<>>] /\ changes = 0

StrategyReset == folders' = [f \in {"active", "inactive"} |-> <<>>] /\ changes' = 0

Changes ==
  /\ Shows(BrowserLayout) \/ "strat_detail_name" \in DOMAIN props
  /\ changes < MaxChanges /\ changes' = changes + 1
  /\ UNCHANGED browser

\* A file is put into a folder, or taken out of it.
PutFile(folder, file) ==
  /\ Changes /\ file \notin ToSet(folders[folder])
  /\ folders' = [folders EXCEPT ![folder] = Append(@, file)]

TakeFile(folder, i) ==
  /\ Changes
  /\ folders' = [folders EXCEPT ![folder] = SubSeq(@, 1, i - 1) \o SubSeq(@, i + 1, Len(@))]

Filter ==
  /\ Shows(BrowserLayout)
  /\ \/ \E f \in {"all", "active", "inactive"} : UserInput([strat_filter_btn |-> f])
     \/ \E g \in props.strat_group_options : UserInput([strat_group_filter |-> g])
     \/ \E t \in props.strat_tag_options : UserInput([strat_tag_filter |-> props.strat_tag_filter \union {t}])
     \/ props.strat_group_filter # None /\ UserInput([strat_group_filter |-> None])
  /\ UNCHANGED strategyVars

RefreshFiles ==
  /\ Shows(BrowserLayout) /\ UserInput([strat_refresh_btn |-> 1])
  /\ UNCHANGED strategyVars

Listing(c, Handler(_)) == (Serve(c, Handler) \/ Apply(c)) /\ UNCHANGED strategyVars

StrategyBrowser ==
  \/ Filter \/ RefreshFiles
  \/ Listing("load_strategies", LoadStrategies)
  \/ Reply("set_folder_filter", SetFolderFilter) /\ UNCHANGED strategyVars
  \/ Reply("render_cards", RenderCards) /\ UNCHANGED strategyVars
  \/ Listing("populate_detail", PopulateDetail)

StrategiesOutside == \E folder \in DOMAIN folders :
  \/ \E file \in Files : PutFile(folder, file)
  \/ \E i \in DOMAIN folders[folder] : TakeFile(folder, i)
------------------------------------------------------------------------------
\* The detail is of that strategy, or says that it is not found.
DetailIsOf(name) == LET d == props.strat_detail
                    IN d.of = name /\ (d.found # None => d.found.name = name)

\* The cards are those of the files the filters leave, and the folder
\* highlighted is the one filtered by.
CardsAreFiltered ==
  /\ props.strat_cards_grid =
       {s \in ToSet(props.strat_all_data) :
          /\ props.strat_folder_filter # "all" => s.folder = props.strat_folder_filter
          /\ props.strat_group_filter # None => s.group = props.strat_group_filter
          /\ \A t \in props.strat_tag_filter : t \in s.tags}
  /\ props.strat_filter_color \in {None, props.strat_folder_filter}
==================================================================================
