------------------------------- MODULE ProfilesPage -------------------------------
(***************************************************************************)
(* The profiles page: which columns of a candle the charts show on hover    *)
(* (dashboard/callbacks_profiles.py over profile_storage.py).  A profile is *)
(* a name with its fields, in the order of the dictionary; one is active.   *)
(* The browser keeps them from page to page, the file profiles.json when    *)
(* the user says so.                                                        *)
(***************************************************************************)
EXTENDS Dash, Sequences

CONSTANTS
  Names,     (* the names profiles can have                                 *)
  Default,   (* the names in DEFAULT_PROFILES, the active one first         *)
  Fields     (* the fields a profile can show                               *)

ASSUME ProfilesPageAssumption ==
  /\ Default \in Seq(Names) /\ Default # <<>>
  /\ \A i, j \in DOMAIN Default : Default[i] = Default[j] => i = j

VARIABLES
  file,     \* profiles.json, None when there is none
  raced,    \* history: profiles were edited while a call was under way, or two
            \* calls that write the store were
  expected  \* history: what the edits of the profiles come to

profileVars == <<file, raced, expected>>
------------------------------------------------------------------------------
ProfileCallbacks ==
  [auto_load_on_profiles_visit |->
     Callback({"url"}, {"hover_profile_store"}, {}, {"hover_profile_store"}, FALSE),
   sync_profile_dropdown |->
     Callback({"hover_profile_store"}, {},
              {"profile_active_options", "profile_active_dd"}, {}, TRUE),
   load_profile_fields |->
     Callback({"profile_active_dd"}, {"hover_profile_store"}, {"profile_field_check"}, {}, TRUE),
   save_profile |->
     Callback({"profile_save_btn"},
              {"profile_active_dd", "profile_field_check", "hover_profile_store"},
              {}, {"hover_profile_store"}, FALSE),
   create_profile |->
     Callback({"profile_create_btn"}, {"hover_profile_store"}, {},
              {"hover_profile_store", "profile_active_options", "profile_active_dd"}, FALSE),
   delete_profile |->
     Callback({"profile_delete_btn"}, {"profile_active_dd", "hover_profile_store"}, {},
              {"hover_profile_store", "profile_active_options", "profile_active_dd"}, FALSE),
   switch_active_profile |->
     Callback({"profile_active_dd"}, {"hover_profile_store"}, {}, {"hover_profile_store"}, FALSE),
   save_to_file |->
     Callback({"profile_save_file_btn"}, {"hover_profile_store"}, {}, {}, FALSE),
   load_from_file |->
     Callback({"profile_load_file_btn"}, {}, {}, {"hover_profile_store"}, FALSE)]

\* A button holds what the click is about.
ProfilesLayout ==
  [profile_active_options |-> {}, profile_active_dd |-> None, profile_field_check |-> {},
   profile_save_btn |-> None, profile_create_btn |-> None, profile_delete_btn |-> None,
   profile_save_file_btn |-> None, profile_load_file_btn |-> None]

Profile(name, fields) == [name |-> name, fields |-> fields]

DefaultProfiles ==
  [profiles |-> [i \in DOMAIN Default |-> Profile(Default[i], IF i = 1 THEN Fields ELSE {})],
   active |-> Default[1]]

OrDefault(data) == IF data = None THEN DefaultProfiles ELSE data

NamesOf(data) == {data.profiles[i].name : i \in DOMAIN data.profiles}

FieldsOf(data, name) == UNION {data.profiles[i].fields :
                                 i \in {j \in DOMAIN data.profiles : data.profiles[j].name = name}}

\* data with the fields of the profile set, which is added if there is none.
WithFields(data, name, fields) ==
  [profiles |-> IF name \in NamesOf(data)
                THEN [i \in DOMAIN data.profiles |->
                        IF data.profiles[i].name = name THEN Profile(name, fields)
                        ELSE data.profiles[i]]
                ELSE Append(data.profiles, Profile(name, fields)),
   active |-> name]

Without(data, name) ==
  LET rest == SelectSeq(data.profiles, LAMBDA p : p.name # name)
  IN [profiles |-> rest, active |-> rest[1].name]

SyncDropdown(w) ==
  LET data == OrDefault(w.hover_profile_store)
  IN [profile_active_options |-> NamesOf(data), profile_active_dd |-> data.active]

LoadFields(w) ==
  [profile_field_check |-> FieldsOf(OrDefault(w.hover_profile_store), w.profile_active_dd)]

AutoLoad(w) == IF w.url.page = "/profiles" /\ w.hover_profile_store = None /\ file # None
               THEN [hover_profile_store |-> file] ELSE NoUpdate

SaveProfile(w) ==
  IF w.profile_active_dd = None THEN NoUpdate
  ELSE [hover_profile_store |-> WithFields(OrDefault(w.hover_profile_store),
                                           w.profile_active_dd, w.profile_field_check)]

\* The answers of create_profile and delete_profile, that write the dropdown too.
StoreAndDropdown(data) ==
  [hover_profile_store |-> data, profile_active_options |-> NamesOf(data),
   profile_active_dd |-> data.active]

\* A faulty create_profile that does not look whether the name is taken.
CreateOver(w) ==
  StoreAndDropdown(WithFields(OrDefault(w.hover_profile_store), w.profile_create_btn, {}))

CreateProfile(w) ==
  LET data == OrDefault(w.hover_profile_store)
  IN IF w.profile_create_btn \in NamesOf(data) THEN NoUpdate
     ELSE StoreAndDropdown(WithFields(data, w.profile_create_btn, {}))

DeleteProfile(w) ==
  LET data == OrDefault(w.hover_profile_store)
  IN IF w.profile_active_dd \notin NamesOf(data) \/ Len(data.profiles) <= 1 THEN NoUpdate
     ELSE StoreAndDropdown(Without(data, w.profile_active_dd))

SwitchActive(w) ==
  IF w.profile_active_dd = None THEN NoUpdate
  ELSE [hover_profile_store |->
          [OrDefault(w.hover_profile_store) EXCEPT !.active = w.profile_active_dd]]

LoadFromFile(w) == IF file = None THEN NoUpdate ELSE [hover_profile_store |-> file]
------------------------------------------------------------------------------
\* What could have been saved before.
Saves == {[profiles |-> <<Profile(n, Fields)>>, active |-> n] :
            n \in Names \ NamesOf(DefaultProfiles)}

\* The page is being changed, or a call that reads or will write the profiles
\* is under way.
EditUnderWay ==
  \/ Pending("render_page")
  \/ \E c \in DOMAIN calls :
       "hover_profile_store" \in Graph[c].ins \union Graph[c].states \union Outputs(c)

\* What the user does on the page (bound: nothing more once edits have raced,
\* which EditsStick leaves out).
Does(new) == Shows(ProfilesLayout) /\ ~raced /\ UserInput(new)

\* The fields are checked or unchecked.
Check(fields) ==
  /\ Does([profile_field_check |-> fields]) /\ fields # props.profile_field_check
  /\ UNCHANGED profileVars

\* An edit of the profiles that comes to the data to.
Edit(to) == /\ raced' = (raced \/ EditUnderWay)
            /\ expected' = IF raced' THEN None ELSE to
            /\ UNCHANGED file

Edited == IF expected = None THEN OrDefault(props.hover_profile_store) ELSE expected

ClickSave ==
  /\ Does([profile_save_btn |-> 1]) /\ props.profile_active_dd # None
  /\ Edit(WithFields(Edited, props.profile_active_dd, props.profile_field_check))

ClickCreate(name) ==
  /\ Does([profile_create_btn |-> name])
  /\ Edit(IF name \in NamesOf(Edited) THEN Edited ELSE WithFields(Edited, name, {}))

ClickDelete ==
  /\ Does([profile_delete_btn |-> 1]) /\ props.profile_active_dd # None
  /\ Edit(IF Len(Edited.profiles) = 1 THEN Edited ELSE Without(Edited, props.profile_active_dd))

Switch(name) ==
  /\ Does([profile_active_dd |-> name]) /\ name \in props.profile_active_options
  /\ Edit([Edited EXCEPT !.active = name])

ClickLoadFile ==
  /\ Does([profile_load_file_btn |-> 1])
  /\ Edit(IF file = None THEN Edited ELSE file)

ClickSaveFile ==
  /\ Does([profile_save_file_btn |-> 1])
  /\ raced' = (raced \/ EditUnderWay)
  /\ UNCHANGED <<file, expected>>

\* save: the file is written aside and renamed, or is left as it was.
SaveToFile ==
  /\ Served("save_to_file")
  /\ file' \in {file, OrDefault(calls["save_to_file"].with.hover_profile_store)}
  /\ calls' = Others("save_to_file")
  /\ UNCHANGED <<props, inputs, raced, expected>>

\* The answers of several callbacks that write the store come in any order.
Answered(c, Handler(_)) ==
  /\ Reply(c, Handler)
  /\ raced' = (raced \/ Cardinality(Writers("hover_profile_store")) > 1)
  /\ UNCHANGED <<file, expected>>

Profiles ==
  \/ \E fields \in SUBSET Fields : Check(fields)
  \/ ClickSave \/ ClickDelete \/ ClickLoadFile \/ ClickSaveFile
  \/ \E name \in Names : ClickCreate(name) \/ Switch(name)
  \/ Answered("auto_load_on_profiles_visit", AutoLoad)
  \/ Answered("load_from_file", LoadFromFile)
  \/ SaveToFile
  \/ Answered("sync_profile_dropdown", SyncDropdown)
  \/ Answered("load_profile_fields", LoadFields)
  \/ Answered("save_profile", SaveProfile)
  \/ Answered("create_profile", CreateProfile)
  \/ Answered("delete_profile", DeleteProfile)
  \/ Answered("switch_active_profile", SwitchActive)
------------------------------------------------------------------------------
\* What a user who waits for each answer edits is what the browser keeps, from
\* page to page and whatever the callbacks call in turn, and what the page
\* shows (callbacks_profiles.py).
EditsStick == (~EditUnderWay /\ ~raced /\ expected # None) =>
  /\ props.hover_profile_store = expected
  /\ Shows(ProfilesLayout) => /\ props.profile_active_dd = expected.active
                              /\ props.profile_active_options = NamesOf(expected)
  /\ expected.active \in NamesOf(expected)
==================================================================================
