------------------------------- MODULE Dialogs -------------------------------
(***************************************************************************)
(* The conversations of the bot with one person (app/bot/handlers.py and   *)
(* handlers_planning.py): questions answered with buttons and texts, until *)
(* a request goes to the backend.                                          *)
(*                                                                         *)
(* The chat is old: a button of any keyboard ever shown may be pressed.    *)
(* The dispatcher handles updates as tasks, so that several may be in      *)
(* flight.  What handles an update is chosen, by the state, when it        *)
(* arrives; its handler reads and writes state and data later, and one     *)
(* that sends a request clears them after the answer.  The few awaits in   *)
(* between are taken as one step.  An answer that cannot be used, a step   *)
(* for which the data lacks something, or a refusal changes nothing but    *)
(* what a failed request may clear.                                        *)
(***************************************************************************)
EXTENDS Integers, FiniteSets, Sequences, SequencesExt

CONSTANTS
  Menus,         \* sets of dialogs; the buttons of one of them are in the chat
  Bands,         \* bands the person leads, and
  PlanBands,     \* those they may ask for a rehearsal for
  Crew,          \* the members of a band
  Purposes,
  Durations,     \* lengths of a rehearsal, and
  Lengths,       \* of a window that was typed
  Days,
  MaxPriorities, \* MAX_PRIORITIES
  Concerts,
  Applications,
  Listed,        \* the band of an application and the members on it
  OwnEvents,     \* entries of the person's own history
  Texts,         \* valid answers to a question
  MaxInFlight,   \* bound on the updates in flight
  None

VARIABLES
  menu,      \* which dialogs the person may open
  card,      \* what the backend has of a complete profile
  state,     \* of the conversation, and
  data,      \* its answers so far: both in Redis
  inflight,  \* updates that have arrived
  call,      \* the request this step sends
  told,      \* history: what the bot asked last, what the person said since the
             \* dialog began, and whether always on the newest keyboard; None
             \* after updates overlapped
  asked      \* history: whether the bot asked anything since a cancel

vars == <<menu, card, state, data, inflight, call, told, asked>>

Nothing == [k \in {} |-> None]
Put(key, value, f) == [k \in DOMAIN f \cup {key} |-> IF k = key THEN value ELSE f[k]]
With(new, f) == [k \in DOMAIN f \cup DOMAIN new |-> IF k \in DOMAIN new THEN new[k] ELSE f[k]]

(***************************************************************************)
(* The questions that only store their answer and ask the next one; the    *)
(* answer's name in the data, and what the question was about.             *)
(***************************************************************************)
NextQuestion == [
  event_title |-> "event_date", event_date |-> "event_location",
  event_location |-> "event_deadline",
  personal_event_title |-> "personal_event_date",
  personal_event_date |-> "personal_event_location",
  personal_event_location |-> "personal_event_role"]
KeyOf == [
  event_title |-> "title", event_date |-> "event_date", event_location |-> "location",
  personal_event_title |-> "personal_event_title",
  personal_event_date |-> "personal_event_date",
  personal_event_location |-> "personal_event_location"]
About == [
  event_title |-> "title", event_date |-> "date", event_location |-> "location",
  event_deadline |-> "deadline", event_edit_value |-> "value",
  personal_event_title |-> "title", personal_event_date |-> "date",
  personal_event_location |-> "location", personal_event_role |-> "role",
  personal_event_edit_value |-> "value", song |-> "song", song_title |-> "song",
  application_song_title |-> "song"]

(* The questions about the profile, in the registration and from its menu. *)
CardOrder == <<"onboarding_first_name", "onboarding_last_name", "onboarding_study_group",
               "onboarding_group", "onboarding_language">>
FieldOf == [
  onboarding_first_name |-> "first_name", onboarding_last_name |-> "last_name",
  onboarding_study_group |-> "study_group", onboarding_group |-> "group",
  onboarding_language |-> "language",
  profile_first_name |-> "first_name", profile_last_name |-> "last_name",
  profile_study_group |-> "study_group", profile_language |-> "language"]
Card == {"first_name", "last_name", "study_group"} \* User.profile_completed
ProfileQuestions == DOMAIN FieldOf \ ToSet(CardOrder)

EventFields == {"title", "event_date"}  \* bound: two of the four that can be edited

PlanStates == {"band", "duration", "day", "time", "more", "purpose", "song"}
TextStates == DOMAIN About \cup DOMAIN FieldOf \cup {"time"}
States == {None} \cup PlanStates \cup TextStates \cup {"band_id", "members", "application_members"}
Window == [day : Days, length : Lengths]

(* Buttons that only count in one state, the others, and what they carry. *)
AskedByButLength == [ \* A mistake: the length may be changed in any state
            plan_band |-> "band", plan_day |-> "day",
            plan_more |-> "more", plan_done |-> "more", plan_purpose |-> "purpose"]
AskedBy == [plan_band |-> "band", plan_dur |-> "duration", plan_day |-> "day",
            plan_more |-> "more", plan_done |-> "more", plan_purpose |-> "purpose"]
ButtonsOf == [
  plan |-> {"plan_start", "plan_new", "plan_band", "plan_dur", "plan_day", "plan_more",
            "plan_done", "plan_purpose"},
  list |-> {"event_apply", "event_band", "event_member", "event_submit", "event_back_bands"},
  application |-> {"event_application_edit_song", "event_application_edit_members",
                   "event_application_member", "event_application_members_save",
                   "event_application_delete_confirm"},
  concert |-> {"create_event"}, concert_edit |-> {"admin_event_edit"},
  own_event |-> {"history_add"},
  own_event_edit |-> {"personal_event_edit", "personal_event_delete_confirm"},
  profile |-> {"profile_edit"}, registration |-> {"start"}]
Arguments(button) ==
  CASE button = "plan_band" -> PlanBands
    [] button = "event_band" -> Bands
    [] button = "plan_dur" -> Durations
    [] button = "plan_day" -> Days
    [] button = "plan_purpose" -> Purposes
    [] button = "event_apply" -> Concerts
    [] button \in {"event_member", "event_application_member"} -> UNION {Crew[b] : b \in Bands}
    [] button \in {"event_application_edit_song", "event_application_edit_members",
                   "event_application_members_save", "event_application_delete_confirm"} -> Applications
    [] button = "admin_event_edit" -> Concerts \X EventFields
    [] button = "personal_event_edit" -> OwnEvents \X EventFields
    [] button = "personal_event_delete_confirm" -> OwnEvents
    [] button = "profile_edit" -> ProfileQuestions
    [] OTHER -> {None}

Init ==
  /\ menu \in Menus
  /\ card \in (IF "registration" \in menu THEN SUBSET Card ELSE {Card})
  /\ state = None /\ data = Nothing
  /\ inflight = <<>>
  /\ call = None /\ told = None /\ asked = FALSE
------------------------------------------------------------------------------
(***************************************************************************)
(* An update arrives.  One that overlaps with another ends the part of the *)
(* history in which the person waited for each answer.                     *)
(***************************************************************************)
Arrive(update) ==
  /\ Len(inflight) < MaxInFlight
  /\ inflight' = Append(inflight, update)
  /\ told' = IF inflight = <<>> THEN told ELSE None
  /\ call' = None
  /\ UNCHANGED <<menu, card, state, data, asked>>

Update(on, arg) == [on |-> on, at |-> state, arg |-> arg, request |-> None]

Press(button, arg) ==
  /\ button \in DOMAIN AskedBy => state = AskedBy[button]
  /\ Arrive(Update(button, arg))

Typable == IF state = "time" THEN Lengths ELSE Texts
Type(arg) ==
  /\ state \in TextStates
  /\ Arrive(Update("text", arg))

------------------------------------------------------------------------------
(* What becomes of an update: the steps all handlers share. *)

Has(i, button) == i \in DOMAIN inflight /\ inflight[i].on = button /\ inflight[i].request = None
Typed(i, at) == Has(i, "text") /\ inflight[i].at = at
Knows(keys) == keys \subseteq DOMAIN data

Handled(i) == inflight' = RemoveAt(inflight, i)

(* The bot stores d and asks: the conversation is in state s. *)
Ask(i, s, d) ==
  /\ Handled(i)
  /\ state' = s
  /\ data' = d
  /\ asked' = TRUE
  /\ call' = None
  /\ UNCHANGED <<menu, card>>

ClearState == state' = None /\ UNCHANGED data \* A mistake: the answers stay
Clear ==
  /\ state' = None
  /\ data' = Nothing

(* What the backend refuses whatever its tables say: a request for the     *)
(* week that asks for more than its windows hold, or for too many of them, *)
(* and a concert without a title or a date.                                *)
WindowsFit(body) ==
  /\ Len(body.windows) \in 1 .. MaxPriorities
  /\ \A n \in DOMAIN body.windows : body.windows[n].length >= body.duration
ConcertNamed(body) == body.title # None /\ body.date # None
Acceptable(to, body) ==
  /\ to = "planning request" => WindowsFit(body)
  /\ to = "concert" => ConcertNamed(body)

(* A request goes out; the answer is still to come. *)
Send(i, to, body) ==
  /\ inflight' = [inflight EXCEPT ![i].request = IF Acceptable(to, body) THEN "sent" ELSE "unacceptable"]
  /\ call' = [to |-> to, body |-> body]
  /\ UNCHANGED <<menu, card, state, data, asked>>

(* The person's side: a dialog begins, or the newest question is answered. *)
Begins(to, ask, said) ==
  told' = IF Len(inflight) = 1 THEN [to |-> to, ask |-> ask, said |-> said, newest |-> TRUE] ELSE None
Astray == IF told = None THEN None ELSE [told EXCEPT !.newest = FALSE]
Says(about, ask, said) ==
  told' = IF told # None /\ told.newest /\ told.ask = about
          THEN [told EXCEPT !.ask = ask, !.said = With(said, told.said)] ELSE Astray

------------------------------------------------------------------------------
(* A request for the week (handlers_planning.py). *)

PlanNew(i) ==
  /\ Has(i, "plan_new")
  /\ Ask(i, "band", Nothing)
  /\ Begins("planning request", "band", [windows |-> <<>>])

PlanBand(i) ==
  /\ Has(i, "plan_band")
  /\ Ask(i, "duration", With([plan_band_id |-> inflight[i].arg, plan_windows |-> <<>>], data))
  /\ Says("band", "duration", [band |-> inflight[i].arg])

PlanDuration(i) ==
  /\ Has(i, "plan_dur")
  /\ Ask(i, "day", Put("plan_duration", inflight[i].arg, data))
  /\ Says("duration", "day", [duration |-> inflight[i].arg])

PlanDay(i) ==
  /\ Has(i, "plan_day")
  /\ Ask(i, "time", Put("plan_day", inflight[i].arg, data))
  /\ Says("day", "time", [day |-> inflight[i].arg])

Windows == IF "plan_windows" \in DOMAIN data THEN data["plan_windows"] ELSE <<>>
LongEnough(length) == length >= data["plan_duration"]
TimeFits(i) == Knows({"plan_duration", "plan_day"}) /\ LongEnough(inflight[i].arg)

(* The last window leads to the purpose, any other to "one more?". *)
PlanTime(i) ==
  /\ Typed(i, "time")
  /\ TimeFits(i)
  /\ LET windows == Append(Windows, [day |-> data["plan_day"], length |-> inflight[i].arg])
         next == IF Len(windows) < MaxPriorities THEN "more" ELSE "purpose"
     IN  /\ Ask(i, next, Put("plan_windows", windows, data))
         /\ Says("time", next, [windows |->
              Append(told.said["windows"], [day |-> told.said["day"], length |-> inflight[i].arg])])

PlanMore(i) == Has(i, "plan_more") /\ Ask(i, "day", data) /\ Says("more", "day", Nothing)

PlanDone(i) ==
  /\ Has(i, "plan_done")
  /\ Knows({"plan_windows"})
  /\ Ask(i, "purpose", data)
  /\ Says("more", "purpose", Nothing)

PlanPurpose(i) ==
  /\ Has(i, "plan_purpose")
  /\ Ask(i, "song", Put("plan_purpose", inflight[i].arg, data))
  /\ Says("purpose", "song", [purpose |-> inflight[i].arg])

PlanKeys == {"plan_band_id", "plan_duration", "plan_purpose", "plan_windows"}
PlanSong(i) ==
  /\ Typed(i, "song")
  /\ Knows(PlanKeys)
  /\ Send(i, "planning request",
          [band |-> data["plan_band_id"], duration |-> data["plan_duration"],
           purpose |-> data["plan_purpose"], windows |-> data["plan_windows"], song |-> inflight[i].arg])
  /\ Says("song", "song", [song |-> inflight[i].arg])

------------------------------------------------------------------------------
(* Submitting a list to a concert; none of its buttons looks at the state. *)

EventApply(i) ==
  /\ Has(i, "event_apply")
  /\ Ask(i, "band_id", With([event_id |-> inflight[i].arg, bands |-> Bands], data))
  /\ Begins("application", "band_id", [event |-> inflight[i].arg])

BandChosenKeeping(b) == \* A mistake: the members chosen for another band stay
  With([band_id |-> b, selected_member_ids |->
    IF "selected_member_ids" \in DOMAIN data THEN data["selected_member_ids"] ELSE Crew[b]], data)
BandChosen(b) == With([band_id |-> b, selected_member_ids |-> Crew[b]], data)
EventBand(i) ==
  /\ Has(i, "event_band")
  /\ Knows({"bands"})
  /\ Ask(i, "song_title", BandChosen(inflight[i].arg))
  /\ Says("band_id", "song_title", [band |-> inflight[i].arg, members |-> Crew[inflight[i].arg]])

EventSong(i) ==
  /\ Typed(i, "song_title")
  /\ Knows({"band_id"})
  /\ Ask(i, "members", Put("song_title", inflight[i].arg, data))
  /\ Says("song_title", "members", [song |-> inflight[i].arg])

(* Without a band the song is stored all the same, and nothing is asked.   *)
EventSongAlone(i) ==
  /\ Typed(i, "song_title")
  /\ ~Knows({"band_id"})
  /\ Handled(i)
  /\ state' = "members"
  /\ data' = Put("song_title", inflight[i].arg, data)
  /\ told' = Astray
  /\ call' = None
  /\ UNCHANGED <<menu, card, asked>>

Toggled(m, members) == IF m \in members THEN members \ {m} ELSE members \cup {m}
Selected(key) == IF key \in DOMAIN data THEN data[key] ELSE {}

(* The keyboard with the members is shown again; the state stays. *)
EventMember(i) ==
  /\ Has(i, "event_member")
  /\ Ask(i, state, Put("selected_member_ids", Toggled(inflight[i].arg, Selected("selected_member_ids")), data))
  /\ Says("members", "members", [members |-> Toggled(inflight[i].arg, told.said["members"])])

EventBackBands(i) ==
  /\ Has(i, "event_back_bands")
  /\ Knows({"bands"})
  /\ Ask(i, "band_id", data)
  /\ Says("members", "band_id", Nothing)

ListKeys == {"event_id", "band_id", "song_title"}
ListReady == Selected("selected_member_ids") # {} /\ Knows(ListKeys)
EventSubmit(i) ==
  /\ Has(i, "event_submit")
  /\ ListReady
  /\ Send(i, "application",
          [event |-> data["event_id"], band |-> data["band_id"], song |-> data["song_title"],
           members |-> data["selected_member_ids"]])
  /\ Says("members", "members", Nothing)
------------------------------------------------------------------------------
(* Changing an application that was submitted. *)

EditSong(i) ==
  /\ Has(i, "event_application_edit_song")
  /\ Ask(i, "application_song_title", Put("event_application_edit_id", inflight[i].arg, data))
  /\ Begins("application song", "application_song_title", [item |-> inflight[i].arg])

ApplicationSong(i) ==
  /\ Typed(i, "application_song_title")
  /\ Knows({"event_application_edit_id"})
  /\ Send(i, "application song", [item |-> data["event_application_edit_id"], song |-> inflight[i].arg])
  /\ Says("application_song_title", "application_song_title", [song |-> inflight[i].arg])

EditMembers(i) ==
  /\ Has(i, "event_application_edit_members")
  /\ Ask(i, "application_members",
         With([event_application_edit_id |-> inflight[i].arg,
               event_application_selected_member_ids |-> Listed[inflight[i].arg].members], data))
  /\ Begins("application members", "application_members",
            [item |-> inflight[i].arg, members |-> Listed[inflight[i].arg].members])

ApplicationMember(i) ==
  /\ Has(i, "event_application_member")
  /\ Knows({"event_application_edit_id"})
  /\ Ask(i, state, Put("event_application_selected_member_ids",
         Toggled(inflight[i].arg, Selected("event_application_selected_member_ids")), data))
  /\ Says("application_members", "application_members",
          [members |-> Toggled(inflight[i].arg, told.said["members"])])

(* The button names the application, the data the members. *)
SavedMembers == Selected("event_application_selected_member_ids")
ApplicationMembersSave(i) ==
  /\ Has(i, "event_application_members_save")
  /\ SavedMembers # {}
  /\ Send(i, "application members", [item |-> inflight[i].arg, members |-> SavedMembers])
  /\ IF told # None /\ told.ask = "application_members" /\ told.said["item"] = inflight[i].arg
     THEN UNCHANGED told ELSE told' = Astray

------------------------------------------------------------------------------
(* Concerts, the person's own history, the profile and the registration. *)

Starts(i, button, s, to) == Has(i, button) /\ Ask(i, s, data) /\ Begins(to, s, Nothing)
CreateConcert(i) == Starts(i, "create_event", "event_title", "concert")
AddOwnEvent(i) == Starts(i, "history_add", "personal_event_title", "own event")

FormText(i) ==
  \E s \in DOMAIN NextQuestion :
    /\ Typed(i, s)
    /\ Ask(i, NextQuestion[s], Put(KeyOf[s], inflight[i].arg, data))
    /\ Says(s, NextQuestion[s], Put(About[s], inflight[i].arg, Nothing))

(* All of the data goes out, whether or not the questions were answered. *)
Given(key) == IF Knows({key}) THEN data[key] ELSE None
ConcertDeadline(i) ==
  /\ Typed(i, "event_deadline")
  /\ Send(i, "concert", [title |-> Given("title"), date |-> Given("event_date"),
                        location |-> Given("location"), deadline |-> inflight[i].arg])
  /\ Says("event_deadline", "event_deadline", [deadline |-> inflight[i].arg])

OwnKeys == {"personal_event_title", "personal_event_date"}
OwnEventRole(i) ==
  /\ Typed(i, "personal_event_role")
  /\ Knows(OwnKeys)
  /\ Send(i, "own event",
          [title |-> data["personal_event_title"], date |-> data["personal_event_date"],
           location |-> Given("personal_event_location"), role |-> inflight[i].arg])
  /\ Says("personal_event_role", "personal_event_role", [role |-> inflight[i].arg])

(* A button names the item and the field, a text its new value. *)
EditConcert(i) ==
  /\ Has(i, "admin_event_edit")
  /\ LET edit == inflight[i].arg
     IN  /\ Ask(i, "event_edit_value", With([event_edit_id |-> edit[1], event_edit_field |-> edit[2]], data))
         /\ Begins("concert change", "event_edit_value", [item |-> edit[1], field |-> edit[2]])

EditOwnEvent(i) ==
  /\ Has(i, "personal_event_edit")
  /\ LET edit == inflight[i].arg
     IN  /\ Ask(i, "personal_event_edit_value",
                With([personal_event_edit_id |-> edit[1], personal_event_edit_field |-> edit[2]], data))
         /\ Begins("own event change", "personal_event_edit_value", [item |-> edit[1], field |-> edit[2]])

Change(i, s, to, item, field) ==
  /\ Typed(i, s)
  /\ Knows({item, field})
  /\ Send(i, to, [item |-> data[item], field |-> data[field], value |-> inflight[i].arg])
  /\ Says(s, s, [value |-> inflight[i].arg])
ConcertEdited(i) ==
  Change(i, "event_edit_value", "concert change", "event_edit_id", "event_edit_field")
OwnEventEdited(i) ==
  Change(i, "personal_event_edit_value", "own event change",
         "personal_event_edit_id", "personal_event_edit_field")

EditProfile(i) ==
  /\ Has(i, "profile_edit")
  /\ Ask(i, inflight[i].arg, data)
  /\ Begins("settings", inflight[i].arg, Nothing)

(* /start and any other message ask the first question without an answer. *)
FirstMissing ==
  CardOrder[CHOOSE n \in DOMAIN CardOrder :
    /\ FieldOf[CardOrder[n]] \notin card
    /\ \A m \in 1 .. n - 1 : FieldOf[CardOrder[m]] \in card]
StartRegistration(i) ==
  /\ Has(i, "start")
  /\ ~ (Card \subseteq card)
  /\ Ask(i, FirstMissing, data)
  /\ Begins("settings", FirstMissing, Nothing)

ProfileText(i) ==
  \E s \in DOMAIN FieldOf :
    /\ Typed(i, s)
    /\ Send(i, "settings", [field |-> FieldOf[s], value |-> inflight[i].arg])
    /\ Says(s, s, [field |-> FieldOf[s], value |-> inflight[i].arg])

(* A confirmed deletion goes out whatever the conversation is about. *)
Deletions == {"event_application_delete_confirm", "personal_event_delete_confirm"}
Delete(i) ==
  /\ \E b \in Deletions : Has(i, b)
  /\ Send(i, inflight[i].on, inflight[i].arg)
  /\ UNCHANGED told
------------------------------------------------------------------------------
(***************************************************************************)
(* The answer to a request.  Most handlers clear the conversation; a       *)
(* registration goes on to its next question.  When the request is         *)
(* refused, some clear all the same, and the others leave everything; so   *)
(* does every handler that cannot read the answer.  Whether the backend    *)
(* has stored an answer that was lost, the bot does not know.              *)
(***************************************************************************)
ClearsAnyway == {"song", "application_song_title", "personal_event_role", "personal_event_edit_value"}
Done(i) == i \in DOMAIN inflight /\ inflight[i].request # None
RegistrationStep(i) == inflight[i].on = "text" /\ inflight[i].at \in ToSet(CardOrder)
Over == told' = IF Len(inflight) = 1 THEN None ELSE told

Saved(i) == card' = IF RegistrationStep(i) THEN card \cup ({FieldOf[inflight[i].at]} \cap Card) ELSE card

Close(i) ==
  /\ Done(i)
  /\ inflight[i].request = "unacceptable" => inflight[i].at \in ClearsAnyway
  /\ RegistrationStep(i) => inflight[i].at = Last(CardOrder)
  /\ Saved(i)
  /\ Handled(i) /\ Clear /\ Over
  /\ call' = None
  /\ UNCHANGED <<menu, asked>>

NextOfCard(i) ==
  /\ Done(i)
  /\ RegistrationStep(i)
  /\ inflight[i].at # Last(CardOrder)
  /\ LET next == CardOrder[1 + CHOOSE n \in DOMAIN CardOrder : CardOrder[n] = inflight[i].at]
     IN  /\ state' = next
         /\ Begins("settings", next, Nothing)
  /\ Saved(i)
  /\ Handled(i)
  /\ asked' = TRUE
  /\ call' = None
  /\ UNCHANGED <<menu, data>>

Keep(i) ==
  /\ Done(i)
  /\ UNCHANGED card \/ Saved(i)
  /\ Handled(i)
  /\ call' = None
  /\ UNCHANGED <<menu, state, data, told, asked>>

(* An update that leads nowhere: its data is gone, or it does not fit. *)
Usable(i) ==
  LET on == inflight[i].on at == inflight[i].at IN
  /\ on = "text" => CASE at = "time" -> TimeFits(i)
                      [] at = "song" -> Knows(PlanKeys)
                      [] at = "application_song_title" -> Knows({"event_application_edit_id"})
                      [] at = "personal_event_role" -> Knows(OwnKeys)
                      [] at = "event_edit_value" -> Knows({"event_edit_id"})
                      [] at = "personal_event_edit_value" -> Knows({"personal_event_edit_id"})
                      [] OTHER -> TRUE
  /\ on = "plan_done" => Knows({"plan_windows"})
  /\ on \in {"event_band", "event_back_bands"} => Knows({"bands"})
  /\ on = "event_submit" => ListReady
  /\ on = "event_application_member" => Knows({"event_application_edit_id"})
  /\ on = "event_application_members_save" => SavedMembers # {}
  /\ on = "start" => ~ (Card \subseteq card)

Drop(i) ==
  /\ i \in DOMAIN inflight /\ inflight[i].request = None
  /\ ~Usable(i)
  /\ Handled(i)
  /\ call' = None
  /\ UNCHANGED <<menu, card, state, data, told, asked>>

(* Cancel, back to the menu, and the entry to the planning. *)
Cancel(i) ==
  /\ Has(i, "flow_cancel") \/ Has(i, "plan_start")
  /\ Handled(i) /\ Clear /\ Over
  /\ asked' = FALSE
  /\ call' = None
  /\ UNCHANGED <<menu, card>>

(* The bot stops: its handlers and the updates nobody polled are lost, the *)
(* conversation stays in Redis.                                            *)
Restart ==
  /\ inflight # <<>>
  /\ inflight' = <<>>
  /\ call' = None
  /\ UNCHANGED <<menu, card, state, data, told, asked>>

Buttons == UNION {ButtonsOf[d] : d \in menu} \cup {"flow_cancel"}
Handle(i) ==
  \/ PlanNew(i) \/ PlanBand(i) \/ PlanDuration(i) \/ PlanDay(i) \/ PlanTime(i) \/ PlanMore(i)
  \/ PlanDone(i) \/ PlanPurpose(i) \/ PlanSong(i)
  \/ EventApply(i) \/ EventBand(i) \/ EventSong(i) \/ EventSongAlone(i) \/ EventMember(i)
  \/ EventBackBands(i) \/ EventSubmit(i)
  \/ EditSong(i) \/ ApplicationSong(i) \/ EditMembers(i) \/ ApplicationMember(i) \/ ApplicationMembersSave(i)
  \/ CreateConcert(i) \/ ConcertDeadline(i) \/ EditConcert(i) \/ ConcertEdited(i)
  \/ AddOwnEvent(i) \/ OwnEventRole(i) \/ EditOwnEvent(i) \/ OwnEventEdited(i) \/ FormText(i)
  \/ EditProfile(i) \/ StartRegistration(i) \/ ProfileText(i) \/ Delete(i)
  \/ Close(i) \/ NextOfCard(i) \/ Keep(i) \/ Drop(i) \/ Cancel(i)

Next ==
  \/ \E button \in Buttons : \E arg \in Arguments(button) : Press(button, arg)
  \/ \E arg \in Typable : Type(arg)
  \/ \E i \in DOMAIN inflight : Handle(i)
  \/ Restart

Spec == Init /\ [][Next]_vars
------------------------------------------------------------------------------
(* Whoever waits for the bot's answer before the next press, and answers   *)
(* the list's newest keyboard, has exactly what they said sent: to the     *)
(* item and field they were asked about last, whatever old buttons open    *)
(* other dialogs in between, and over restarts of the bot.                 *)
SentAsTold ==
  [][call' # None /\ told' # None /\ call'.to = told'.to /\ told'.newest =>
       \A k \in DOMAIN call'.body : k \in DOMAIN told'.said /\ call'.body[k] = told'.said[k]]_vars

(* As long as the person has waited for each answer since the dialog began *)
(* (told is None once updates overlapped), a request for the week asks for *)
(* no rehearsal longer than one of its windows and for no more windows     *)
(* than there are priorities: the states keep old keyboards from changing  *)
(* the length once a window was typed.  Of two lengths pressed at once the *)
(* second may be stored after a window, as plan_pick_duration does not     *)
(* look at the state again; create_request then refuses, and the dialog is *)
(* lost.                                                                   *)
PlanFits ==
  [][call' # None /\ told' # None /\ call'.to = "planning request" => WindowsFit(call'.body)]_vars

(* After a cancel nothing of the conversation that the backend could       *)
(* accept is sent until the bot has asked again, even by a handler that    *)
(* was already under way: what it lacks is gone with the data.  Settings   *)
(* carry their answer themselves.                                          *)
NothingAfterCancel ==
  [][call' # None /\ call'.to \notin {"settings"} \cup Deletions /\ Acceptable(call'.to, call'.body) =>
       asked]_vars
==============================================================================
