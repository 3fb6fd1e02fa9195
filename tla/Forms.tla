---------------------------------- MODULE Forms ----------------------------------
(* The two forms that write what later moves goods and money: the order form     *)
(* (orders/create/page.tsx) with its address fields, and the profile section of  *)
(* the settings with the bank account.  They share no state, so that a behaviour *)
(* follows one of them, in one tab.                                              *)
EXTENDS Naturals, FiniteSets

CONSTANTS Addresses, Fields,   \* what can be typed, and the address fields
          Accounts,            \* bank accounts: each has a number and a code
          NoTimer,
          MaxPosts, MaxSaves   \* bounds: calls on their way at a time

ASSUME FormsAssumption ==
  "" \notin Addresses \cup Accounts /\ NoTimer \notin Addresses \cup {""}

(* FormFields is mounted twice, and the width of the window shows one of the two *)
Views == {"mobile", "desktop"}

VARIABLES
  follows,  \* the form of this behaviour, never changed
  page,     \* "create", "created" (the success screen), "settings" or elsewhere
  view,     \* the copy of FormFields on screen
  field,    \* an address field: what the form holds, the text and timer of its copies
  rest,     \* the other inputs: incomplete, refused by the server only, or fine; a photo
  posts,    \* POST /orders calls; mine: sent by the form on screen
  story,    \* history of the form on screen: orders placed, an answer lost
  stored,   \* the bank columns of the user row
  user,     \* the copy in the auth store
  form,     \* the copy in the profile form
  saves,    \* PATCH /users/me calls; mine: sent by the form on screen
  heard     \* history: the last answer was that of the save served last

orderVars == <<view, field, rest, posts, story>>
profileVars == <<stored, user, form, saves, heard>>
formVars == <<follows, page, view, field, rest, posts, story, stored, user, form, saves, heard>>

-----------------------------------------------------------------------------------
(* The address field: typing is handed to the form after 300 ms, a suggestion at *)
(* once.  The two copies share what the form holds; each has a text and a timer  *)
(* of its own, and neither hears of the other's.  Of two timers the one armed    *)
(* last fires last.  Picking clears none: 'overtaken' remembers that one was     *)
(* running, whose text will replace the suggestion in the form, not on screen.   *)
Texts == Addresses \cup {""}
Timed(o) == {v \in Views : o.timer[v] # NoTimer}
EmptyField == [text |-> [v \in Views |-> ""], held |-> "", timer |-> [v \in Views |-> NoTimer],
               armed |-> "mobile", touched |-> "mobile", overtaken |-> FALSE]

Change(f, o) ==
  /\ page = "create"
  /\ field' = [field EXCEPT ![f] = o]
  /\ UNCHANGED <<follows, page, view, rest, posts, story, profileVars>>

Type(f, a) ==
  Change(f, [field[f] EXCEPT !.text[view] = a, !.timer[view] = a, !.armed = view,
                             !.touched = view, !.overtaken = FALSE])

TimerFires(f, v) ==
  /\ v \in Timed(field[f]) /\ (v = field[f].armed => Timed(field[f]) = {v})
  /\ Change(f, [field[f] EXCEPT !.held = field[f].timer[v], !.timer[v] = NoTimer])

(* mutation: the suggestion is shown but not handed to the form *)
PickShownOnly(f, a) ==
  /\ field[f].text[view] # ""
  /\ Change(f, [field[f] EXCEPT !.text[view] = a, !.touched = view,
                                !.overtaken = Timed(field[f]) # {}])

Pick(f, a) ==
  /\ field[f].text[view] # ""
  /\ Change(f, [field[f] EXCEPT !.text[view] = a, !.held = a, !.touched = view,
                                !.overtaken = Timed(field[f]) # {}])

(* the window is turned or resized across the breakpoint; the form stays mounted *)
Rotate ==
  /\ view' \in Views \ {view}
  /\ UNCHANGED <<follows, page, field, rest, posts, story, profileVars>>

(* the inputs of FormFields, and the photos, of which the form wants at least one *)
NewRest == [inputs |-> "incomplete", photo |-> FALSE]

FillIn(inputs) ==
  /\ page = "create" /\ rest.inputs # inputs
  /\ rest' = [rest EXCEPT !.inputs = inputs]
  /\ UNCHANGED <<follows, page, view, field, posts, story, profileVars>>

HandleImageSelect ==
  /\ page = "create" /\ ~rest.photo
  /\ rest' = [rest EXCEPT !.photo = TRUE]
  /\ UNCHANGED <<follows, page, view, field, posts, story, profileVars>>

HandleRemoveImage ==
  /\ page = "create" /\ rest.photo
  /\ rest' = [rest EXCEPT !.photo = FALSE]
  /\ UNCHANGED <<follows, page, view, field, posts, story, profileVars>>

-----------------------------------------------------------------------------------
(* handleSubmit.  isSubmitting is a state of the form on screen: leaving and     *)
(* coming back mounts another one, which knows nothing of a call on its way.     *)
IsSubmitting == \E c \in posts : c.mine
ValidateForm == rest.inputs # "incomplete" /\ rest.photo /\ \A f \in Fields : field[f].held # ""
Fresh(calls, most) == CHOOSE n \in 1..most : \A c \in calls : c.id # n
Payload == [f \in Fields |-> field[f].held]   \* the addresses an order is sent with
Post == [id |-> Fresh(posts, MaxPosts), at |-> "sent", mine |-> TRUE, rest |-> rest.inputs]

(* mutation: the handler relies on the button being disabled by a later render *)
SubmitAgain ==
  /\ page = "create" /\ ValidateForm
  /\ Cardinality(posts) < MaxPosts /\ story.placed < 2
  /\ posts' = posts \cup {Post}
  /\ UNCHANGED <<follows, page, view, field, rest, story, profileVars>>

Submit ==
  /\ page = "create" /\ ~IsSubmitting /\ ValidateForm
  /\ Cardinality(posts) < MaxPosts /\ story.placed < 2   \* bounds
  /\ posts' = posts \cup {Post}
  /\ UNCHANGED <<follows, page, view, field, rest, story, profileVars>>

Move(c, at) == posts' = (posts \ {c}) \cup {[c EXCEPT !.at = at]}

CreateServed(c) ==
  /\ c \in posts /\ c.at = "sent" /\ c.rest = "fine"
  /\ Move(c, "placed")
  /\ story' = IF c.mine THEN [story EXCEPT !.placed = @ + 1] ELSE story
  /\ UNCHANGED <<follows, page, view, field, rest, profileVars>>

NoStory == [placed |-> 0, lost |-> FALSE]

(* the success screen stays for 800 ms, then the router goes to the order, from  *)
(* wherever the person is by now                                                 *)
CreateAnswered(c) ==
  /\ c \in posts /\ c.at = "placed"
  /\ Move(c, "created")
  /\ page' = IF c.mine THEN "created" ELSE page
  /\ UNCHANGED <<follows, view, field, rest, story, profileVars>>

GoToOrder(c) ==
  /\ c \in posts /\ c.at = "created"
  /\ posts' = {[d EXCEPT !.mine = FALSE] : d \in posts \ {c}}
  /\ page' = "elsewhere"
  /\ field' = [f \in Fields |-> EmptyField] /\ rest' = NewRest
  /\ story' = NoStory
  /\ UNCHANGED <<follows, view, profileVars>>

(* refused by the validation pipe, not reached, timed out, or the answer is lost *)
CreateFails(c) ==
  /\ c \in posts /\ c.at \in {"sent", "placed"}
  /\ posts' = posts \ {c}
  /\ story' = IF c.mine /\ c.at = "placed" THEN [story EXCEPT !.lost = TRUE] ELSE story
  /\ UNCHANGED <<follows, page, view, field, rest, profileVars>>

-----------------------------------------------------------------------------------
(* The profile section.  Signing in puts a user without bank columns into the    *)
(* store (toUserResponse), so that the form starts blank whatever is stored.     *)
Blank == [number |-> "", code |-> ""]

SignIn ==
  /\ page = "elsewhere" /\ posts = {} /\ user # Blank
  /\ user' = Blank /\ heard' = FALSE
  /\ UNCHANGED <<follows, page, orderVars, stored, form, saves>>

EditAccount(k, a) ==
  /\ page = "settings" /\ form[k] # a
  /\ form' = [form EXCEPT ![k] = a]
  /\ UNCHANGED <<follows, page, orderVars, stored, user, saves, heard>>

Saving == \E s \in saves : s.mine

(* whatever the two inputs hold: nothing asks for number and code of one account *)
HandleSave ==
  /\ page = "settings" /\ ~Saving
  /\ Cardinality(saves) < MaxSaves   \* bound
  /\ saves' = saves \cup {[id |-> Fresh(saves, MaxSaves), mine |-> TRUE, done |-> FALSE,
                           latest |-> FALSE, row |-> form]}
  /\ UNCHANGED <<follows, page, orderVars, stored, user, form, heard>>

(* a blank input is sent as undefined, which writes nothing *)
UpdateProfile(sent) == [k \in {"number", "code"} |-> IF sent[k] = "" THEN stored[k] ELSE sent[k]]

(* the columns are written one by one, and the answer is the row as it is then *)
Serve(s, answer) ==
  /\ s \in saves /\ ~s.done
  /\ stored' = UpdateProfile(s.row) /\ heard' = FALSE
  /\ saves' = {[t EXCEPT !.latest = FALSE] : t \in saves \ {s}}
                \cup {[s EXCEPT !.done = TRUE, !.latest = TRUE, !.row = answer]}
  /\ UNCHANGED <<follows, page, orderVars, user, form>>

(* mutation: the service answers with what it was sent *)
SaveServedEcho(s) == Serve(s, s.row)

SaveServed(s) == Serve(s, UpdateProfile(s.row))

(* setUser(updated) resets the form on screen, whatever was typed since *)
SaveAnswered(s) ==
  /\ s \in saves /\ s.done
  /\ saves' = saves \ {s}
  /\ user' = s.row /\ heard' = s.latest
  /\ form' = IF page = "settings" THEN s.row ELSE form
  /\ UNCHANGED <<follows, page, orderVars, stored>>

SaveFails(s) ==
  /\ s \in saves
  /\ saves' = saves \ {s}
  /\ UNCHANGED <<follows, page, orderVars, stored, user, form, heard>>

-----------------------------------------------------------------------------------
Open ==
  /\ page = "elsewhere"
  /\ page' = follows
  /\ form' = IF follows = "settings" THEN user ELSE form
  /\ UNCHANGED <<follows, orderVars, stored, user, saves, heard>>

Leave ==
  /\ page \in {"create", "settings"}
  /\ page' = "elsewhere"
  /\ field' = [f \in Fields |-> EmptyField] /\ rest' = NewRest
  /\ story' = NoStory /\ form' = Blank
  /\ posts' = {[c EXCEPT !.mine = FALSE] : c \in posts}
  /\ saves' = {[s EXCEPT !.mine = FALSE] : s \in saves}
  /\ UNCHANGED <<follows, view, stored, user, heard>>

FormsInit ==
  /\ follows \in {"create", "settings"} /\ page = "elsewhere" /\ view \in Views
  /\ field = [f \in Fields |-> EmptyField] /\ rest = NewRest
  /\ posts = {} /\ story = NoStory
  /\ stored = Blank /\ user = Blank /\ form = Blank
  /\ saves = {} /\ heard = FALSE

FormsNext ==
  \/ Open \/ Leave \/ Rotate
  \/ \E f \in Fields : \/ \E a \in Texts : Type(f, a)
                       \/ \E v \in Views : TimerFires(f, v)
                       \/ \E a \in Addresses : Pick(f, a)
  \/ \E inputs \in {"incomplete", "refusable", "fine"} : FillIn(inputs)
  \/ HandleImageSelect \/ HandleRemoveImage
  \/ Submit
  \/ \E c \in posts : CreateServed(c) \/ CreateAnswered(c) \/ GoToOrder(c) \/ CreateFails(c)
  \/ SignIn
  \/ \E k \in {"number", "code"}, a \in Accounts \cup {""} : EditAccount(k, a)
  \/ HandleSave
  \/ \E s \in saves : SaveServed(s) \/ SaveAnswered(s) \/ SaveFails(s)

FormsSpec == FormsInit /\ [][FormsNext]_formVars

-----------------------------------------------------------------------------------
(* Once the 300 ms have passed, and no suggestion was picked within them, an     *)
(* order is sent with the addresses the seller sees, whatever is typed, picked   *)
(* and cleared before, in either copy of the form: as long as each address was   *)
(* touched last in the copy on screen, for the other copy shows what it did.     *)
Settled(o) == Timed(o) = {} /\ ~o.overtaken /\ o.touched = view
OnScreen == [f \in Fields |-> field[f].text[view]]

OrderAsShown == (\A f \in Fields : Settled(field[f])) => Payload = OnScreen

(* One filled-in form makes one order, however often the button is pressed, as   *)
(* long as no answer is lost: POST /orders knows no repeated order.              *)
NoSecondOrder == page \in {"create", "created"} => story.placed <= 1 \/ story.lost

(* A seller whose last answer was that of the save served last, and who edited    *)
(* nothing since, sees the account that payouts will go to: with saves partial,    *)
(* lost, overlapping and answered over edits.  It need not be one account: an      *)
(* answer that resets one input before the other is typed leaves a mixture, which  *)
(* the service stores; the page shows it.                                          *)
AccountAsShown == page = "settings" /\ heard /\ form = user => form = stored
==================================================================================
