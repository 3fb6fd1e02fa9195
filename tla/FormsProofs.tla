-------------------------------- MODULE FormsProofs --------------------------------
(* Machine-checked proofs about Forms, for every set of addresses, fields and       *)
(* accounts and any number of calls on their way.                                   *)
EXTENDS Forms, TLAPS

-----------------------------------------------------------------------------------
(* The order form: what a field holds is told by the timer armed last.              *)
FieldTyped(o) ==
  o \in [text : [Views -> Texts], held : Texts, timer : [Views -> Texts \cup {NoTimer}],
         armed : Views, touched : Views, overtaken : BOOLEAN]

(* The copy touched last shows what the form holds, or what it will hold when its    *)
(* timer has fired, which is after every other.                                     *)
HeldOrTimed(o) ==
  \/ o.overtaken = TRUE
  \/ Timed(o) = {} /\ o.text[o.touched] = o.held
  \/ o.touched \in Timed(o) /\ o.armed = o.touched /\ o.text[o.touched] = o.timer[o.touched]

FieldsInv ==
  /\ view \in Views /\ DOMAIN field = Fields
  /\ \A f \in Fields : FieldTyped(field[f]) /\ HeldOrTimed(field[f])

IsPost(c) == DOMAIN c = {"id", "at", "mine", "rest"} /\ c.mine \in BOOLEAN

StoryTyped == story.placed \in Nat /\ story.lost \in BOOLEAN
                /\ story = [placed |-> story.placed, lost |-> story.lost]

(* One call at most is of the form on screen, and an order it has placed whose       *)
(* answer is not lost is still the order of that call.                              *)
OneMine == \A c, d \in posts : c.mine /\ d.mine => c = d

PlacedByMine ==
  ~story.lost =>
    \/ story.placed = 0
    \/ story.placed = 1 /\ \E c \in posts : c.mine /\ c.at \in {"placed", "created"}

CallsInv == (\A c \in posts : IsPost(c)) /\ StoryTyped /\ OneMine /\ PlacedByMine

OrderInv == FieldsInv /\ CallsInv

LEMMA FieldsEmpty ==
  ASSUME view \in Views, field = [f \in Fields |-> EmptyField]
  PROVE  FieldsInv
BY FormsAssumption DEF FieldsInv, FieldTyped, HeldOrTimed, Timed, EmptyField, Texts, Views

LEMMA OrderInvInit ==
  ASSUME FormsInit
  PROVE  OrderInv
<1>1. FieldsInv BY FieldsEmpty DEF FormsInit
<1>2. CallsInv BY DEF FormsInit, CallsInv, StoryTyped, OneMine, PlacedByMine, NoStory
<1> QED
  BY <1>1, <1>2 DEF OrderInv

(* a field is replaced by one that is as it should be *)
LEMMA FieldChanges ==
  ASSUME OrderInv, NEW f \in Fields, NEW o, Change(f, o), FieldTyped(o), HeldOrTimed(o)
  PROVE  OrderInv'
<1>1. FieldsInv' BY DEF OrderInv, FieldsInv, Change
<1>2. CallsInv' BY DEF OrderInv, CallsInv, StoryTyped, OneMine, PlacedByMine, IsPost, Change
<1> QED
  BY <1>1, <1>2 DEF OrderInv

LEMMA TypeKeeps ==
  ASSUME OrderInv, NEW f \in Fields, NEW a \in Texts, Type(f, a)
  PROVE  OrderInv'
<1> DEFINE o == [field[f] EXCEPT !.text[view] = a, !.timer[view] = a, !.armed = view,
                                 !.touched = view, !.overtaken = FALSE]
<1>1. view \in Views /\ FieldTyped(field[f])
  BY DEF OrderInv, FieldsInv
<1>2. /\ o.text = [field[f].text EXCEPT ![view] = a]
      /\ o.timer = [field[f].timer EXCEPT ![view] = a]
      /\ o.armed = view /\ o.touched = view /\ o.overtaken = FALSE /\ o.held = field[f].held
      /\ FieldTyped(o)
  BY <1>1 DEF FieldTyped
<1>3. Change(f, o) BY DEF Type
<1> HIDE DEF o
<1>4. o.text[view] = a /\ o.timer[view] = a
  BY <1>1, <1>2 DEF FieldTyped
<1>5. a # NoTimer BY FormsAssumption DEF Texts
<1>6. HeldOrTimed(o) BY <1>1, <1>2, <1>4, <1>5 DEF HeldOrTimed, Timed
<1> QED
  BY <1>2, <1>3, <1>6, FieldChanges

LEMMA TimerKeeps ==
  ASSUME OrderInv, NEW f \in Fields, NEW v \in Views, TimerFires(f, v)
  PROVE  OrderInv'
<1> DEFINE o == [field[f] EXCEPT !.held = field[f].timer[v], !.timer[v] = NoTimer]
<1>1. FieldTyped(field[f]) /\ HeldOrTimed(field[f])
  BY DEF OrderInv, FieldsInv
<1>2. field[f].timer[v] \in Texts
  BY <1>1 DEF TimerFires, FieldTyped, Timed
<1>3. /\ o.text = field[f].text /\ o.held = field[f].timer[v]
      /\ o.timer = [field[f].timer EXCEPT ![v] = NoTimer]
      /\ o.armed = field[f].armed /\ o.touched = field[f].touched
      /\ o.overtaken = field[f].overtaken
      /\ FieldTyped(o)
  BY <1>1, <1>2 DEF FieldTyped
<1>4. Change(f, o) /\ v \in Timed(field[f]) /\ (v = field[f].armed => Timed(field[f]) = {v})
  BY DEF TimerFires
<1> HIDE DEF o
<1>5. Timed(o) = Timed(field[f]) \ {v}
  BY <1>1, <1>3 DEF FieldTyped, Timed
<1>6. \A w \in Views : w # v => o.timer[w] = field[f].timer[w]
  BY <1>1, <1>3 DEF FieldTyped
<1>7. HeldOrTimed(o)
  <2>1. CASE field[f].armed = v
    BY <2>1, <1>1, <1>3, <1>4, <1>5 DEF HeldOrTimed
  <2>2. CASE field[f].armed # v
    BY <2>2, <1>1, <1>3, <1>4, <1>5, <1>6 DEF HeldOrTimed, FieldTyped
  <2> QED
    BY <2>1, <2>2
<1> QED
  BY <1>3, <1>4, <1>7, FieldChanges

LEMMA PickKeeps ==
  ASSUME OrderInv, NEW f \in Fields, NEW a \in Addresses, Pick(f, a)
  PROVE  OrderInv'
<1> DEFINE o == [field[f] EXCEPT !.text[view] = a, !.held = a, !.touched = view,
                                 !.overtaken = Timed(field[f]) # {}]
<1>1. view \in Views /\ FieldTyped(field[f])
  BY DEF OrderInv, FieldsInv
<1>2. a \in Texts /\ (Timed(field[f]) # {}) \in BOOLEAN
  BY DEF Texts
<1>3. /\ o.text = [field[f].text EXCEPT ![view] = a] /\ o.held = a
      /\ o.timer = field[f].timer /\ o.armed = field[f].armed /\ o.touched = view
      /\ o.overtaken = (Timed(field[f]) # {})
      /\ FieldTyped(o)
  BY <1>1, <1>2 DEF FieldTyped
<1>4. Change(f, o) BY DEF Pick
<1> HIDE DEF o
<1>5. o.text[view] = a BY <1>1, <1>3 DEF FieldTyped
<1>6. Timed(o) = Timed(field[f]) BY <1>3 DEF Timed
<1>7. HeldOrTimed(o) BY <1>3, <1>5, <1>6 DEF HeldOrTimed
<1> QED
  BY <1>3, <1>4, <1>7, FieldChanges

(* handleSubmit returns early while a call of this form is on its way *)
LEMMA SubmitKeeps ==
  ASSUME OrderInv, Submit
  PROVE  OrderInv'
<1>1. IsPost(Post) /\ Post.mine
  BY DEF Post, IsPost
<1>2. \A c \in posts : ~c.mine
  BY DEF Submit, IsSubmitting
<1>3. OneMine' /\ PlacedByMine'
  BY <1>1, <1>2 DEF Submit, OneMine, PlacedByMine, OrderInv, CallsInv
<1> QED
  BY <1>1, <1>3 DEF Submit, OrderInv, FieldsInv, CallsInv, StoryTyped

(* another state of a call leaves the rest of it as it was *)
LEMMA Moved ==
  ASSUME OrderInv, NEW c \in posts, NEW at, Move(c, at)
  PROVE  /\ \A d \in posts' : IsPost(d)
         /\ OneMine'
         /\ \E e \in posts' : e.mine = c.mine /\ e.at = at
         /\ \A d \in posts : d # c => d \in posts'
<1> DEFINE n == [c EXCEPT !.at = at]
<1>1. IsPost(n) /\ n.at = at /\ n.mine = c.mine
  BY DEF OrderInv, CallsInv, IsPost
<1>2. posts' = (posts \ {c}) \cup {n}
  BY DEF Move
<1> HIDE DEF n
<1> QED
  BY <1>1, <1>2 DEF OrderInv, CallsInv, OneMine

LEMMA CallsKeep ==
  ASSUME OrderInv, NEW c \in posts,
         CreateServed(c) \/ CreateAnswered(c) \/ CreateFails(c)
  PROVE  OrderInv'
<1>1. CASE CreateServed(c)
  <2>1. PlacedByMine' /\ StoryTyped'
    BY <1>1, Moved DEF CreateServed, OrderInv, CallsInv, StoryTyped, PlacedByMine, OneMine
  <2> QED
    BY <1>1, <2>1, Moved DEF CreateServed, OrderInv, FieldsInv, CallsInv
<1>2. CASE CreateAnswered(c)
  <2>1. PlacedByMine' /\ StoryTyped'
    BY <1>2, Moved DEF CreateAnswered, OrderInv, CallsInv, StoryTyped, PlacedByMine, OneMine
  <2> QED
    BY <1>2, <2>1, Moved DEF CreateAnswered, OrderInv, FieldsInv, CallsInv
<1>3. CASE CreateFails(c)
  <2>1. StoryTyped'
    BY <1>3 DEF CreateFails, OrderInv, CallsInv, StoryTyped
  <2>2. OneMine'
    BY <1>3 DEF CreateFails, OrderInv, CallsInv, OneMine
  <2>3. PlacedByMine'
    BY <1>3 DEF CreateFails, OrderInv, CallsInv, StoryTyped, PlacedByMine, OneMine
  <2>4. \A d \in posts' : IsPost(d) /\ d \in posts
    BY <1>3 DEF CreateFails, OrderInv, CallsInv
  <2> QED
    BY <1>3, <2>1, <2>2, <2>3, <2>4 DEF CreateFails, OrderInv, FieldsInv, CallsInv
<1> QED
  BY <1>1, <1>2, <1>3

(* A form that leaves the screen disowns its calls.                                 *)
LEMMA Disown ==
  ASSUME OrderInv, NEW C \in SUBSET posts, UNCHANGED view,
         field' = [f \in Fields |-> EmptyField], story' = NoStory,
         posts' = {[d EXCEPT !.mine = FALSE] : d \in C}
  PROVE  OrderInv'
<1>1. ASSUME NEW d \in C
      PROVE  LET c == [d EXCEPT !.mine = FALSE] IN IsPost(c) /\ ~c.mine
  BY DEF OrderInv, CallsInv, IsPost
<1>2. FieldsInv'
  <2>1. view' \in Views BY DEF OrderInv, FieldsInv
  <2> QED
    BY <2>1, FormsAssumption
    DEF FieldsInv, FieldTyped, HeldOrTimed, Timed, EmptyField, Texts, Views
<1>3. \A c \in posts' : IsPost(c) /\ ~c.mine
  BY <1>1
<1>4. StoryTyped' /\ PlacedByMine'
  BY DEF StoryTyped, NoStory, PlacedByMine
<1> QED
  BY <1>2, <1>3, <1>4 DEF OrderInv, CallsInv, OneMine

LEMMA OrderInvStep ==
  ASSUME OrderInv, [FormsNext]_formVars
  PROVE  OrderInv'
<1>1. CASE UNCHANGED <<field, posts, story>> /\ view' \in Views
  BY <1>1 DEF OrderInv, FieldsInv, CallsInv, IsPost, StoryTyped, OneMine, PlacedByMine
<1>2. CASE Leave
  BY <1>2, Disown DEF Leave
<1>3. ASSUME NEW c \in posts, GoToOrder(c) PROVE OrderInv'
  BY <1>3, Disown DEF GoToOrder
<1>4. view \in Views
  BY DEF OrderInv, FieldsInv
<1>5. \/ UNCHANGED <<field, posts, story>> /\ (view' = view \/ Rotate)
      \/ Leave \/ Submit
      \/ \E f \in Fields : \/ \E a \in Texts : Type(f, a)
                           \/ \E v \in Views : TimerFires(f, v)
                           \/ \E a \in Addresses : Pick(f, a)
      \/ \E c \in posts : \/ CreateServed(c) \/ CreateAnswered(c) \/ CreateFails(c)
                          \/ GoToOrder(c)
  BY DEF FormsNext, Open, FillIn, HandleImageSelect, HandleRemoveImage, SignIn, EditAccount,
     HandleSave, SaveServed, Serve, SaveAnswered, SaveFails, Rotate, orderVars, formVars
<1>6. Rotate => view' \in Views
  BY DEF Rotate
<1> QED
  BY <1>1, <1>2, <1>3, <1>4, <1>5, <1>6, TypeKeeps, TimerKeeps, PickKeeps, SubmitKeeps, CallsKeep

LEMMA OrderInvHolds == FormsSpec => []OrderInv
  BY OrderInvInit, OrderInvStep, PTL DEF FormsSpec

(* OrderAsShown: AddressAutocomplete and handleSubmit send the addresses shown by    *)
(* the copy of the form they were entered in, once the debounce has passed.         *)
THEOREM SentAsShown == FormsSpec => []OrderAsShown
<1>1. OrderInv => OrderAsShown
  BY DEF OrderInv, FieldsInv, HeldOrTimed, OrderAsShown, Settled, Payload, OnScreen
<1> QED
  BY <1>1, OrderInvHolds, PTL

(* NoSecondOrder: one filled-in form makes one order, unless an answer is lost.     *)
THEOREM OneOrder == FormsSpec => []NoSecondOrder
<1>1. OrderInv => NoSecondOrder
  BY DEF OrderInv, CallsInv, StoryTyped, PlacedByMine, NoSecondOrder
<1> QED
  BY <1>1, OrderInvHolds, PTL

-----------------------------------------------------------------------------------
(* The bank account: the save served last knows what is stored, and so does the      *)
(* store of the page when the answer to that save was the last.                     *)
IsSave(s) == DOMAIN s = {"id", "mine", "done", "latest", "row"}

AccountInv ==
  /\ \A s \in saves : IsSave(s) /\ (s.latest = TRUE => s.row = stored)
  /\ heard => user = stored

LEMMA ServedKeeps ==
  ASSUME AccountInv, NEW s \in saves, SaveServed(s)
  PROVE  AccountInv'
<1>1. ASSUME NEW t \in saves
      PROVE  LET n == [t EXCEPT !.latest = FALSE] IN IsSave(n) /\ n.latest = FALSE
  <2>1. IsSave(t) BY DEF AccountInv
  <2> QED
    BY <2>1 DEF IsSave
<1> DEFINE n == [s EXCEPT !.done = TRUE, !.latest = TRUE, !.row = UpdateProfile(s.row)]
<1>2. IsSave(n) /\ n.row = stored'
  <2>1. IsSave(s) BY DEF AccountInv
  <2> QED
    BY <2>1 DEF IsSave, SaveServed, Serve
<1>3. saves' = {[t EXCEPT !.latest = FALSE] : t \in saves \ {s}} \cup {n} /\ heard' = FALSE
  BY DEF SaveServed, Serve
<1> HIDE DEF n
<1> QED
  BY <1>1, <1>2, <1>3 DEF AccountInv

(* a form that leaves the screen disowns its calls *)
LEMMA DisownSaves ==
  ASSUME AccountInv, UNCHANGED <<stored, user, heard>>,
         saves' = {[s EXCEPT !.mine = FALSE] : s \in saves}
  PROVE  AccountInv'
<1>1. ASSUME NEW s \in saves
      PROVE  LET n == [s EXCEPT !.mine = FALSE]
             IN  IsSave(n) /\ n.row = s.row /\ n.latest = s.latest
  <2>1. IsSave(s) BY DEF AccountInv
  <2> QED
    BY <2>1 DEF IsSave
<1> QED
  BY <1>1 DEF AccountInv

LEMMA AccountInvStep ==
  ASSUME AccountInv, [FormsNext]_formVars
  PROVE  AccountInv'
<1>1. CASE UNCHANGED <<stored, user, saves, heard>>
  BY <1>1 DEF AccountInv, IsSave
<1>2. CASE Leave
  BY <1>2, DisownSaves DEF Leave
<1>3. CASE SignIn
  BY <1>3 DEF SignIn, AccountInv, IsSave
<1>4. CASE HandleSave
  <2> DEFINE n == [id |-> Fresh(saves, MaxSaves), mine |-> TRUE, done |-> FALSE,
                   latest |-> FALSE, row |-> form]
  <2>1. IsSave(n) /\ n.latest = FALSE
    BY DEF IsSave
  <2>2. saves' = saves \cup {n} /\ UNCHANGED <<stored, user, heard>>
    BY <1>4 DEF HandleSave
  <2> HIDE DEF n
  <2> QED
    BY <2>1, <2>2 DEF AccountInv, IsSave
<1>5. ASSUME NEW s \in saves, SaveAnswered(s)
      PROVE  AccountInv'
  BY <1>5 DEF SaveAnswered, AccountInv, IsSave
<1>6. ASSUME NEW s \in saves, SaveFails(s)
      PROVE  AccountInv'
  BY <1>6 DEF SaveFails, AccountInv, IsSave
<1>7. \/ UNCHANGED <<stored, user, saves, heard>>
      \/ Leave \/ SignIn \/ HandleSave
      \/ \E s \in saves : SaveServed(s) \/ SaveAnswered(s) \/ SaveFails(s)
  BY DEF FormsNext, Open, Type, TimerFires, Pick, Change, Rotate, FillIn, HandleImageSelect,
     HandleRemoveImage, Submit, CreateServed, CreateAnswered, GoToOrder, CreateFails,
     EditAccount, profileVars, formVars
<1> QED
  BY <1>1, <1>2, <1>3, <1>4, <1>5, <1>6, <1>7, ServedKeeps

(* AccountAsShown: setUser(updated) of the settings shows what updateProfile of      *)
(* users.service.ts has stored, when the last answer is that of the last save.      *)
THEOREM AccountShown == FormsSpec => []AccountAsShown
<1>1. FormsInit => AccountInv
  BY DEF FormsInit, AccountInv
<1>2. AccountInv => AccountAsShown
  BY DEF AccountInv, AccountAsShown
<1> QED
  BY <1>1, <1>2, AccountInvStep, PTL DEF FormsSpec
==================================================================================
