------------------------------ MODULE Telegram ------------------------------
(***************************************************************************)
(* telegram: messages with buttons, and the callbacks behind them. Senders *)
(* build messages and send them, people press their buttons, and Telegram  *)
(* calls the webhook for every press, as often and as late as it likes,    *)
(* each call in a goroutine of its own. A callback runs under the lock of  *)
(* the bot. Messages stay in the chat when the program restarts; message   *)
(* numbers and callbacks do not.                                           *)
(***************************************************************************)
EXTENDS Naturals, Sequences

CONSTANTS
    Messages,    \* that are created, each by a sender of its own
    MaxButtons,  \* bound: buttons of a message
    MaxId,       \* bound: numbers given to messages in one life
    Requests,    \* calls of the webhook
    MaxLives     \* bound: starts of the program

ASSUME TelegramConstantsOK ==
    MaxButtons \in Nat /\ MaxId \in Nat /\ MaxLives \in Nat \ {0}

Free == "free"
Ids == 1 .. MaxId

\* A button of a message, and a user's function for it, which may be nil.
Buttons == Messages \X (1 .. MaxButtons)
Fns == [of : Messages, button : 1 .. MaxButtons, nil : BOOLEAN]

VARIABLES
    life,       \* starts of the program so far
    listening,  \* does the webhook's server take requests?
    run,        \* Run: "off", "on" or "left"
    msgID,      \* the counter of the bot
    callbacks,  \* the functions for the buttons of each message number
    lock,       \* the request that holds the bot's lock, or Free
    born,       \* the life in which a message was created, 0 before
    id,         \* its number
    buttons,    \* how many buttons it has
    chat,       \* the messages that the chat shows
    req,        \* where a request stands
    press,      \* the button it is about
    fn,         \* the function it runs or has run, in a sequence that is empty before
    taken       \* how often the callbacks of a message have been taken

bot == <<msgID, callbacks>>
message == <<born, id, buttons, chat>>
request == <<req, press, fn>>
server == <<life, listening, run>>
vars == <<server, bot, lock, message, request, taken>>

Handled == {"ignored", "answered", "panicked", "dead"}

TypeOK ==
    /\ life \in 1 .. MaxLives
    /\ listening \in BOOLEAN
    /\ run \in {"off", "on", "left"}
    /\ msgID \in 0 .. MaxId
    /\ callbacks \in [Ids -> Seq(Fns)]
    /\ lock \in Requests \cup {Free}
    /\ born \in [Messages -> 0 .. MaxLives]
    /\ id \in [Messages -> 0 .. MaxId]
    /\ buttons \in [Messages -> 0 .. MaxButtons]
    /\ chat \in SUBSET Messages
    /\ req \in [Requests -> {"none", "called", "fn", "append", "answer"} \cup Handled]
    /\ press \in [Requests -> Buttons \cup {<<>>}]
    /\ fn \in [Requests -> Seq(Fns)]
    /\ taken \in [Messages -> Nat]

Init ==
    /\ life = 1
    /\ listening = FALSE
    /\ run = "off"
    /\ msgID = 0
    /\ callbacks = [i \in Ids |-> <<>>]
    /\ lock = Free
    /\ born = [m \in Messages |-> 0]
    /\ id = [m \in Messages |-> 0]
    /\ buttons = [m \in Messages |-> 0]
    /\ chat = {}
    /\ req = [r \in Requests |-> "none"]
    /\ press = [r \in Requests |-> <<>>]
    /\ fn = [r \in Requests |-> <<>>]
    /\ taken = [m \in Messages |-> 0]

(***************************************************************************)
(* Run. When the port cannot be had the error is dropped; when the context *)
(* is cancelled Run returns and leaves the server to itself.               *)
(***************************************************************************)
Run ==
    /\ run = "off"
    /\ \/ run' = "on" /\ listening' = TRUE
       \/ run' = "left" /\ UNCHANGED listening
    /\ UNCHANGED <<life, bot, lock, message, request, taken>>

Cancel ==
    /\ run = "on"
    /\ run' = "left"
    /\ UNCHANGED <<life, listening, bot, lock, message, request, taken>>

(***************************************************************************)
(* Senders.                                                                *)
(***************************************************************************)
\* Mutant: the number is read and not counted up.
createMessageSameId(m) ==
    /\ born[m] = 0 /\ msgID < MaxId
    /\ id' = [id EXCEPT ![m] = msgID + 1]
    /\ born' = [born EXCEPT ![m] = life]
    /\ UNCHANGED <<server, bot, lock, buttons, chat, request, taken>>

createMessage(m) ==
    /\ born[m] = 0 /\ msgID < MaxId
    /\ msgID' = msgID + 1
    /\ id' = [id EXCEPT ![m] = msgID']
    /\ born' = [born EXCEPT ![m] = life]
    /\ UNCHANGED <<server, callbacks, lock, buttons, chat, request, taken>>

\* An assumption on senders, which nothing in the code enforces: a message is
\* built before it is sent. A WithButton after a Send whose callbacks have been
\* taken would register under the same number again, with shifted indices.
Building(m) == born[m] = life /\ m \notin chat

AddCallback(i, f) ==
    /\ lock = Free
    /\ callbacks' = [callbacks EXCEPT ![i] = Append(@, f)]

WithButton(m) ==
    /\ Building(m) /\ buttons[m] < MaxButtons
    /\ buttons' = [buttons EXCEPT ![m] = @ + 1]
    /\ \E nil \in BOOLEAN :
          AddCallback(id[m], [of |-> m, button |-> buttons[m] + 1, nil |-> nil])
    /\ UNCHANGED <<server, msgID, lock, born, id, chat, request, taken>>

\* A message may be shown although the request failed, and a second Send shows
\* the same buttons once more. One that is not shown is not heard of again.
Send(m) ==
    /\ Building(m)
    /\ chat' = chat \cup {m}
    /\ UNCHANGED <<server, bot, lock, born, id, buttons, request, taken>>

(***************************************************************************)
(* WebhookHandler.                                                         *)
(***************************************************************************)
Goto(r, where) == req' = [req EXCEPT ![r] = where]

\* Not JSON, not a press, or a press with data that the bot has not written.
CallIgnored(r) ==
    /\ req[r] = "none" /\ listening
    /\ Goto(r, "ignored")
    /\ UNCHANGED <<server, bot, lock, message, press, fn, taken>>

\* Somebody has pressed a button of a message in the chat, now or long ago.
Called(r) ==
    /\ req[r] = "none" /\ listening
    /\ \E m \in chat : \E k \in 1 .. buttons[m] : press' = [press EXCEPT ![r] = <<m, k>>]
    /\ Goto(r, "called")
    /\ UNCHANGED <<server, bot, lock, message, fn, taken>>

\* The functions for the message number in the button's data.
Found(r) == callbacks[id[press[r][1]]]

\* Mutant: the early return keeps the lock.
callbackKeepsLock(r) ==
    /\ req[r] = "called" /\ lock = Free
    /\ Found(r) = <<>>
    /\ lock' = r
    /\ Goto(r, "answer")
    /\ UNCHANGED <<server, bot, message, press, fn, taken>>

callbackNotFound(r) ==
    /\ req[r] = "called" /\ lock = Free
    /\ Found(r) = <<>>
    /\ Goto(r, "answer")
    /\ UNCHANGED <<server, bot, lock, message, press, fn, taken>>

\* a[iButton] panics with fewer functions than buttons; the lock is released,
\* and net/http drops the connection.
callbackOutOfRange(r) ==
    /\ req[r] = "called" /\ lock = Free
    /\ Found(r) # <<>> /\ press[r][2] > Len(Found(r))
    /\ Goto(r, "panicked")
    /\ UNCHANGED <<server, bot, lock, message, press, fn, taken>>

\* Mutant: the callbacks are deleted when the function has returned.
Kept(i) == callbacks

Deleted(i) == [callbacks EXCEPT ![i] = <<>>]

\* One press takes the functions of all buttons. Without a function it is done.
callback(r) ==
    /\ req[r] = "called" /\ lock = Free
    /\ Found(r) # <<>> /\ press[r][2] <= Len(Found(r))
    /\ LET f == Found(r)[press[r][2]] IN
          /\ fn' = [fn EXCEPT ![r] = <<f>>]
          /\ taken' = [taken EXCEPT ![f.of] = @ + 1]
          /\ lock' = IF f.nil THEN Free ELSE r
          /\ Goto(r, IF f.nil THEN "append" ELSE "fn")
    /\ callbacks' = Deleted(id[press[r][1]])
    /\ UNCHANGED <<server, msgID, message, press>>

\* The user's function returns, with success or not, or panics.
FnReturns(r) ==
    /\ req[r] = "fn"
    /\ lock' = Free
    /\ \E next \in {"append", "answer", "panicked"} : Goto(r, next)
    /\ UNCHANGED <<server, bot, message, press, fn, taken>>

\* appendMessage, whether or not the request succeeds.
appendMessage(r) ==
    /\ req[r] = "append"
    /\ Goto(r, "answer")
    /\ UNCHANGED <<server, bot, lock, message, press, fn, taken>>

answerCallbackQuery(r) ==
    /\ req[r] = "answer"
    /\ Goto(r, "answered")
    /\ UNCHANGED <<server, bot, lock, message, press, fn, taken>>

\* The program ends and starts again; the chat stays as it is.
Restart ==
    /\ life < MaxLives
    /\ life' = life + 1
    /\ listening' = FALSE /\ run' = "off"
    /\ msgID' = 0
    /\ callbacks' = [i \in Ids |-> <<>>]
    /\ lock' = Free
    /\ req' = [r \in Requests |-> IF req[r] \in {"none"} \cup Handled THEN req[r] ELSE "dead"]
    /\ UNCHANGED <<message, press, fn, taken>>

-----------------------------------------------------------------------------
Callback(r) == callbackNotFound(r) \/ callbackOutOfRange(r) \/ callback(r)
Reply(r) == FnReturns(r) \/ appendMessage(r) \/ answerCallbackQuery(r)

Next ==
    \/ Run \/ Cancel \/ Restart
    \/ \E m \in Messages : createMessage(m) \/ WithButton(m) \/ Send(m)
    \/ \E r \in Requests : CallIgnored(r) \/ Called(r) \/ Callback(r) \/ Reply(r)

\* A mutex is fair. Two assumptions: user functions return, and the Bot API answers
\* or fails (the client of the bot has no timeout).
Spec ==
    /\ Init /\ [][Next]_vars
    /\ \A r \in Requests : SF_vars(Callback(r)) /\ WF_vars(Reply(r))

-----------------------------------------------------------------------------
\* A press on a message of an earlier life has taken the callbacks of this one,
\* because it has been given the same number.
MixedUp(m) ==
    \E r \in Requests : \E k \in DOMAIN fn[r] : fn[r][k].of = m /\ press[r][1] # m

\* However often, late or concurrently the buttons of a message are pressed, one
\* press at most takes its callbacks: no function runs twice, and no two buttons
\* of a message take effect, unless its number is mixed up with an old one. It
\* takes senders that add no button once they have sent the message.
TakenOnce == \A m \in Messages : taken[m] <= 1 \/ MixedUp(m)

\* A press gets the function that its own button was given, whatever other
\* senders and other presses do, and its index is in range, again unless numbers
\* are mixed up, and for senders that build before they send.
OwnFunction ==
    \A r \in Requests :
        LET m == press[r][1] IN
        req[r] \in {"called", "fn", "append"} /\ born[m] = life /\ ~MixedUp(m) =>
            IF req[r] = "called"
            THEN Found(r) = <<>> \/ press[r][2] <= Len(Found(r))
            ELSE fn[r][1].of = m /\ fn[r][1].button = press[r][2]

\* A press that has reached the bot comes to an answer or an end, though others
\* hold the lock for as long as their function runs.
PressesEnd == \A r \in Requests : req[r] = "called" ~> req[r] \in Handled
=============================================================================
