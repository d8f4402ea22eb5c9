--------------------------- MODULE TelegramProofs ---------------------------
(***************************************************************************)
(* Telegram: for any number of messages, buttons, presses and restarts,    *)
(* one press takes the callbacks of a message and gets the function of its *)
(* own button, unless the number of the message is mixed up with that of a *)
(* message from before a restart.                                          *)
(***************************************************************************)
EXTENDS Telegram, SequenceTheorems, TLAPS

Current(m) == born[m] = life

\* Who has a number, and which: no two messages of one life have the same.
NumberInv ==
    /\ \A m \in Messages : born[m] <= life
    /\ \A m \in Messages : born[m] = 0 => m \notin chat /\ taken[m] = 0 /\ buttons[m] = 0
    /\ \A m \in Messages : born[m] # 0 => id[m] \in Ids
    /\ \A m \in Messages : Current(m) => id[m] <= msgID
    /\ \A m, n \in Messages : Current(m) /\ Current(n) /\ id[m] = id[n] => m = n

\* Under a number there are the functions of the message that has it.
OwnerInv ==
    \A i \in Ids : \A k \in 1 .. Len(callbacks[i]) :
        Current(callbacks[i][k].of) /\ id[callbacks[i][k].of] = i

\* Nothing that is about message m is taken or out of order.
InOrder(m) ==
    LET a == callbacks[id[m]] IN
    /\ taken[m] = 0 /\ Len(a) = buttons[m]
    /\ \A k \in 1 .. Len(a) : a[k].of = m /\ a[k].button = k

\* It is all there until the first press takes all of it.
CallbackInv ==
    \A m \in Messages : Current(m) /\ ~MixedUp(m) =>
        IF m \in chat THEN callbacks[id[m]] = <<>> \/ InOrder(m) ELSE InOrder(m)

\* What a request holds, and where it has got it from.
RequestInv ==
    \A r \in Requests :
        /\ req[r] \in {"none", "called"} => fn[r] = <<>>
        /\ req[r] \in {"called", "fn", "append"} =>
              /\ press[r] \in Buttons /\ press[r][1] \in chat
              /\ press[r][2] <= buttons[press[r][1]]
        /\ req[r] \in {"fn", "append"} => Len(fn[r]) = 1

ButtonInv ==
    /\ TypeOK /\ NumberInv /\ OwnerInv /\ CallbackInv /\ RequestInv
    /\ TakenOnce /\ OwnFunction

LEMMA TypeStep == ButtonInv /\ [Next]_vars => TypeOK'
<1> SUFFICES ASSUME ButtonInv, [Next]_vars PROVE TypeOK'
  OBVIOUS
<1> USE TelegramConstantsOK DEF TypeOK, ButtonInv, Handled, Goto
<1>1. CASE Run \/ Cancel
  BY <1>1 DEF Run, Cancel, bot, message, request
<1>2. CASE Restart
  <2>1. callbacks' \in [Ids -> Seq(Fns)] /\ req' \in [Requests -> {"none", "dead"} \cup Handled]
    <3>1. <<>> \in Seq(Fns)
      OBVIOUS
    <3> QED BY <1>2, <3>1 DEF Restart
  <2>2. life' \in 1 .. MaxLives /\ msgID' \in 0 .. MaxId
    BY <1>2 DEF Restart
  <2> QED BY <1>2, <2>1, <2>2 DEF Restart, message
<1>3. ASSUME NEW m \in Messages, createMessage(m) PROVE TypeOK'
  BY <1>3 DEF createMessage, server, request
<1>4. ASSUME NEW m \in Messages, WithButton(m) PROVE TypeOK'
  <2>1. PICK nil \in BOOLEAN :
          callbacks' = [callbacks EXCEPT ![id[m]] =
                           Append(@, [of |-> m, button |-> buttons[m] + 1, nil |-> nil])]
    BY <1>4 DEF WithButton, AddCallback
  <2>2. buttons' \in [Messages -> 0 .. MaxButtons] /\ buttons[m] + 1 \in 1 .. MaxButtons
    BY <1>4 DEF WithButton
  <2>3. [of |-> m, button |-> buttons[m] + 1, nil |-> nil] \in Fns
    BY <2>2 DEF Fns
  <2>4. callbacks' \in [Ids -> Seq(Fns)]
    <3> DEFINE x == [of |-> m, button |-> buttons[m] + 1, nil |-> nil]
    <3>1. \A i \in Ids : callbacks[i] \in Seq(Fns) /\ Append(callbacks[i], x) \in Seq(Fns)
      <4> SUFFICES ASSUME NEW i \in Ids
                   PROVE  callbacks[i] \in Seq(Fns) /\ Append(callbacks[i], x) \in Seq(Fns)
        OBVIOUS
      <4>1. callbacks[i] \in Seq(Fns)
        OBVIOUS
      <4> HIDE DEF x
      <4> QED BY <2>3, <4>1, AppendProperties DEF x
    <3> HIDE DEF x
    <3>2. callbacks' = [callbacks EXCEPT ![id[m]] = Append(callbacks[id[m]], x)]
      BY <2>1 DEF x
    <3> QED BY <3>1, <3>2
  <2> QED BY <1>4, <2>2, <2>4 DEF WithButton, AddCallback, server, request
<1>5. ASSUME NEW m \in Messages, Send(m) PROVE TypeOK'
  BY <1>5 DEF Send, server, request, bot
<1>6. ASSUME NEW r \in Requests, CallIgnored(r) PROVE TypeOK'
  BY <1>6 DEF CallIgnored, server, bot, message
<1>7. ASSUME NEW r \in Requests, Called(r) PROVE TypeOK'
  <2>1. PICK m \in chat : \E k \in 1 .. buttons[m] : press' = [press EXCEPT ![r] = <<m, k>>]
    BY <1>7 DEF Called
  <2>2. PICK k \in 1 .. buttons[m] : press' = [press EXCEPT ![r] = <<m, k>>]
    BY <2>1
  <2>3. <<m, k>> \in Buttons
    BY <2>2 DEF Buttons
  <2> QED BY <1>7, <2>2, <2>3 DEF Called, server, bot, message
<1>8. ASSUME NEW r \in Requests, callbackNotFound(r) \/ callbackOutOfRange(r) PROVE TypeOK'
  BY <1>8 DEF callbackNotFound, callbackOutOfRange, server, bot, message
<1>9. ASSUME NEW r \in Requests, callback(r) PROVE TypeOK'
  <2> DEFINE f == Found(r)[press[r][2]]
  <2>1. id[press[r][1]] \in Ids /\ press[r][2] \in 1 .. MaxButtons
    BY <1>9 DEF callback, RequestInv, NumberInv, Buttons
  <2>2. f \in Fns
    <3>1. Found(r) \in Seq(Fns)
      BY <2>1 DEF Found
    <3>2. press[r][2] <= Len(Found(r))
      BY <1>9 DEF callback
    <3> HIDE DEF TypeOK, ButtonInv
    <3>3. press[r][2] \in 1 .. Len(Found(r))
      BY <2>1, <3>1, <3>2
    <3> QED BY <3>1, <3>3
  <2>3. f.of \in Messages /\ <<f>> \in Seq(Fns)
    BY <2>2 DEF Fns
  <2> HIDE DEF f
  <2>4. /\ fn' = [fn EXCEPT ![r] = <<f>>]
        /\ taken' = [taken EXCEPT ![f.of] = @ + 1]
        /\ lock' = IF f.nil THEN Free ELSE r
        /\ req' = [req EXCEPT ![r] = IF f.nil THEN "append" ELSE "fn"]
        /\ callbacks' = [callbacks EXCEPT ![id[press[r][1]]] = <<>>]
        /\ UNCHANGED <<life, listening, run, msgID, born, id, buttons, chat, press>>
    BY <1>9 DEF callback, Deleted, server, message, f
  <2>5. fn' \in [Requests -> Seq(Fns)] /\ taken' \in [Messages -> Nat]
    <3>1. fn \in [Requests -> Seq(Fns)] /\ taken \in [Messages -> Nat]
      OBVIOUS
    <3> HIDE DEF TypeOK, ButtonInv
    <3>2. fn' \in [Requests -> Seq(Fns)]
      BY <2>3, <2>4, <3>1
    <3>3. taken' \in [Messages -> Nat]
      BY <2>3, <2>4, <3>1
    <3> QED BY <3>2, <3>3
  <2>6. <<>> \in Seq(Fns)
    OBVIOUS
  <2>7. callbacks' \in [Ids -> Seq(Fns)]
    BY <2>4, <2>6
  <2>8. lock' \in Requests \cup {Free}
    BY <2>4
  <2>9. req' \in [Requests -> {"none", "called", "fn", "append", "answer"} \cup Handled]
    BY <2>4
  <2> QED BY <2>4, <2>5, <2>7, <2>8, <2>9
<1>10. ASSUME NEW r \in Requests, Reply(r) PROVE TypeOK'
  BY <1>10 DEF Reply, FnReturns, appendMessage, answerCallbackQuery, server, bot, message
<1>11. CASE UNCHANGED vars
  BY <1>11 DEF vars, server, bot, message, request
<1> QED BY <1>1, <1>2, <1>3, <1>4, <1>5, <1>6, <1>7, <1>8, <1>9, <1>10, <1>11
        DEF Next, Callback

\* Steps that only take requests on.
GoOn ==
    /\ UNCHANGED <<life, msgID, callbacks, born, id, buttons, chat, press, fn, taken>>
    /\ \A r \in Requests : \/ req'[r] = req[r]
                           \/ req'[r] \notin {"none", "called", "fn", "append"}
                           \/ req[r] = "fn" /\ req'[r] = "append"

LEMMA RequestsGoOn == ASSUME ButtonInv, TypeOK', GoOn PROVE ButtonInv'
<1> USE DEF GoOn
<1>1. NumberInv' /\ OwnerInv'
  BY DEF ButtonInv, NumberInv, OwnerInv, Current
<1>2. \A m \in Messages : MixedUp(m)' = MixedUp(m)
  BY DEF MixedUp
<1>3. CallbackInv' /\ TakenOnce'
  BY <1>2 DEF ButtonInv, CallbackInv, TakenOnce, InOrder, Current
<1>4. RequestInv'
  BY DEF ButtonInv, RequestInv
<1>5. OwnFunction'
  <2> SUFFICES ASSUME NEW r \in Requests,
                      req'[r] \in {"called", "fn", "append"}, born[press[r][1]] = life,
                      ~MixedUp(press[r][1])
               PROVE  IF req'[r] = "called"
                      THEN Found(r) = <<>> \/ press[r][2] <= Len(Found(r))
                      ELSE fn[r][1].of = press[r][1] /\ fn[r][1].button = press[r][2]
    BY DEF OwnFunction, Found, MixedUp
  <2> QED BY DEF ButtonInv, OwnFunction
<1> QED BY <1>1, <1>3, <1>4, <1>5 DEF ButtonInv

\* Steps that add to callbacks or messages and leave requests alone: the last
\* two invariants follow from the others.
LEMMA MessagesGoOn ==
    ASSUME ButtonInv, TypeOK', NumberInv', OwnerInv', CallbackInv',
           UNCHANGED <<life, req, press, fn, taken>>,
           chat \subseteq chat',
           \A m \in chat : buttons'[m] = buttons[m] /\ born'[m] = born[m]
    PROVE  ButtonInv'
<1>1. \A m \in Messages : MixedUp(m)' = MixedUp(m)
  BY DEF MixedUp
<1>2. TakenOnce'
  BY <1>1 DEF ButtonInv, TakenOnce
<1>3. RequestInv'
  BY DEF ButtonInv, RequestInv
<1>4. OwnFunction'
  <2> SUFFICES ASSUME NEW r \in Requests,
                      req[r] \in {"called", "fn", "append"}, born'[press[r][1]] = life,
                      ~MixedUp(press[r][1])'
               PROVE  IF req[r] = "called"
                      THEN Found(r)' = <<>> \/ press[r][2] <= Len(Found(r)')
                      ELSE fn[r][1].of = press[r][1] /\ fn[r][1].button = press[r][2]
    BY DEF OwnFunction, Found, MixedUp
  <2>1. /\ press[r][1] \in chat /\ press[r][1] \in Messages /\ press[r] \in Buttons
        /\ press[r][2] <= buttons[press[r][1]]
    BY DEF ButtonInv, RequestInv, Buttons
  <2>2. CASE req[r] = "called"
    <3>1. Found(r)' = <<>> \/ Len(Found(r)') = buttons'[press[r][1]]
      BY <2>1 DEF CallbackInv, InOrder, Current, Found
    <3> QED BY <2>1, <2>2, <3>1
  <2>3. CASE req[r] # "called"
    BY <1>1, <2>1, <2>3 DEF ButtonInv, OwnFunction
  <2> QED BY <2>2, <2>3
<1> QED BY <1>2, <1>3, <1>4 DEF ButtonInv

LEMMA CreateStep ==
    ASSUME ButtonInv, TypeOK', NEW m \in Messages, createMessage(m)
    PROVE  ButtonInv'
<1> USE TelegramConstantsOK
<1>1. /\ born[m] = 0 /\ msgID < MaxId
      /\ msgID' = msgID + 1
      /\ id' = [id EXCEPT ![m] = msgID + 1]
      /\ born' = [born EXCEPT ![m] = life]
      /\ UNCHANGED <<life, callbacks, buttons, chat, req, press, fn, taken>>
  BY DEF createMessage, server, request
<1>2. /\ life \in Nat /\ life # 0 /\ msgID \in Nat
      /\ id \in [Messages -> Nat] /\ born \in [Messages -> Nat]
  <2>1. /\ life \in 1 .. MaxLives /\ msgID \in 0 .. MaxId
        /\ id \in [Messages -> 0 .. MaxId] /\ born \in [Messages -> 0 .. MaxLives]
    BY DEF ButtonInv, TypeOK
  <2> QED BY <2>1
<1>3. NumberInv'
  BY <1>1, <1>2 DEF ButtonInv, NumberInv, Current, Ids
<1>4. m \notin chat /\ taken[m] = 0 /\ buttons[m] = 0
  BY <1>1 DEF ButtonInv, NumberInv
<1>5. \A i \in Ids : \A k \in 1 .. Len(callbacks[i]) :
         callbacks[i][k].of # m /\ callbacks[i][k].of \in Messages
  <2>1. \A i \in Ids : callbacks[i] \in Seq(Fns)
    BY DEF ButtonInv, TypeOK
  <2>2. \A i \in Ids : \A k \in 1 .. Len(callbacks[i]) : callbacks[i][k] \in Fns
    BY <2>1
  <2> QED BY <1>1, <1>2, <2>2 DEF ButtonInv, OwnerInv, Current, Fns
<1>6. OwnerInv'
  BY <1>1, <1>2, <1>5 DEF ButtonInv, OwnerInv, Current
<1>7. Len(callbacks[msgID + 1]) = 0
  <2>1. msgID + 1 \in Ids /\ callbacks[msgID + 1] \in Seq(Fns)
    BY <1>1, <1>2 DEF ButtonInv, TypeOK, Ids
  <2>2. ASSUME Len(callbacks[msgID + 1]) # 0 PROVE FALSE
    <3>1. 1 \in 1 .. Len(callbacks[msgID + 1])
      BY <2>1, <2>2
    <3> DEFINE n == callbacks[msgID + 1][1].of
    <3>2. n \in Messages /\ Current(n) /\ id[n] = msgID + 1
      BY <1>5, <2>1, <3>1 DEF ButtonInv, OwnerInv
    <3>3. id[n] <= msgID
      BY <3>2 DEF ButtonInv, NumberInv
    <3> QED BY <1>2, <3>2, <3>3
  <2> QED BY <2>2
<1>8. CallbackInv'
  <2>1. \A n \in Messages : MixedUp(n)' = MixedUp(n)
    BY <1>1 DEF MixedUp
  <2>2. InOrder(m)'
    BY <1>1, <1>2, <1>4, <1>7 DEF InOrder
  <2>3. ASSUME NEW n \in Messages \ {m} PROVE born'[n] = born[n] /\ id'[n] = id[n]
    BY <1>1, <1>2
  <2>4. \A n \in Messages \ {m} : InOrder(n)' = InOrder(n)
    BY <1>1, <2>3 DEF InOrder
  <2> QED BY <1>1, <1>4, <2>1, <2>2, <2>3, <2>4 DEF ButtonInv, CallbackInv, Current
<1> QED BY <1>1, <1>2, <1>3, <1>4, <1>6, <1>8, MessagesGoOn

LEMMA WithButtonStep ==
    ASSUME ButtonInv, TypeOK', NEW m \in Messages, WithButton(m)
    PROVE  ButtonInv'
<1> USE TelegramConstantsOK
<1>1. PICK nil \in BOOLEAN :
        callbacks' = [callbacks EXCEPT ![id[m]] =
                         Append(@, [of |-> m, button |-> buttons[m] + 1, nil |-> nil])]
  BY DEF WithButton, AddCallback
<1> DEFINE x == [of |-> m, button |-> buttons[m] + 1, nil |-> nil]
<1>2. /\ born[m] = life /\ m \notin chat
      /\ buttons' = [buttons EXCEPT ![m] = @ + 1]
      /\ UNCHANGED <<life, msgID, born, id, chat, req, press, fn, taken>>
  BY DEF WithButton, Building, server, request
<1>3. /\ life \in Nat /\ life # 0 /\ id[m] \in Ids
      /\ buttons \in [Messages -> Nat]
      /\ callbacks \in [Ids -> Seq(Fns)] /\ callbacks' \in [Ids -> Seq(Fns)]
  BY <1>2 DEF ButtonInv, TypeOK, NumberInv
<1>4. x.of = m /\ x.button = buttons[m] + 1
  BY <1>2, <1>3
<1> HIDE DEF x
<1>5. callbacks' = [callbacks EXCEPT ![id[m]] = Append(callbacks[id[m]], x)]
  BY <1>1 DEF x
<1>6. /\ Len(callbacks'[id[m]]) = Len(callbacks[id[m]]) + 1
      /\ callbacks'[id[m]][Len(callbacks[id[m]]) + 1] = x
      /\ \A k \in 1 .. Len(callbacks[id[m]]) : callbacks'[id[m]][k] = callbacks[id[m]][k]
      /\ Len(callbacks[id[m]]) \in Nat
  <2>1. callbacks'[id[m]] = Append(callbacks[id[m]], x) /\ callbacks[id[m]] \in Seq(Fns)
    BY <1>3, <1>5
  <2> QED BY <2>1
<1>7. \A i \in Ids \ {id[m]} : callbacks'[i] = callbacks[i]
  BY <1>3, <1>5
<1>8. NumberInv'
  BY <1>2, <1>3 DEF ButtonInv, NumberInv, Current
<1>9. OwnerInv'
  <2> SUFFICES ASSUME NEW i \in Ids, NEW k \in 1 .. Len(callbacks'[i])
               PROVE  LET n == callbacks'[i][k].of IN born[n] = life /\ id[n] = i
    BY <1>2 DEF OwnerInv, Current
  <2>1. CASE i # id[m]
    BY <1>7, <2>1 DEF ButtonInv, OwnerInv, Current
  <2>2. CASE i = id[m] /\ k \in 1 .. Len(callbacks[i])
    <3>1. callbacks'[i][k] = callbacks[i][k]
      BY <1>6, <2>2
    <3> QED BY <2>2, <3>1 DEF ButtonInv, OwnerInv, Current
  <2>3. CASE i = id[m] /\ k = Len(callbacks[i]) + 1
    BY <1>2, <1>4, <1>6, <2>3
  <2> QED BY <1>6, <2>1, <2>2, <2>3
<1>10. CallbackInv'
  <2>1. \A n \in Messages : MixedUp(n)' = MixedUp(n)
    BY <1>2 DEF MixedUp
  <2>2. ASSUME ~MixedUp(m) PROVE InOrder(m)'
    <3>1. InOrder(m)
      BY <1>2, <2>2 DEF ButtonInv, CallbackInv, Current
    <3>2. buttons'[m] = buttons[m] + 1
      BY <1>2, <1>3
    <3>3. taken'[m] = 0 /\ Len(callbacks'[id[m]]) = buttons'[m]
      BY <1>2, <1>6, <3>1, <3>2 DEF InOrder
    <3>4. ASSUME NEW k \in 1 .. Len(callbacks'[id[m]])
          PROVE  callbacks'[id[m]][k].of = m /\ callbacks'[id[m]][k].button = k
      <4>1. CASE k \in 1 .. Len(callbacks[id[m]])
        BY <1>6, <3>1, <4>1 DEF InOrder
      <4>2. CASE k = Len(callbacks[id[m]]) + 1
        BY <1>4, <1>6, <3>1, <4>2 DEF InOrder
      <4> QED BY <1>6, <4>1, <4>2
    <3> QED BY <1>2, <3>3, <3>4 DEF InOrder
  <2>3. ASSUME NEW n \in Messages \ {m}, born[n] = life
        PROVE  callbacks'[id[n]] = callbacks[id[n]] /\ buttons'[n] = buttons[n]
    <3>1. id[n] # id[m] /\ id[n] \in Ids
      BY <1>2, <1>3, <2>3 DEF ButtonInv, NumberInv, Current
    <3> QED BY <1>2, <1>3, <1>7, <3>1
  <2>4. \A n \in Messages \ {m} : born[n] = life => InOrder(n)' = InOrder(n)
    BY <1>2, <2>3 DEF InOrder
  <2> QED BY <1>2, <2>1, <2>2, <2>3, <2>4 DEF ButtonInv, CallbackInv, Current
<1> QED BY <1>2, <1>3, <1>8, <1>9, <1>10, MessagesGoOn

LEMMA SendStep ==
    ASSUME ButtonInv, TypeOK', NEW m \in Messages, Send(m)
    PROVE  ButtonInv'
<1>1. /\ born[m] = life /\ chat' = chat \cup {m}
      /\ UNCHANGED <<life, msgID, callbacks, born, id, buttons, req, press, fn, taken>>
  BY DEF Send, Building, server, bot, request
<1>2. life # 0
  BY DEF ButtonInv, TypeOK
<1>3. NumberInv' /\ OwnerInv'
  BY <1>1, <1>2 DEF ButtonInv, NumberInv, OwnerInv, Current
<1>4. CallbackInv'
  BY <1>1 DEF ButtonInv, CallbackInv, InOrder, Current, MixedUp
<1> QED BY <1>1, <1>3, <1>4, MessagesGoOn

LEMMA CalledStep ==
    ASSUME ButtonInv, TypeOK', NEW r \in Requests, Called(r)
    PROVE  ButtonInv'
<1>1. PICK m \in chat : \E k \in 1 .. buttons[m] : press' = [press EXCEPT ![r] = <<m, k>>]
  BY DEF Called
<1>2. PICK k \in 1 .. buttons[m] : press' = [press EXCEPT ![r] = <<m, k>>]
  BY <1>1
<1>3. /\ req[r] = "none" /\ req' = [req EXCEPT ![r] = "called"]
      /\ UNCHANGED <<life, msgID, callbacks, born, id, buttons, chat, fn, taken>>
  BY DEF Called, Goto, server, bot, message
<1>4. /\ m \in Messages /\ k \in Nat /\ k <= buttons[m] /\ <<m, k>> \in Buttons
      /\ press \in [Requests -> Buttons \cup {<<>>}]
      /\ buttons[m] \in 0 .. MaxButtons
      /\ DOMAIN req = Requests
  BY <1>2, TelegramConstantsOK DEF ButtonInv, TypeOK, Buttons
<1>5. fn[r] = <<>> /\ press'[r] = <<m, k>> /\ req'[r] = "called"
  BY <1>2, <1>3, <1>4 DEF ButtonInv, RequestInv
<1>6. ASSUME NEW q \in Requests \ {r} PROVE press'[q] = press[q] /\ req'[q] = req[q]
  BY <1>2, <1>3, <1>4
<1>7. \A n \in Messages : MixedUp(n)' = MixedUp(n)
  BY <1>3, <1>5, <1>6 DEF MixedUp
<1>8. NumberInv' /\ OwnerInv'
  BY <1>3 DEF ButtonInv, NumberInv, OwnerInv, Current
<1>9. CallbackInv' /\ TakenOnce'
  BY <1>3, <1>7 DEF ButtonInv, CallbackInv, TakenOnce, InOrder, Current
<1>10. RequestInv'
  <2> SUFFICES ASSUME NEW q \in Requests PROVE
        /\ req'[q] \in {"none", "called"} => fn[q] = <<>>
        /\ req'[q] \in {"called", "fn", "append"} =>
              /\ press'[q] \in Buttons /\ press'[q][1] \in chat
              /\ press'[q][2] <= buttons[press'[q][1]]
        /\ req'[q] \in {"fn", "append"} => Len(fn[q]) = 1
    BY <1>3 DEF RequestInv
  <2>1. CASE q = r
    BY <1>1, <1>4, <1>5, <2>1
  <2>2. CASE q # r
    BY <1>6, <2>2 DEF ButtonInv, RequestInv
  <2> QED BY <2>1, <2>2
<1>11. OwnFunction'
  <2> SUFFICES ASSUME NEW q \in Requests, NEW p \in Messages, p = press'[q][1],
                      req'[q] \in {"called", "fn", "append"}, born[p] = life, ~MixedUp(p)'
               PROVE  IF req'[q] = "called"
                      THEN Found(q)' = <<>> \/ press'[q][2] <= Len(Found(q)')
                      ELSE fn[q][1].of = p /\ fn[q][1].button = press'[q][2]
    <3>1. \A q \in Requests : req'[q] \in {"called", "fn", "append"} => press'[q][1] \in Messages
      BY <1>10 DEF RequestInv, Buttons
    <3> QED BY <1>3, <3>1 DEF OwnFunction, Found, MixedUp
  <2>1. CASE q = r
    <3>1. Found(q)' = callbacks[id[m]]
      BY <1>3, <1>5, <2>1 DEF Found
    <3>2. callbacks[id[m]] = <<>> \/ Len(callbacks[id[m]]) = buttons[m]
      BY <1>4, <1>5, <1>7, <2>1 DEF ButtonInv, CallbackInv, InOrder, Current
    <3> QED BY <1>4, <1>5, <2>1, <3>1, <3>2
  <2>2. CASE q # r
    <3>1. Found(q)' = Found(q) /\ press'[q] = press[q] /\ req'[q] = req[q]
      BY <1>3, <1>6, <2>2 DEF Found
    <3>2. press[q][1] \in Messages
      BY <3>1 DEF ButtonInv, RequestInv, Buttons
    <3> QED BY <1>7, <3>1, <3>2 DEF ButtonInv, OwnFunction
  <2> QED BY <2>1, <2>2
<1> QED BY <1>8, <1>9, <1>10, <1>11 DEF ButtonInv

\* A press takes the callbacks: those of its own message, or those of another one
\* that is mixed up from now on.
LEMMA CallbackStep ==
    ASSUME ButtonInv, TypeOK', NEW r \in Requests, callback(r)
    PROVE  ButtonInv'
<1>0. PICK p \in Messages, k \in 1 .. MaxButtons : p = press[r][1] /\ k = press[r][2]
  BY DEF callback, ButtonInv, RequestInv, Buttons
<1>1. p \in chat /\ id[p] \in Ids /\ fn[r] = <<>> /\ k <= buttons[p]
  BY <1>0 DEF callback, ButtonInv, RequestInv, NumberInv
<1>2. /\ callbacks[id[p]] \in Seq(Fns) /\ Found(r) = callbacks[id[p]]
      /\ k \in 1 .. Len(callbacks[id[p]])
  <2>1. callbacks[id[p]] \in Seq(Fns) /\ Found(r) = callbacks[id[p]]
    BY <1>0, <1>1 DEF ButtonInv, TypeOK, Found
  <2>2. press[r][2] <= Len(Found(r))
    BY DEF callback
  <2>3. Len(callbacks[id[p]]) \in Nat
    BY <2>1
  <2> QED BY <1>0, <2>1, <2>2, <2>3, TelegramConstantsOK
<1>f. PICK f \in Fns : f = callbacks[id[p]][k]
  BY <1>2
<1>3. f.of \in Messages /\ Current(f.of) /\ id[f.of] = id[p]
  BY <1>1, <1>2, <1>f DEF Fns, ButtonInv, OwnerInv
<1>l. life # 0
  BY DEF ButtonInv, TypeOK
<1>4. Current(p) => f.of = p
  BY <1>1, <1>3 DEF ButtonInv, NumberInv
<1>5. /\ req[r] = "called"
      /\ fn' = [fn EXCEPT ![r] = <<f>>]
      /\ taken' = [taken EXCEPT ![f.of] = @ + 1]
      /\ req' = [req EXCEPT ![r] = IF f.nil THEN "append" ELSE "fn"]
      /\ callbacks' = [callbacks EXCEPT ![id[p]] = <<>>]
      /\ UNCHANGED <<life, msgID, born, id, buttons, chat, press>>
  BY <1>0, <1>2, <1>f DEF callback, Deleted, Goto, server, message
<1>6. Current(p) /\ ~MixedUp(p) => f.button = k /\ taken[p] = 0
  BY <1>1, <1>2, <1>f DEF ButtonInv, CallbackInv, InOrder
<1>t. /\ fn \in [Requests -> Seq(Fns)] /\ taken \in [Messages -> Nat]
      /\ DOMAIN req = Requests /\ callbacks \in [Ids -> Seq(Fns)]
  BY DEF ButtonInv, TypeOK
<1>7. /\ fn'[r] = <<f>> /\ req'[r] \in {"fn", "append"}
      /\ \A q \in Requests \ {r} : fn'[q] = fn[q] /\ req'[q] = req[q]
      /\ taken'[f.of] = taken[f.of] + 1
      /\ \A n \in Messages \ {f.of} : taken'[n] = taken[n]
      /\ callbacks'[id[p]] = <<>>
      /\ \A i \in Ids \ {id[p]} : callbacks'[i] = callbacks[i]
  BY <1>1, <1>3, <1>5, <1>t
\* Who is mixed up stays so, and if p is not the owner, the owner is.
<1>8. \A n \in Messages : MixedUp(n) => MixedUp(n)'
  <2> SUFFICES ASSUME NEW n \in Messages, MixedUp(n) PROVE MixedUp(n)'
    OBVIOUS
  <2>1. PICK q \in Requests : \E j \in DOMAIN fn[q] : fn[q][j].of = n /\ press[q][1] # n
    BY DEF MixedUp
  <2>2. q # r
    BY <1>1, <2>1
  <2> QED BY <1>5, <1>7, <2>1, <2>2 DEF MixedUp
<1>9. f.of # p => MixedUp(f.of)'
  <2>1. 1 \in DOMAIN fn'[r] /\ fn'[r][1] = f
    BY <1>7
  <2> QED BY <1>0, <1>5, <2>1 DEF MixedUp
<1>10. NumberInv'
  <2>1. \A m \in Messages : born[m] = 0 => m # f.of
    BY <1>3, <1>l DEF Current
  <2> QED BY <1>5, <1>7, <2>1 DEF ButtonInv, NumberInv, Current
<1>11. OwnerInv'
  <2>1. Len(<<>>) = 0
    OBVIOUS
  <2> QED BY <1>5, <1>7, <2>1 DEF ButtonInv, OwnerInv, Current
<1>12. CallbackInv'
  <2> SUFFICES ASSUME NEW n \in Messages, born[n] = life, ~MixedUp(n)'
               PROVE  IF n \in chat THEN callbacks'[id[n]] = <<>> \/ InOrder(n)' ELSE InOrder(n)'
    BY <1>5 DEF CallbackInv, Current
  <2>1. CASE id[n] = id[p]
    <3>1. n = f.of
      BY <1>3, <2>1 DEF ButtonInv, NumberInv, Current
    <3>2. n \in chat
      BY <1>1, <1>9, <3>1
    <3> QED BY <1>7, <2>1, <3>2
  <2>2. CASE id[n] # id[p]
    <3>1. n # f.of /\ id[n] \in Ids
      BY <1>3, <1>l, <2>2 DEF ButtonInv, NumberInv
    <3>2. callbacks'[id[n]] = callbacks[id[n]] /\ taken'[n] = taken[n]
      BY <1>7, <2>2, <3>1
    <3>3. InOrder(n)' = InOrder(n)
      BY <1>5, <3>2 DEF InOrder
    <3> QED BY <1>8, <3>2, <3>3 DEF ButtonInv, CallbackInv, Current
  <2> QED BY <2>1, <2>2
<1>13. TakenOnce'
  <2> SUFFICES ASSUME NEW n \in Messages, ~MixedUp(n)' PROVE taken'[n] <= 1
    BY DEF TakenOnce
  <2>1. CASE n = f.of
    <3>1. n = p /\ Current(p) /\ ~MixedUp(p)
      BY <1>3, <1>8, <1>9, <2>1
    <3> QED BY <1>6, <1>7, <2>1, <3>1
  <2>2. CASE n # f.of
    BY <1>7, <1>8, <2>2 DEF ButtonInv, TakenOnce
  <2> QED BY <2>1, <2>2
<1>14. RequestInv'
  <2> SUFFICES ASSUME NEW q \in Requests PROVE
        /\ req'[q] \in {"none", "called"} => fn'[q] = <<>>
        /\ req'[q] \in {"called", "fn", "append"} =>
              /\ press[q] \in Buttons /\ press[q][1] \in chat
              /\ press[q][2] <= buttons[press[q][1]]
        /\ req'[q] \in {"fn", "append"} => Len(fn'[q]) = 1
    BY <1>5 DEF RequestInv
  <2>1. CASE q = r
    BY <1>5, <1>7, <2>1 DEF ButtonInv, RequestInv
  <2>2. CASE q # r
    BY <1>7, <2>2 DEF ButtonInv, RequestInv
  <2> QED BY <2>1, <2>2
<1>15. OwnFunction'
  <2> SUFFICES ASSUME NEW q \in Requests, NEW n \in Messages, n = press[q][1],
                      req'[q] \in {"called", "fn", "append"}, born[n] = life, ~MixedUp(n)'
               PROVE  IF req'[q] = "called"
                      THEN Found(q)' = <<>> \/ press[q][2] <= Len(Found(q)')
                      ELSE fn'[q][1].of = n /\ fn'[q][1].button = press[q][2]
    <3>1. \A q \in Requests : req'[q] \in {"called", "fn", "append"} => press[q][1] \in Messages
      BY <1>5, <1>14 DEF RequestInv, Buttons
    <3> QED BY <1>5, <3>1 DEF OwnFunction, Found, MixedUp
  <2>1. CASE q = r
    <3>1. n = p /\ ~MixedUp(p) /\ Current(p)
      BY <1>0, <1>8, <2>1 DEF Current
    <3>2. f.of = p /\ f.button = k /\ fn'[r][1] = f
      BY <1>4, <1>6, <1>7, <3>1
    <3> QED BY <1>0, <1>7, <2>1, <3>1, <3>2
  <2>2. CASE q # r /\ req'[q] # "called"
    BY <1>7, <1>8, <2>2 DEF ButtonInv, OwnFunction
  <2>3. CASE q # r /\ req'[q] = "called"
    <3>1. Found(q)' = callbacks'[id[n]] /\ Found(q) = callbacks[id[n]] /\ req[q] = "called"
      BY <1>5, <1>7, <2>3 DEF Found
    <3>2. id[n] \in Ids
      <4>1. life # 0
        BY DEF ButtonInv, TypeOK
      <4> QED BY <4>1 DEF ButtonInv, NumberInv
    <3>3. Found(q)' = <<>> \/ Found(q)' = Found(q)
      BY <1>7, <3>1, <3>2
    <3> QED BY <1>8, <2>3, <3>1, <3>3 DEF ButtonInv, OwnFunction
  <2> QED BY <2>1, <2>2, <2>3
<1> QED BY <1>10, <1>11, <1>12, <1>13, <1>14, <1>15 DEF ButtonInv

\* Nothing of a life is left after it but messages in the chat.
LEMMA RestartStep == ASSUME ButtonInv, TypeOK', Restart PROVE ButtonInv'
<1>1. /\ life' = life + 1 /\ life \in Nat /\ msgID' = 0
      /\ callbacks' = [i \in Ids |-> <<>>]
      /\ UNCHANGED <<born, id, buttons, chat, press, fn, taken>>
  BY DEF Restart, message, ButtonInv, TypeOK
<1>2. \A r \in Requests : \/ req'[r] = req[r] /\ req[r] \notin {"called", "fn", "append"}
                          \/ req'[r] = "dead"
  BY DEF Restart, Handled
<1>3. \A m \in Messages : born[m] \in Nat /\ born[m] <= life /\ born[m] # life'
  BY <1>1 DEF ButtonInv, TypeOK, NumberInv
<1>4. NumberInv' /\ CallbackInv'
  BY <1>1, <1>3 DEF ButtonInv, NumberInv, CallbackInv, Current
<1>5. OwnerInv'
  <2>1. \A i \in Ids : Len(callbacks'[i]) = 0
    BY <1>1
  <2> QED BY <2>1 DEF OwnerInv
<1>6. TakenOnce'
  BY <1>1 DEF ButtonInv, TakenOnce, MixedUp
<1>7. RequestInv' /\ OwnFunction'
  BY <1>1, <1>2 DEF ButtonInv, RequestInv, OwnFunction
<1> QED BY <1>4, <1>5, <1>6, <1>7 DEF ButtonInv

LEMMA ButtonStep == ButtonInv /\ [Next]_vars => ButtonInv'
<1> SUFFICES ASSUME ButtonInv, [Next]_vars PROVE ButtonInv'
  OBVIOUS
<1>t. TypeOK' /\ DOMAIN req = Requests
  BY TypeStep DEF ButtonInv, TypeOK
<1>1. CASE Run \/ Cancel
  <2>1. GoOn
    BY <1>1 DEF Run, Cancel, bot, message, request, GoOn
  <2> QED BY <1>t, <2>1, RequestsGoOn
<1>2. CASE Restart
  BY <1>2, <1>t, RestartStep
<1>3. ASSUME NEW m \in Messages, createMessage(m) \/ WithButton(m) \/ Send(m)
      PROVE  ButtonInv'
  BY <1>3, <1>t, CreateStep, WithButtonStep, SendStep
<1>4. ASSUME NEW r \in Requests,
             \/ CallIgnored(r) \/ callbackNotFound(r) \/ callbackOutOfRange(r) \/ Reply(r)
      PROVE  ButtonInv'
  <2>1. UNCHANGED <<life, msgID, callbacks, born, id, buttons, chat, press, fn, taken>>
    BY <1>4 DEF CallIgnored, callbackNotFound, callbackOutOfRange, Reply, FnReturns,
       appendMessage, answerCallbackQuery, server, bot, message
  <2>2. \A q \in Requests : \/ req'[q] = req[q]
                            \/ req'[q] \notin {"none", "called", "fn", "append"}
                            \/ req[q] = "fn" /\ req'[q] = "append"
    BY <1>4, <1>t DEF CallIgnored, callbackNotFound, callbackOutOfRange, Reply, FnReturns,
       appendMessage, answerCallbackQuery, Goto
  <2>3. GoOn
    BY <2>1, <2>2 DEF GoOn
  <2> QED BY <1>t, <2>3, RequestsGoOn
<1>5. ASSUME NEW r \in Requests, Called(r) \/ callback(r) PROVE ButtonInv'
  BY <1>5, <1>t, CalledStep, CallbackStep
<1>6. CASE UNCHANGED vars
  <2>1. GoOn
    BY <1>6 DEF vars, server, bot, message, request, GoOn
  <2> QED BY <1>t, <2>1, RequestsGoOn
<1> QED BY <1>1, <1>2, <1>3, <1>4, <1>5, <1>6 DEF Next, Callback

LEMMA ButtonInit == Init => ButtonInv
<1> SUFFICES ASSUME Init PROVE ButtonInv
  OBVIOUS
<1> USE TelegramConstantsOK
<1>1. TypeOK
  <2>1. <<>> \in Seq(Fns)
    OBVIOUS
  <2>2. /\ callbacks \in [Ids -> Seq(Fns)] /\ fn \in [Requests -> Seq(Fns)]
        /\ press \in [Requests -> Buttons \cup {<<>>}]
    BY <2>1 DEF Init
  <2>3. /\ life \in 1 .. MaxLives /\ msgID \in 0 .. MaxId
        /\ born \in [Messages -> 0 .. MaxLives] /\ id \in [Messages -> 0 .. MaxId]
        /\ buttons \in [Messages -> 0 .. MaxButtons] /\ taken \in [Messages -> Nat]
    BY DEF Init
  <2> QED BY <2>2, <2>3 DEF Init, TypeOK
<1>2. NumberInv /\ RequestInv
  BY DEF Init, NumberInv, RequestInv, Current
<1>3. OwnerInv
  BY DEF Init, OwnerInv
<1>4. CallbackInv /\ TakenOnce /\ OwnFunction
  BY DEF Init, CallbackInv, TakenOnce, OwnFunction, Current
<1> QED BY <1>1, <1>2, <1>3, <1>4 DEF ButtonInv

\* However often, late and concurrently the buttons of a message are pressed, its
\* callbacks are taken once, for any number of messages, presses and restarts.
THEOREM ButtonsWorkOnce == Spec => []TakenOnce
<1>1. ButtonInv => TakenOnce
  BY DEF ButtonInv
<1> QED BY <1>1, ButtonInit, ButtonStep, PTL DEF Spec

\* A press runs the function of its own button, and never one that is not there.
THEOREM ButtonsDoTheirOwn == Spec => []OwnFunction
<1>1. ButtonInv => OwnFunction
  BY DEF ButtonInv
<1> QED BY <1>1, ButtonInit, ButtonStep, PTL DEF Spec

\* The types of the model, for any number of messages, presses and restarts.
THEOREM TelegramTypes == Spec => []TypeOK
<1>1. ButtonInv => TypeOK
  BY DEF ButtonInv
<1> QED BY <1>1, ButtonInit, ButtonStep, PTL DEF Spec
=============================================================================
