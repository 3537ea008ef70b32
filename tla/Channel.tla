------------------------------- MODULE Channel -------------------------------
(***************************************************************************)
(* A Channel and what the poller keeps about it (src/src/Net/Channel.h,    *)
(* src/src/Poller/EPollPoller.cpp).  The same registration is recorded in  *)
(* four places that have to agree: Channel::events_, Channel::index_, the  *)
(* map EPollPoller::channels_ and the kernel's interest list.  A channel   *)
(* is a record of the four; every operator maps the record before a call   *)
(* to the record after it.  epoll_ctl fails when it adds a descriptor that *)
(* is in the interest list or changes one that is not; the poller logs the *)
(* error and goes on, here it is remembered in ctlFailed.                  *)
(***************************************************************************)

kReadEvent == "R"
kWriteEvent == "W"

NewChannel ==
  [events |-> {},          \* Channel::events_
   index |-> "kNew",       \* Channel::index_
   channels |-> FALSE,     \* is it in EPollPoller::channels_?
   inEpoll |-> FALSE,      \* is it in the kernel's interest list?
   mask |-> {},            \* the events the kernel watches
   ctlFailed |-> FALSE]    \* an epoll_ctl on it has failed

ChannelType ==
  [events : SUBSET {kReadEvent, kWriteEvent},
   index : {"kNew", "kAdded", "kDeleted"},
   channels : BOOLEAN,
   inEpoll : BOOLEAN,
   mask : SUBSET {kReadEvent, kWriteEvent},
   ctlFailed : BOOLEAN]

IsNoneEvent(ch) == ch.events = {}
IsWriting(ch) == kWriteEvent \in ch.events

------------------------------------------------------------------------------
\* EPollPoller::update, one operator for each operation of epoll_ctl.

CtlAdd(ch) ==
  IF ch.inEpoll THEN [ch EXCEPT !.ctlFailed = TRUE]
                ELSE [ch EXCEPT !.inEpoll = TRUE, !.mask = ch.events]

CtlMod(ch) ==
  IF ch.inEpoll THEN [ch EXCEPT !.mask = ch.events]
                ELSE [ch EXCEPT !.ctlFailed = TRUE]

CtlDel(ch) ==
  IF ch.inEpoll THEN [ch EXCEPT !.inEpoll = FALSE, !.mask = {}]
                ELSE [ch EXCEPT !.ctlFailed = TRUE]

------------------------------------------------------------------------------
\* EPollPoller::updateChannel.  A channel that is not in the interest list
\* is added whatever its events are, even none.
UpdateChannel(ch) ==
  CASE ch.index = "kNew" ->
         CtlAdd([ch EXCEPT !.channels = TRUE, !.index = "kAdded"])
    [] ch.index = "kDeleted" -> CtlAdd([ch EXCEPT !.index = "kAdded"])
    [] ch.index = "kAdded" /\ IsNoneEvent(ch) ->
         [CtlDel(ch) EXCEPT !.index = "kDeleted"]
    [] OTHER -> CtlMod(ch)

\* Mutant: index_ is not reset.
RemoveChannel_KeepsIndex(ch) ==
  IF ch.index = "kAdded" THEN CtlDel([ch EXCEPT !.channels = FALSE])
                         ELSE [ch EXCEPT !.channels = FALSE]

\* EPollPoller::removeChannel.  events_ keeps its value.
RemoveChannel(ch) ==
  LET erased == [ch EXCEPT !.channels = FALSE] IN
  [IF ch.index = "kAdded" THEN CtlDel(erased) ELSE erased
     EXCEPT !.index = "kNew"]

EnableReading(ch) == UpdateChannel([ch EXCEPT !.events = @ \cup {kReadEvent}])
DisableReading(ch) == UpdateChannel([ch EXCEPT !.events = @ \ {kReadEvent}])
EnableWriting(ch) == UpdateChannel([ch EXCEPT !.events = @ \cup {kWriteEvent}])
DisableWriting(ch) == UpdateChannel([ch EXCEPT !.events = @ \ {kWriteEvent}])
DisableAll(ch) == UpdateChannel([ch EXCEPT !.events = {}])

\* The four records of a registration agree.
Consistent(ch) ==
  /\ ch.inEpoll <=> ch.index = "kAdded"
  /\ ch.channels <=> ch.index # "kNew"
  /\ ch.inEpoll => ch.mask = ch.events
  /\ ~ch.ctlFailed
==============================================================================
