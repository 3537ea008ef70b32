-------------------------------- MODULE Poller -------------------------------
(***************************************************************************)
(* The poller of one loop and the channels of that loop, under any         *)
(* sequence of calls the channels' interface allows: a channel is enabled, *)
(* disabled, removed and enabled again, in any order.  All the calls come  *)
(* from the loop's thread, so each is one step.                            *)
(***************************************************************************)
EXTENDS Channel

CONSTANT Channels

VARIABLE channel   \* the record of each channel, see module Channel

PollerInit == channel = [c \in Channels |-> NewChannel]

Store(c, ch) == channel' = [channel EXCEPT ![c] = ch]

PollerNext ==
  \E c \in Channels :
    \/ Store(c, EnableReading(channel[c]))
    \/ Store(c, DisableReading(channel[c]))
    \/ Store(c, EnableWriting(channel[c]))
    \/ Store(c, DisableWriting(channel[c]))
    \/ Store(c, DisableAll(channel[c]))
    \/ Store(c, RemoveChannel(channel[c]))

PollerSpec == PollerInit /\ [][PollerNext]_channel

------------------------------------------------------------------------------
\* Every field of a channel has its type.
PollerTypeOK == channel \in [Channels -> ChannelType]

\* No sequence of calls makes an epoll_ctl fail, and after each of them
\* index_, channels_ and the interest list tell the same story: index_ is
\* the only thing updateChannel and removeChannel decide by.
RegistrationAgrees == \A c \in Channels : Consistent(channel[c])
==============================================================================
