CONSTANTS
  Posters = {runtime, button_task}
  Runtime = runtime
  Capacity = 2
  NoEvent = NoEvent
  MaxPosts = 3
SPECIFICATION EventSpec
INVARIANT AcceptedEventsDelivered
