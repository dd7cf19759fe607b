SPECIFICATION WaitingSpec
CONSTANTS
  t1 = t1
  t2 = t2
  t3 = t3
  w1 = w1
  w2 = w2
  n1 = n1
  n2 = n2
  a1 = a1
  a2 = a2
  h1 = h1
  h2 = h2
  Threads = {t1, t2, t3}
  Calls = {"signal_all", "unlock_and_signal_one", "signal_one", "try_unlock_and_signal_one", "reset", "wait", "wait_for"}
  Destroyers = {t1}
  MaxCalls = 2
  Setter = t1
  Getters = {t2, t3}
  Results = {"value", "error"}
CHECK_DEADLOCK FALSE
PROPERTIES EventSafe EventWaits FutureSound 
            ThreadsSound SyncbufsSound   MqttClientSound
