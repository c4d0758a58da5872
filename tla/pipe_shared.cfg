SPECIFICATION PipeSpec
CONSTANTS
  PipeTask = {t1, t2}
  NoTask = NoTask
  Byte = {0, 1}
  m_capacity = 1
  MaxCount = 1
INVARIANT OtherTaskMayUse
