SPECIFICATION Spec
CONSTANTS
  Disker = {1, 2, 3}
  NUM = 8
  WRAP = 8
  INPUT_BUF_SIZE = 2
  Plain = {"x"}
  IWRAP = 8
  Workloads <- MCWorkloads
INVARIANT TransfersExact
PROPERTIES ImplementsLineDiscipline EveryCallReturns
