\* Two credits, a byte limit that one large payload exceeds, one resend
\* before a head is dropped, two channel incarnations.
CONSTANTS
  MaxCount = 2
  MaxBytes = 3
  MaxRedeliveries = 1
  Redelivery = TRUE
  MaxOffset = 4
  Epochs = {1, 2}
  Sizes = {1, 4}
SPECIFICATION Spec
INVARIANTS Contiguous CreditRespected ConfirmCoversSent
  PoisonedAfterBudget
PROPERTY ConfirmedNeverRegresses
