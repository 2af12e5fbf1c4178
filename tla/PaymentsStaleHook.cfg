SPECIFICATION Spec
CONSTANTS
  Key = {k1}
  PaymentId = {p1, p2}
  Handler = {h1, h2}
  None = None
  MaxFaults = 0
PROPERTY StaleWebhookIgnored
