SPECIFICATION Spec
CONSTANTS
    Client = {c1, c2, c3}
    MaxDownloads = 2
    MaxCount = 6
    None = None
SYMMETRY Clients
INVARIANTS OverrunBounded CountExact RevokeHolds
